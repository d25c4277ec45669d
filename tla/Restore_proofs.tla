--------------------------- MODULE Restore_proofs ---------------------------
(***************************************************************************)
(* Theorems of Restore, for any number of handles, restorers, pages and    *)
(* commits.                                                                *)
(***************************************************************************)
EXTENDS Restore, TLAPS

-----------------------------------------------------------------------------
(* Types. *)

Content == [Pages -> SUBSET Nat]
LogContent == UNION {[S -> SUBSET Nat] : S \in SUBSET Pages}

DatabaseFile == [page : Content, mode : {"wal", "rollback"}, good : BOOLEAN]
LogFile == [page : LogContent, mode : {"log"}, good : {TRUE}]
File == DatabaseFile \cup LogFile

HandlePc == {"out", "opening", "open", "copied"}
RestorerPc == {"idle", "validated", "statted", "staged", "opening", "locked",
               "copied", "ready", "installed", "done", "failed"}

Handle == [pc : HandlePc, db : Nat, log : Nat, tmp : Nat]
Restorer == [pc : RestorerPc, db : Nat, log : Nat, tmp : Nat, bak : Nat,
             exists : BOOLEAN, skip : BOOLEAN, to : {"snapshot", "backup"},
             tries : Nat]

Database(i) == i \in 1..Len(file) /\ file[i].mode # "log"
Log(i) == i \in 1..Len(file) /\ file[i].mode = "log"
\* What Snapshot, a backup or the staging of a restore made.
Whole(i) == i \in 2..Len(file) /\ file[i].mode = "rollback"
GoodCopy(i) == Whole(i) /\ file[i].good

TypeOK ==
  /\ file \in Seq(File) /\ Len(file) >= 2
  /\ at \in [Names -> Nat]
  /\ handle \in [Handles -> Handle]
  /\ restorer \in [Restorers -> Restorer]
  /\ commits \in Nat /\ installs \in Nat

\* What a name, a handle and a restorer refer to.
NamesOK ==
  /\ at["db"] # 0 => Database(at["db"]) /\ file[at["db"]].good
  /\ at["snapshot"] # 0 => Whole(at["snapshot"])
  /\ at["log"] # 0 => Log(at["log"])

HandleOK(h) ==
  /\ handle[h].pc # "out" => Database(handle[h].db)
  /\ handle[h].pc \in {"out", "opening"} => handle[h].log = 0
  /\ handle[h].log # 0 => Log(handle[h].log)
  /\ handle[h].pc = "copied" => GoodCopy(handle[h].tmp)

Staged == {"staged", "opening", "locked", "copied", "ready", "installed"}

RestorerOK(r) ==
  /\ restorer[r].pc \in {"validated", "statted"} =>
       at["snapshot"] # 0 /\ file[at["snapshot"]].good
  /\ restorer[r].pc \in Staged => GoodCopy(restorer[r].tmp)
  /\ restorer[r].pc \in {"staged", "opening", "locked", "copied"} =>
       restorer[r].exists
  /\ restorer[r].exists => at["db"] # 0
  /\ restorer[r].exists /\ restorer[r].pc \in {"opening", "locked", "copied",
                                               "ready", "installed"} =>
       Database(restorer[r].db)
  /\ restorer[r].log # 0 => Log(restorer[r].log)
  /\ restorer[r].pc = "copied" => GoodCopy(restorer[r].bak)

\* The database that bdd.Init makes where there is none.
FirstOK == Database(1) /\ file[1].good

References ==
  /\ NamesOK /\ FirstOK
  /\ \A h \in Handles : HandleOK(h)
  /\ \A r \in Restorers : RestorerOK(r)

\* Where no database is, nobody has been at it.
Blank == [p \in Pages |-> {}]

Untouched ==
  at["db"] = 0 =>
    /\ at["log"] = 0 /\ file[1].page = Blank
    /\ \A h \in Handles : handle[h].pc = "out"
    /\ \A r \in Restorers : ~restorer[r].exists /\ restorer[r].pc # "installed"

KindsOK == TypeOK /\ References

RestoreInv == TypeOK /\ References /\ Untouched

-----------------------------------------------------------------------------
(* Files. *)

\* Files are only added, and what a file is does not change.
Grows ==
  /\ Len(file') >= Len(file)
  /\ \A i \in 1..Len(file) : /\ file'[i].mode = file[i].mode
                             /\ file'[i].good = file[i].good

LEMMA FileFacts ==
  ASSUME TypeOK, NEW i \in 1..Len(file)
  PROVE  /\ file[i] \in File
         /\ file[i].mode \in {"wal", "rollback", "log"}
         /\ file[i].good \in BOOLEAN
         /\ file[i].mode # "log" => file[i] \in DatabaseFile
         /\ file[i].mode = "log" => file[i] \in LogFile
<1>1. file[i] \in File
  BY DEF TypeOK
<1> QED
  BY <1>1 DEF File, DatabaseFile, LogFile

\* A file more.
LEMMA Added ==
  ASSUME TypeOK, NEW new \in File, file' = Append(file, new)
  PROVE  /\ file' \in Seq(File) /\ Len(file') = Len(file) + 1
         /\ \A i \in 1..Len(file) : file'[i] = file[i]
         /\ file'[Next1] = new
         /\ Grows
<1>1. /\ file' \in Seq(File) /\ Len(file') = Len(file) + 1
      /\ \A i \in 1..Len(file) : file'[i] = file[i]
      /\ file'[Next1] = new
  BY DEF TypeOK, Next1
<1> QED
  BY <1>1 DEF Grows, TypeOK

\* A change of the pages of a database.
LEMMA DatabaseChanged ==
  ASSUME TypeOK, NEW d, Database(d), NEW page \in Content,
         file' = [file EXCEPT ![d].page = page]
  PROVE  /\ file' \in Seq(File) /\ Len(file') = Len(file)
         /\ \A i \in 1..Len(file) \ {d} : file'[i] = file[i]
         /\ file'[d].page = page
         /\ Grows
<1>1. /\ d \in 1..Len(file) /\ file[d] \in DatabaseFile
  BY FileFacts DEF Database
<1>2. /\ [file[d] EXCEPT !.page = page] \in DatabaseFile
      /\ [file[d] EXCEPT !.page = page].page = page
      /\ [file[d] EXCEPT !.page = page].mode = file[d].mode
      /\ [file[d] EXCEPT !.page = page].good = file[d].good
  BY <1>1 DEF DatabaseFile
<1>3. file' = [file EXCEPT ![d] = [file[d] EXCEPT !.page = page]]
  OBVIOUS
<1>4. /\ file' \in Seq(File) /\ Len(file') = Len(file)
      /\ \A i \in 1..Len(file) \ {d} : file'[i] = file[i]
      /\ file'[d] = [file[d] EXCEPT !.page = page]
  BY <1>1, <1>2, <1>3 DEF TypeOK, File
<1> QED
  BY <1>1, <1>2, <1>4 DEF Grows, TypeOK

LEMMA LogChanged ==
  ASSUME TypeOK, NEW l, Log(l), NEW page \in LogContent,
         file' = [file EXCEPT ![l].page = page]
  PROVE  /\ file' \in Seq(File) /\ Len(file') = Len(file)
         /\ \A i \in 1..Len(file) \ {l} : file'[i] = file[i]
         /\ file'[l].page = page
         /\ Grows
<1>1. /\ l \in 1..Len(file) /\ file[l] \in LogFile
  BY FileFacts DEF Log
<1>2. /\ [file[l] EXCEPT !.page = page] \in LogFile
      /\ [file[l] EXCEPT !.page = page].page = page
      /\ [file[l] EXCEPT !.page = page].mode = file[l].mode
      /\ [file[l] EXCEPT !.page = page].good = file[l].good
  BY <1>1 DEF LogFile
<1>3. file' = [file EXCEPT ![l] = [file[l] EXCEPT !.page = page]]
  OBVIOUS
<1>4. /\ file' \in Seq(File) /\ Len(file') = Len(file)
      /\ \A i \in 1..Len(file) \ {l} : file'[i] = file[i]
      /\ file'[l] = [file[l] EXCEPT !.page = page]
  BY <1>1, <1>2, <1>3, SMTT(30) DEF TypeOK, File
<1> QED
  BY <1>1, <1>2, <1>4 DEF Grows, TypeOK

LEMMA Unchanged == ASSUME TypeOK, UNCHANGED file PROVE Grows
  BY DEF Grows, TypeOK

\* What a connection reads is the content of a database, and a copy of it a
\* file.
LEMMA ViewIsContent ==
  ASSUME TypeOK, NEW d, Database(d), NEW l, l = 0 \/ Log(l)
  PROVE  View(d, l) \in Content
<1>1. file[d].page \in Content
  BY FileFacts DEF Database, DatabaseFile
<1>2. ASSUME Log(l)
      PROVE  \A p \in DOMAIN file[l].page : file[l].page[p] \in SUBSET Nat
  <2>1. file[l].page \in LogContent
    BY <1>2, FileFacts DEF Log, LogFile
  <2>2. PICK S \in SUBSET Pages : file[l].page \in [S -> SUBSET Nat]
    BY <2>1 DEF LogContent
  <2> QED
    BY <2>2
<1>3. ASSUME NEW p \in Pages
      PROVE  (IF l # 0 /\ p \in DOMAIN file[l].page THEN file[l].page[p]
                                                   ELSE file[d].page[p])
               \in SUBSET Nat
  BY <1>1, <1>2 DEF Content
<1> QED
  BY <1>3 DEF View, Content

LEMMA CopyIsFile ==
  ASSUME NEW page \in Content
  PROVE  /\ Copy(page) \in File
         /\ Copy(page).mode = "rollback" /\ Copy(page).good
         /\ Copy(page).page = page
  BY DEF Copy, File, DatabaseFile

LEMMA EmptyLogIsFile ==
  /\ EmptyLog \in File /\ EmptyLog.mode = "log" /\ DOMAIN EmptyLog.page = {}
<1>1. [p \in {} |-> {}] \in [{} -> SUBSET Nat]
  OBVIOUS
<1>2. [p \in {} |-> {}] \in LogContent
  BY <1>1 DEF LogContent
<1> QED
  BY <1>2 DEF EmptyLog, File, LogFile

\* What a name or a process refers to stays what it is.
LEMMA Persists ==
  ASSUME TypeOK, Grows, NEW i
  PROVE  /\ Database(i) => Database(i)' /\ file'[i].good = file[i].good
         /\ Log(i) => Log(i)'
         /\ Whole(i) => Whole(i)' /\ file'[i].good = file[i].good
         /\ GoodCopy(i) => GoodCopy(i)'
  BY DEF Grows, TypeOK, Database, Log, Whole, GoodCopy

-----------------------------------------------------------------------------
(* References are kept. *)

LEMMA InitInv == Init => RestoreInv
<1> SUFFICES ASSUME Init PROVE RestoreInv
  OBVIOUS
<1>1. PICK m \in Modes, good \in BOOLEAN :
        file = << [page |-> [p \in Pages |-> {}], mode |-> m, good |-> TRUE],
                  [page |-> [p \in Pages |-> {0}],
                   mode |-> "rollback", good |-> good] >>
  BY DEF Init
<1>2. m \in {"wal", "rollback"}
  BY BoundsAssumption
<1>3. /\ Len(file) = 2
      /\ file[1] = [page |-> [p \in Pages |-> {}], mode |-> m, good |-> TRUE]
      /\ file[2] = [page |-> [p \in Pages |-> {0}],
                    mode |-> "rollback", good |-> good]
  BY <1>1
<1>4. file[1] \in File /\ file[2] \in File
  BY <1>2, <1>3 DEF File, DatabaseFile, Content
<1>5. file \in Seq(File)
  BY <1>1, <1>3, <1>4
<1>6. PICK db \in {0, 1} :
        at = [n \in Names |-> CASE n = "db" -> db
                                [] n = "snapshot" -> 2
                                [] OTHER -> 0]
  BY DEF Init
<1>7. /\ at["db"] = db /\ at["snapshot"] = 2 /\ at["log"] = 0
      /\ at["backup"] = 0 /\ at \in [Names -> Nat]
  BY <1>6 DEF Names
<1>8. handle = [h \in Handles |-> Closed] /\ restorer = [r \in Restorers |-> Idle]
      /\ commits = 0 /\ installs = 0
  BY DEF Init
<1>9. TypeOK
  BY <1>3, <1>5, <1>7, <1>8
  DEF TypeOK, Closed, Idle, Handle, Restorer, HandlePc, RestorerPc
<1>10. NamesOK
  BY <1>2, <1>3, <1>7 DEF NamesOK, Database, Whole
<1>11. \A h \in Handles : HandleOK(h)
  BY <1>8 DEF HandleOK, Closed
<1>12. \A r \in Restorers : RestorerOK(r)
  BY <1>8 DEF RestorerOK, Idle, Staged
<1>13. FirstOK
  BY <1>2, <1>3 DEF FirstOK, Database
<1>14. Untouched
  BY <1>3, <1>7, <1>8 DEF Untouched, Blank, Closed, Idle
<1> QED
  BY <1>9, <1>10, <1>11, <1>12, <1>13, <1>14 DEF RestoreInv, References

\* Steps that leave the names alone, and steps of a handle or a restorer
\* that leave the others alone.
LEMMA NamesKept ==
  ASSUME RestoreInv, Grows, UNCHANGED at
  PROVE  NamesOK'
  BY Persists DEF RestoreInv, References, NamesOK

LEMMA HandleKept ==
  ASSUME RestoreInv, Grows, NEW h \in Handles, handle'[h] = handle[h]
  PROVE  HandleOK(h)'
  BY Persists DEF RestoreInv, References, HandleOK

LEMMA RestorerKept ==
  ASSUME RestoreInv, Grows, NEW r \in Restorers, restorer'[r] = restorer[r],
         \/ at'["snapshot"] = at["snapshot"]
         \/ GoodCopy(at'["snapshot"]),
         at["db"] # 0 => at'["db"] # 0
  PROVE  RestorerOK(r)'
<1>1. /\ Database(restorer[r].db) => Database(restorer[r].db)'
      /\ Log(restorer[r].log) => Log(restorer[r].log)'
      /\ GoodCopy(restorer[r].tmp) => GoodCopy(restorer[r].tmp)'
      /\ GoodCopy(restorer[r].bak) => GoodCopy(restorer[r].bak)'
  BY Persists DEF RestoreInv, Database, Log, GoodCopy, Whole
<1>2. restorer[r].pc \in {"validated", "statted"} =>
        at'["snapshot"] # 0 /\ file'[at'["snapshot"]].good
  <2>1. CASE GoodCopy(at'["snapshot"])
    BY <2>1, Persists DEF RestoreInv, TypeOK, Whole, GoodCopy, Grows
  <2>2. CASE at'["snapshot"] = at["snapshot"]
    BY <2>2 DEF RestoreInv, References, NamesOK, RestorerOK, TypeOK, Whole, Grows
  <2> QED
    BY <2>1, <2>2
<1> QED
  BY <1>1, <1>2 DEF RestoreInv, References, RestorerOK

\* What a step does to the files and the names.
FilesKept ==
  /\ file' \in Seq(File) /\ at' \in [Names -> Nat]
  /\ Grows /\ NamesOK'
  /\ at'["snapshot"] = at["snapshot"] \/ GoodCopy(at'["snapshot"])
  /\ at["db"] # 0 => at'["db"] # 0

LEMMA FirstKept ==
  ASSUME RestoreInv, Grows
  PROVE  FirstOK'
  BY DEF RestoreInv, TypeOK, References, FirstOK, Database, Grows

LEMMA LogAtIsLog ==
  ASSUME RestoreInv, NEW d
  PROVE  LogAt(d) \in Nat /\ (LogAt(d) = 0 \/ Log(LogAt(d)))
  BY DEF RestoreInv, TypeOK, References, NamesOK, LogAt, Names

LEMMA AttachKeeps ==
  ASSUME RestoreInv, NEW d, AttachLog(d), NEW l, l = LogFor(d)
  PROVE  FilesKept /\ l \in Nat /\ (l = 0 \/ Log(l)')
<1>1. CASE MakesLog(d)
  <2>1. /\ file' = Append(file, EmptyLog) /\ at' = [at EXCEPT !["log"] = l]
        /\ l = Next1
    BY <1>1 DEF AttachLog, LogFor
  <2>2. /\ file' \in Seq(File) /\ Len(file') = Len(file) + 1
        /\ file'[l] = EmptyLog /\ Grows
    BY <2>1, Added, EmptyLogIsFile DEF RestoreInv
  <2>3. l \in 1..Len(file') /\ l \in Nat
    BY <2>1, <2>2 DEF RestoreInv, TypeOK, Next1
  <2>4. /\ at' \in [Names -> Nat] /\ at'["log"] = l
        /\ at'["db"] = at["db"] /\ at'["snapshot"] = at["snapshot"]
    BY <2>1, <2>3 DEF RestoreInv, TypeOK, Names
  <2>5. Log(l)'
    BY <2>2, <2>3, EmptyLogIsFile DEF Log
  <2>6. NamesOK'
    <3> DEFINE d0 == at["db"]  s0 == at["snapshot"]
    <3>1. /\ d0 # 0 => Database(d0) /\ file[d0].good
          /\ s0 # 0 => Whole(s0)
      BY DEF RestoreInv, References, NamesOK
    <3>2. /\ at'["db"] = d0 /\ at'["snapshot"] = s0
      BY <2>4
    <3> HIDE DEF d0, s0
    <3>3. /\ d0 # 0 => /\ d0 \in 1..Len(file') /\ file'[d0].mode # "log"
                      /\ file'[d0].good
          /\ s0 # 0 => s0 \in 2..Len(file') /\ file'[s0].mode = "rollback"
      BY <2>2, <3>1 DEF RestoreInv, TypeOK, Grows, Database, Whole
    <3> QED
      BY <2>4, <2>5, <3>2, <3>3 DEF NamesOK, Database, Whole
  <2> QED
    BY <2>2, <2>3, <2>4, <2>5, <2>6 DEF FilesKept
<1>2. CASE ~MakesLog(d)
  <2>1. UNCHANGED <<file, at>> /\ l = LogAt(d)
    BY <1>2 DEF AttachLog, LogFor
  <2>2. Grows /\ NamesOK'
    BY <2>1, Unchanged, NamesKept DEF RestoreInv
  <2> QED
    BY <2>1, <2>2, LogAtIsLog DEF RestoreInv, TypeOK, FilesKept, Log
<1> QED
  BY <1>1, <1>2

LEMMA DetachKeeps ==
  ASSUME RestoreInv, NEW d, Database(d), NEW l, l = 0 \/ Log(l),
         NEW lastOut, Detach(d, l, lastOut)
  PROVE  FilesKept
<1>1. CASE UNCHANGED <<file, at>>
  BY <1>1, Unchanged, NamesKept DEF RestoreInv, TypeOK, FilesKept
<1>2. CASE /\ file' = [file EXCEPT ![d].page = View(d, l)]
           /\ at' = [at EXCEPT !["log"] = 0]
  <2>1. /\ file' \in Seq(File) /\ Grows
    BY <1>2, DatabaseChanged, ViewIsContent DEF RestoreInv
  <2>2. /\ at' \in [Names -> Nat] /\ at'["log"] = 0
        /\ at'["db"] = at["db"] /\ at'["snapshot"] = at["snapshot"]
    BY <1>2 DEF RestoreInv, TypeOK, Names
  <2>3. NamesOK'
    BY <2>1, <2>2, Persists DEF RestoreInv, References, NamesOK
  <2> QED
    BY <2>1, <2>2, <2>3 DEF FilesKept
<1> QED
  BY <1>1, <1>2 DEF Detach

LEMMA SameFiles ==
  ASSUME RestoreInv, UNCHANGED <<file, at>>
  PROVE  FilesKept
  BY Unchanged, NamesKept DEF RestoreInv, TypeOK, FilesKept

\* A copy of what can be read, added under no name.
LEMMA CopyKeeps ==
  ASSUME RestoreInv, NEW page \in Content, file' = Append(file, Copy(page)),
         UNCHANGED at, NEW n, n = Next1
  PROVE  FilesKept /\ GoodCopy(n)' /\ n \in Nat
<1>1. /\ file' \in Seq(File) /\ Len(file') = Len(file) + 1 /\ Grows
      /\ file'[n] = Copy(page)
  BY Added, CopyIsFile DEF RestoreInv
<1>2. NamesOK'
  BY <1>1, NamesKept
<1>3. GoodCopy(n)' /\ n \in Nat
  BY <1>1, CopyIsFile DEF GoodCopy, Whole, Next1, RestoreInv, TypeOK
<1> QED
  BY <1>1, <1>2, <1>3 DEF FilesKept, RestoreInv, TypeOK

\* It is enough to look at the process that takes the step.
LEMMA HandleStepKeeps ==
  ASSUME RestoreInv, FilesKept, UNCHANGED restorer, NEW h \in Handles,
         NEW state \in Handle, handle' = [handle EXCEPT ![h] = state],
         HandleOK(h)', commits' \in Nat, installs' \in Nat
  PROVE  KindsOK'
<1>1. handle' \in [Handles -> Handle]
  BY DEF RestoreInv, TypeOK
<1>2. TypeOK'
  BY <1>1 DEF RestoreInv, TypeOK, FilesKept, Grows
<1>3. ASSUME NEW g \in Handles PROVE HandleOK(g)'
  BY HandleKept DEF RestoreInv, TypeOK, FilesKept
<1>4. ASSUME NEW r \in Restorers PROVE RestorerOK(r)'
  BY RestorerKept DEF FilesKept
<1>5. FirstOK'
  BY FirstKept DEF FilesKept
<1> QED
  BY <1>2, <1>3, <1>4, <1>5 DEF KindsOK, References, FilesKept

LEMMA RestorerStepKeeps ==
  ASSUME RestoreInv, FilesKept, UNCHANGED handle, NEW r \in Restorers,
         NEW state \in Restorer, restorer' = [restorer EXCEPT ![r] = state],
         RestorerOK(r)', commits' \in Nat, installs' \in Nat
  PROVE  KindsOK'
<1>1. restorer' \in [Restorers -> Restorer]
  BY DEF RestoreInv, TypeOK
<1>2. TypeOK'
  BY <1>1 DEF RestoreInv, TypeOK, FilesKept, Grows
<1>3. ASSUME NEW h \in Handles PROVE HandleOK(h)'
  BY HandleKept DEF FilesKept
<1>4. ASSUME NEW s \in Restorers PROVE RestorerOK(s)'
  BY RestorerKept DEF RestoreInv, TypeOK, FilesKept
<1>5. FirstOK'
  BY FirstKept DEF FilesKept
<1> QED
  BY <1>2, <1>3, <1>4, <1>5 DEF KindsOK, References, FilesKept

LEMMA HandlesKeep ==
  ASSUME RestoreInv, NEW h \in Handles, HandleStep(h)
  PROVE  KindsOK'
<1> DEFINE H == handle[h]
<1> USE DEF RestoreInv
<1>0. /\ H \in Handle /\ HandleOK(h) /\ NamesOK
      /\ commits \in Nat /\ installs \in Nat
  BY DEF TypeOK, References
<1>1. CASE Open(h)
  <2>1. handle' = [handle EXCEPT ![h] = [H EXCEPT !.pc = "opening",
                                                  !.db = at["db"]]]
    BY <1>1 DEF Open, TypeOK
  <2>2. [H EXCEPT !.pc = "opening", !.db = at["db"]] \in Handle
    BY <1>0 DEF Handle, HandlePc, TypeOK, Names
  <2>3. FilesKept
    BY <1>1, SameFiles DEF Open
  <2>4. HandleOK(h)'
    BY <1>0, <1>1, <2>1, <2>3
    DEF Open, HandleOK, NamesOK, Database, FilesKept, Handle, TypeOK
  <2> QED
    BY <1>0, <1>1, <2>1, <2>2, <2>3, <2>4, HandleStepKeeps DEF Open
<1>2. CASE Attach(h)
  <2> DEFINE l == LogFor(H.db)
  <2>1. handle' = [handle EXCEPT ![h] = [H EXCEPT !.pc = "open", !.log = l]]
    BY <1>2 DEF Attach, TypeOK
  <2>2. FilesKept /\ l \in Nat /\ (l # 0 => l \in 1..Len(file')
                                          /\ file'[l].mode = "log")
    BY <1>2, AttachKeeps DEF Attach, Log
  <2>3. Database(H.db)
    BY <1>0, <1>2 DEF Attach, HandleOK
  <2> HIDE DEF l
  <2>4. [H EXCEPT !.pc = "open", !.log = l] \in Handle
    BY <1>0, <2>2 DEF Handle, HandlePc
  <2>5. handle'[h].pc = "open" /\ handle'[h].log = l /\ handle'[h].db = H.db
    BY <1>0, <2>1 DEF Handle, TypeOK
  <2>6. HandleOK(h)'
    BY <2>2, <2>3, <2>5
    DEF HandleOK, Database, Log, FilesKept, Grows, TypeOK
  <2> QED
    BY <1>0, <1>2, <2>1, <2>2, <2>4, <2>6, HandleStepKeeps DEF Attach
<1>3. ASSUME handle' = [handle EXCEPT ![h] = Closed], FilesKept,
             UNCHANGED <<restorer, commits, installs>>
      PROVE  KindsOK'
  <2>1. Closed \in Handle
    BY DEF Closed, Handle, HandlePc
  <2>2. HandleOK(h)'
    BY <1>3 DEF HandleOK, Closed, TypeOK
  <2> QED
    BY <1>0, <1>3, <2>1, <2>2, HandleStepKeeps
<1>4. CASE OpenBusy(h) \/ Crash(h)
  BY <1>3, <1>4, SameFiles DEF OpenBusy, Crash
<1>5. CASE Close(h)
  <2>1. Database(H.db) /\ (H.log = 0 \/ Log(H.log))
    BY <1>0, <1>5 DEF Close, HandleOK
  <2>2. FilesKept
    BY <1>5, <2>1, DetachKeeps DEF Close
  <2> QED
    BY <1>3, <1>5, <2>2 DEF Close
<1>6. ASSUME NEW p \in Pages, Commit(h, p) PROVE KindsOK'
  <2> DEFINE d == H.db  l == StatementLog(h)
             rows == View(d, l)[p] \union {commits + 1}
             logged == [q \in DOMAIN file[l].page \union {p} |->
                          IF q = p THEN rows ELSE file[l].page[q]]
  <2>1. Database(d) /\ l \in Nat /\ (l = 0 \/ Log(l))
    BY <1>0, <1>6, LogAtIsLog DEF Commit, HandleOK, StatementLog, Handle
  <2>2. rows \in SUBSET Nat
    <3>1. View(d, l) \in Content
      BY <2>1, ViewIsContent
    <3> QED
      BY <1>0, <3>1 DEF Content
  <2>3. handle' = [handle EXCEPT ![h] = [H EXCEPT !.log = l]]
    BY <1>6 DEF Commit, TypeOK
  <2>4. [H EXCEPT !.log = l] \in Handle
    BY <1>0, <2>1 DEF Handle
  <2>5. at' = at /\ restorer' = restorer /\ installs' = installs
        /\ commits' = commits + 1 /\ H.pc = "open"
    BY <1>6 DEF Commit
  <2>6. ASSUME l # 0 PROVE FilesKept
    <3>1. file' = [file EXCEPT ![l].page = logged]
      BY <1>6, <2>6 DEF Commit
    <3>2. logged \in LogContent
      <4>1. file[l].page \in LogContent
        BY <2>1, <2>6, FileFacts DEF Log, LogFile
      <4>2. PICK S \in SUBSET Pages : file[l].page \in [S -> SUBSET Nat]
        BY <4>1 DEF LogContent
      <4>3. /\ S \union {p} \in SUBSET Pages
            /\ DOMAIN file[l].page = S
            /\ \A q \in S : file[l].page[q] \in SUBSET Nat
        BY <4>2
      <4> HIDE DEF rows
      <4>4. logged \in [S \union {p} -> SUBSET Nat]
        BY <2>2, <4>3
      <4> QED
        BY <4>3, <4>4 DEF LogContent
    <3> HIDE DEF logged, l
    <3>3. file' \in Seq(File) /\ Grows
      BY <2>1, <2>6, <3>1, <3>2, LogChanged
    <3> QED
      BY <2>5, <3>3, NamesKept DEF FilesKept, TypeOK
  <2>7. ASSUME l = 0 PROVE FilesKept
    <3> DEFINE page == [file[d].page EXCEPT ![p] = rows]
    <3>1. file' = [file EXCEPT ![d].page = page]
      BY <1>6, <2>7 DEF Commit
    <3>2. page \in Content
      BY <2>1, <2>2, FileFacts DEF Database, DatabaseFile, Content
    <3> HIDE DEF page, d
    <3>3. file' \in Seq(File) /\ Grows
      BY <2>1, <3>1, <3>2, DatabaseChanged
    <3> QED
      BY <2>5, <3>3, NamesKept DEF FilesKept, TypeOK
  <2>8. FilesKept
    BY <2>1, <2>6, <2>7
  <2> HIDE DEF l, rows, logged
  <2>9. /\ handle'[h].pc = "open" /\ handle'[h].db = d
        /\ handle'[h].log = l
    BY <1>0, <2>3, <2>5 DEF Handle, TypeOK
  <2>10. HandleOK(h)'
    BY <2>1, <2>8, <2>9
    DEF HandleOK, Database, Log, FilesKept, Grows, TypeOK
  <2>11. commits' \in Nat /\ installs' \in Nat
    BY <1>0, <2>5
  <2> HIDE DEF RestoreInv, H
  <2> QED
    BY <2>3, <2>4, <2>5, <2>8, <2>10, <2>11, HandleStepKeeps
<1>7. CASE SnapshotCopy(h)
  <2> DEFINE l == StatementLog(h)  n == Next1
  <2>1. Database(H.db) /\ l \in Nat /\ (l = 0 \/ Log(l))
    BY <1>0, <1>7, LogAtIsLog DEF SnapshotCopy, HandleOK, StatementLog, Handle
  <2>2. FilesKept /\ n \in Nat /\ n \in 2..Len(file')
        /\ file'[n].mode = "rollback" /\ file'[n].good
    <3>1. View(H.db, l) \in Content
      BY <2>1, ViewIsContent
    <3> QED
      BY <1>7, <3>1, CopyKeeps DEF SnapshotCopy, GoodCopy, Whole
  <2>3. handle' = [handle EXCEPT ![h] = [H EXCEPT !.pc = "copied", !.tmp = n,
                                                  !.log = l]]
    BY <1>7 DEF SnapshotCopy, TypeOK
  <2> HIDE DEF l, n
  <2>4. [H EXCEPT !.pc = "copied", !.tmp = n, !.log = l] \in Handle
    BY <1>0, <2>1, <2>2 DEF Handle, HandlePc
  <2>5. /\ handle'[h].pc = "copied" /\ handle'[h].db = H.db
        /\ handle'[h].log = l /\ handle'[h].tmp = n
    BY <1>0, <2>3 DEF Handle, TypeOK
  <2>6. HandleOK(h)'
    BY <2>1, <2>2, <2>5
    DEF HandleOK, Database, Log, GoodCopy, Whole, FilesKept, Grows, TypeOK
  <2> QED
    BY <1>0, <1>7, <2>2, <2>3, <2>4, <2>6, HandleStepKeeps DEF SnapshotCopy
<1>8. CASE SnapshotInstall(h)
  <2>1. /\ handle' = [handle EXCEPT ![h] = [H EXCEPT !.pc = "open", !.tmp = 0]]
        /\ at' = [at EXCEPT !["snapshot"] = H.tmp] /\ file' = file
        /\ restorer' = restorer /\ commits' = commits /\ installs' = installs
        /\ H.pc = "copied"
    BY <1>8 DEF SnapshotInstall, TypeOK
  <2>2. GoodCopy(H.tmp) /\ H.tmp \in Nat
    BY <1>0, <2>1 DEF HandleOK, Handle
  <2>3. /\ at' \in [Names -> Nat] /\ at'["snapshot"] = H.tmp
        /\ at'["db"] = at["db"] /\ at'["log"] = at["log"]
    BY <2>1, <2>2 DEF TypeOK, Names
  <2>4. FilesKept
    BY <1>0, <2>1, <2>2, <2>3, Unchanged
    DEF FilesKept, NamesOK, Database, Log, Whole, GoodCopy, TypeOK
  <2>5. [H EXCEPT !.pc = "open", !.tmp = 0] \in Handle
    BY <1>0 DEF Handle, HandlePc
  <2>6. /\ handle'[h].pc = "open" /\ handle'[h].db = H.db
        /\ handle'[h].log = H.log
    BY <1>0, <2>1 DEF Handle, TypeOK
  <2>7. HandleOK(h)'
    BY <1>0, <2>1, <2>6 DEF HandleOK, Database, Log
  <2> QED
    BY <1>0, <2>1, <2>4, <2>5, <2>7, HandleStepKeeps
<1>9. CASE Create(h)
  <2> DEFINE l == LogFor(1)
  <2>1. /\ at["db"] = 0 /\ at["log"] = 0 /\ at["snapshot"] \in Nat
        /\ handle' = [handle EXCEPT ![h] = [H EXCEPT !.pc = "open", !.db = 1,
                                                     !.log = l]]
        /\ file' = IF MakesLog(1) THEN Append(file, EmptyLog) ELSE file
        /\ at' = [at EXCEPT !["db"] = 1, !["log"] = l]
        /\ UNCHANGED <<restorer, commits, installs>>
    BY <1>9 DEF Create, Untouched, TypeOK, Names
  <2>2. /\ file' \in Seq(File) /\ Len(file') >= Len(file) /\ Grows /\ l \in Nat
        /\ l # 0 => l \in 1..Len(file') /\ file'[l].mode = "log"
    <3>1. CASE MakesLog(1)
      <4>1. file' = Append(file, EmptyLog) /\ l = Next1
        BY <2>1, <3>1 DEF LogFor
      <4>2. /\ file' \in Seq(File) /\ Len(file') = Len(file) + 1 /\ Grows
            /\ file'[Next1] = EmptyLog
        BY <4>1, Added, EmptyLogIsFile
      <4> QED
        BY <4>1, <4>2, EmptyLogIsFile DEF Next1, TypeOK
    <3>2. CASE ~MakesLog(1)
      BY <2>1, <3>2, Unchanged DEF LogFor, LogAt, TypeOK
    <3> QED
      BY <3>1, <3>2
  <2> HIDE DEF l
  <2>3. /\ at' \in [Names -> Nat] /\ at'["db"] = 1 /\ at'["log"] = l
        /\ at'["snapshot"] = at["snapshot"]
    BY <2>1, <2>2 DEF TypeOK, Names
  <2>4. FirstOK'
    BY <2>2, FirstKept
  <2>5. NamesOK'
    BY <1>0, <2>2, <2>3, <2>4 DEF NamesOK, FirstOK, Database, Log, Whole, Grows, TypeOK
  <2>6. FilesKept
    BY <2>2, <2>3, <2>5 DEF FilesKept
  <2>7. [H EXCEPT !.pc = "open", !.db = 1, !.log = l] \in Handle
    BY <1>0, <2>2 DEF Handle, HandlePc
  <2>8. handle'[h].pc = "open" /\ handle'[h].log = l /\ handle'[h].db = 1
    BY <1>0, <2>1 DEF Handle, TypeOK
  <2>9. HandleOK(h)'
    BY <2>2, <2>4, <2>8 DEF HandleOK, FirstOK, Database, Log
  <2> QED
    BY <1>0, <2>1, <2>6, <2>7, <2>9, HandleStepKeeps
<1> QED
  BY <1>1, <1>2, <1>4, <1>5, <1>6, <1>7, <1>8, <1>9 DEF HandleStep

\* A step that only moves a restorer on, or lets it choose.
LEMMA MovesOn ==
  ASSUME RestoreInv, FilesKept, NEW r \in Restorers,
         NEW pc \in RestorerPc,
         restorer' = [restorer EXCEPT ![r].pc = pc],
         UNCHANGED <<handle, commits>>, installs' \in Nat,
         /\ pc \in {"validated", "statted"} =>
              at'["snapshot"] # 0 /\ file'[at'["snapshot"]].good
         /\ pc \in Staged => restorer[r].pc \in Staged
         /\ pc \in {"staged", "opening", "locked", "copied"} =>
              restorer[r].exists
         /\ restorer[r].exists /\ pc \in {"opening", "locked", "copied",
                                          "ready", "installed"} =>
              Database(restorer[r].db)
         /\ pc = "copied" => GoodCopy(restorer[r].bak)
  PROVE  KindsOK'
<1> DEFINE R == restorer[r]
<1>1. R \in Restorer /\ RestorerOK(r) /\ commits' \in Nat
  BY DEF RestoreInv, TypeOK, References
<1>2. restorer' = [restorer EXCEPT ![r] = [R EXCEPT !.pc = pc]]
  BY DEF RestoreInv, TypeOK
<1>3. [R EXCEPT !.pc = pc] \in Restorer
  BY <1>1 DEF Restorer
<1>4. /\ restorer'[r].pc = pc /\ restorer'[r].db = R.db
      /\ restorer'[r].log = R.log /\ restorer'[r].tmp = R.tmp
      /\ restorer'[r].bak = R.bak /\ restorer'[r].exists = R.exists
  BY <1>1, <1>2 DEF Restorer, RestoreInv, TypeOK
<1>5. /\ Database(R.db) => R.db \in 1..Len(file') /\ file'[R.db].mode # "log"
      /\ Log(R.log) => R.log \in 1..Len(file') /\ file'[R.log].mode = "log"
      /\ GoodCopy(R.tmp) => /\ R.tmp \in 2..Len(file') /\ file'[R.tmp].good
                            /\ file'[R.tmp].mode = "rollback"
      /\ GoodCopy(R.bak) => /\ R.bak \in 2..Len(file') /\ file'[R.bak].good
                            /\ file'[R.bak].mode = "rollback"
  <2>1. /\ Len(file) \in Nat /\ Len(file') \in Nat /\ Len(file') >= Len(file)
        /\ \A i \in 1..Len(file) : /\ file'[i].mode = file[i].mode
                                   /\ file'[i].good = file[i].good
    BY DEF RestoreInv, TypeOK, FilesKept, Grows
  <2> QED
    BY <2>1, SMTT(30) DEF Database, Log, GoodCopy, Whole
<1>6. RestorerOK(r)'
  <2>1. /\ R.log # 0 => Log(R.log)
        /\ pc \in Staged => GoodCopy(R.tmp)
    BY <1>1 DEF RestorerOK
  <2>2. R.exists => at'["db"] # 0
    BY <1>1 DEF RestorerOK, FilesKept
  <2> HIDE DEF R
  <2> QED
    BY <1>4, <1>5, <2>1, <2>2 DEF R, RestorerOK, Database, Log, GoodCopy, Whole
<1> QED
  BY <1>1, <1>2, <1>3, <1>6, RestorerStepKeeps

LEMMA RestorersKeep ==
  ASSUME RestoreInv, NEW r \in Restorers, Works(r) \/ Fail(r) \/ RestorerCrash(r)
  PROVE  KindsOK'
<1> DEFINE R == restorer[r]
<1>0. /\ R \in Restorer /\ RestorerOK(r) /\ NamesOK /\ TypeOK
      /\ commits \in Nat /\ installs \in Nat
  BY DEF RestoreInv, TypeOK, References
<1>1. CASE Validate(r)
  <2>1. FilesKept
    BY <1>1, SameFiles DEF Validate
  <2>2. CASE Step(r, "failed")
    BY <1>0, <1>1, <2>1, <2>2, MovesOn DEF Validate, Step, RestorerPc, Staged
  <2>3. ASSUME NEW skip \in BOOLEAN, NEW to \in BackupNames,
               Acceptable(at["snapshot"]),
               restorer' = [restorer EXCEPT ![r].pc = "validated",
                                            ![r].skip = skip, ![r].to = to]
        PROVE  KindsOK'
    <3> DEFINE S == [R EXCEPT !.pc = "validated", !.skip = skip, !.to = to]
    <3>1. restorer' = [restorer EXCEPT ![r] = S]
      BY <1>0, <2>3 DEF TypeOK
    <3>2. S \in Restorer
      BY <1>0, BoundsAssumption DEF Restorer, RestorerPc
    <3>3. /\ restorer'[r].pc = "validated" /\ restorer'[r].log = R.log
          /\ restorer'[r].exists = R.exists
          /\ UNCHANGED <<file, at, handle, commits, installs>>
      BY <1>0, <1>1, <3>1 DEF Restorer, TypeOK, Validate
    <3>4. RestorerOK(r)'
      BY <1>0, <2>3, <3>3 DEF RestorerOK, Acceptable, Staged, Log
    <3> QED
      BY <1>0, <2>1, <3>1, <3>2, <3>3, <3>4, RestorerStepKeeps
  <2> QED
    BY <1>1, <2>2, <2>3 DEF Validate
<1>2. CASE StatTarget(r)
  <2> DEFINE S == [R EXCEPT !.pc = "statted", !.exists = at["db"] # 0]
  <2>1. restorer' = [restorer EXCEPT ![r] = S] /\ R.pc = "validated"
    BY <1>0, <1>2 DEF TypeOK, StatTarget
  <2>2. S \in Restorer
    BY <1>0 DEF Restorer, RestorerPc
  <2>3. /\ restorer'[r].pc = "statted" /\ restorer'[r].log = R.log
        /\ restorer'[r].exists => at["db"] # 0
        /\ UNCHANGED <<file, at, handle, commits, installs>>
    BY <1>0, <1>2, <2>1, SMTT(30) DEF Restorer, TypeOK, StatTarget
  <2>4. RestorerOK(r)'
    BY <1>0, <2>1, <2>3 DEF RestorerOK, Staged, Log
  <2> QED
    BY <1>0, <2>1, <2>2, <2>3, <2>4, SameFiles, RestorerStepKeeps
<1>3. CASE Stage(r)
  <2> DEFINE new == [file[at["snapshot"]] EXCEPT !.mode = "rollback"]
             n == Next1  pc == IF R.exists THEN "staged" ELSE "ready"
             S == [R EXCEPT !.pc = pc, !.tmp = n]
  <2>1. /\ R.pc = "statted" /\ file' = Append(file, new)
        /\ UNCHANGED <<at, handle, commits, installs>>
        /\ restorer' = [restorer EXCEPT ![r] = S]
    BY <1>0, <1>3 DEF TypeOK, Stage
  <2>2. Whole(at["snapshot"]) /\ file[at["snapshot"]].good
    BY <1>0, <2>1 DEF RestorerOK, NamesOK
  <2>3. new \in File /\ new.mode = "rollback" /\ new.good
    BY <1>0, <2>2, FileFacts DEF Whole, DatabaseFile, File
  <2> HIDE DEF new
  <2>4. /\ file' \in Seq(File) /\ Len(file') = Len(file) + 1 /\ Grows
        /\ file'[n] = new
    BY <1>0, <2>1, <2>3, Added
  <2>5. n \in 2..Len(file') /\ n \in Nat
    BY <1>0, <2>4 DEF TypeOK, Next1
  <2>6. FilesKept
    BY <1>0, <2>1, <2>4, NamesKept DEF FilesKept, TypeOK
  <2> HIDE DEF n
  <2>7. S \in Restorer
    BY <1>0, <2>5 DEF Restorer, RestorerPc
  <2>8. /\ restorer'[r].pc \in {"staged", "ready"} /\ restorer'[r].tmp = n
        /\ restorer'[r].log = R.log /\ restorer'[r].exists = R.exists
        /\ restorer'[r].pc = "staged" <=> R.exists
    BY <1>0, <2>1 DEF Restorer, TypeOK
  <2>9. /\ R.log # 0 => R.log \in 1..Len(file') /\ file'[R.log].mode = "log"
        /\ R.exists => at'["db"] # 0
    BY <1>0, <2>1, <2>4 DEF RestorerOK, Log, Grows, TypeOK
  <2>10. RestorerOK(r)'
    BY <2>3, <2>4, <2>5, <2>8, <2>9
    DEF RestorerOK, Staged, Log, GoodCopy, Whole
  <2> QED
    BY <1>0, <2>1, <2>6, <2>7, <2>10, RestorerStepKeeps
<1>4. CASE OpenTarget(r)
  <2> DEFINE S == [R EXCEPT !.pc = "opening", !.db = at["db"]]
  <2>1. /\ restorer' = [restorer EXCEPT ![r] = S] /\ R.pc = "staged"
        /\ UNCHANGED <<file, at, handle, commits, installs>>
    BY <1>0, <1>4 DEF TypeOK, OpenTarget
  <2>2. S \in Restorer
    BY <1>0 DEF Restorer, RestorerPc, TypeOK, Names
  <2>3. /\ restorer'[r].pc = "opening" /\ restorer'[r].log = R.log
        /\ restorer'[r].db = at["db"] /\ restorer'[r].tmp = R.tmp
        /\ restorer'[r].exists = R.exists
    BY <1>0, <2>1 DEF Restorer, TypeOK
  <2>4. R.exists /\ Database(at["db"]) /\ GoodCopy(R.tmp) /\ at["db"] # 0
    BY <1>0, <2>1 DEF RestorerOK, NamesOK, Staged
  <2>5. RestorerOK(r)'
    BY <1>0, <2>1, <2>3, <2>4 DEF RestorerOK, Log, Database, GoodCopy, Whole
  <2> QED
    BY <1>0, <2>1, <2>2, <2>5, SameFiles, RestorerStepKeeps
<1>5. CASE Lock(r)
  <2> DEFINE l == LogFor(R.db)  S == [R EXCEPT !.pc = "locked", !.log = l]
  <2>1. /\ restorer' = [restorer EXCEPT ![r] = S] /\ R.pc = "opening"
        /\ UNCHANGED <<handle, commits, installs>>
    BY <1>0, <1>5 DEF TypeOK, Lock
  <2>2. /\ FilesKept /\ l \in Nat
        /\ l # 0 => l \in 1..Len(file') /\ file'[l].mode = "log"
    BY <1>5, AttachKeeps DEF Lock, Log
  <2> HIDE DEF l
  <2>3. S \in Restorer
    BY <1>0, <2>2 DEF Restorer, RestorerPc
  <2>4. /\ restorer'[r].pc = "locked" /\ restorer'[r].log = l
        /\ restorer'[r].db = R.db /\ restorer'[r].tmp = R.tmp
        /\ restorer'[r].exists = R.exists
    BY <1>0, <2>1 DEF Restorer, TypeOK
  <2>5. R.exists /\ Database(R.db) /\ GoodCopy(R.tmp) /\ at'["db"] # 0
    BY <1>0, <2>1, <2>2 DEF RestorerOK, FilesKept, Staged
  <2>6. /\ R.db \in 1..Len(file') /\ file'[R.db].mode # "log"
        /\ R.tmp \in 2..Len(file') /\ file'[R.tmp].mode = "rollback"
        /\ file'[R.tmp].good
    <3>1. file \in Seq(File) /\ file' \in Seq(File) /\ Grows
      BY <1>0, <2>2, Zenon DEF FilesKept, TypeOK
    <3>2. Len(file) \in Nat /\ Len(file') \in Nat
      BY <3>1
    <3> QED
      BY <2>5, <3>1, <3>2, SMTT(30) DEF Database, GoodCopy, Whole, Grows
  <2>7. RestorerOK(r)'
    BY <2>2, <2>4, <2>5, <2>6 DEF RestorerOK, Log, Database, GoodCopy, Whole
  <2> QED
    BY <1>0, <2>1, <2>2, <2>3, <2>7, RestorerStepKeeps
<1>6. CASE LockBusy(r)
  <2> DEFINE pc == IF LastAttempt(r) THEN "failed" ELSE "staged"
             n == R.tries + 1  S == [R EXCEPT !.pc = pc, !.tries = n]
  <2>1. /\ restorer' = [restorer EXCEPT ![r] = S] /\ R.pc = "opening"
        /\ UNCHANGED <<file, at, handle, commits, installs>>
    BY <1>0, <1>6 DEF TypeOK, LockBusy
  <2>a. pc \in {"failed", "staged"} /\ n \in Nat
    BY <1>0 DEF Restorer
  <2> HIDE DEF pc, n
  <2>2. S \in Restorer
    BY <1>0, <2>a DEF Restorer, RestorerPc
  <2>3. /\ restorer'[r].pc \in {"failed", "staged"} /\ restorer'[r].log = R.log
        /\ restorer'[r].tmp = R.tmp /\ restorer'[r].exists = R.exists
    BY <1>0, <2>a, <2>1 DEF Restorer, TypeOK
  <2>4. R.exists /\ GoodCopy(R.tmp)
    BY <1>0, <2>1 DEF RestorerOK, Staged
  <2>5. RestorerOK(r)'
    BY <1>0, <2>1, <2>3, <2>4 DEF RestorerOK, Log, GoodCopy, Whole
  <2> QED
    BY <1>0, <2>1, <2>2, <2>5, SameFiles, RestorerStepKeeps
<1>7. CASE BackupCopy(r)
  <2> DEFINE n == Next1  S == [R EXCEPT !.pc = "copied", !.bak = n]
  <2>1. /\ restorer' = [restorer EXCEPT ![r] = S] /\ R.pc = "locked"
        /\ UNCHANGED <<at, handle, commits, installs>>
        /\ file' = Append(file, Copy(View(R.db, R.log)))
    BY <1>0, <1>7 DEF TypeOK, BackupCopy
  <2>2. /\ R.exists /\ Database(R.db) /\ (R.log = 0 \/ Log(R.log))
        /\ GoodCopy(R.tmp)
    BY <1>0, <2>1 DEF RestorerOK, Staged
  <2>3. /\ FilesKept /\ n \in Nat /\ n \in 2..Len(file')
        /\ file'[n].mode = "rollback" /\ file'[n].good
    BY <2>1, <2>2, ViewIsContent, CopyKeeps DEF RestoreInv, GoodCopy, Whole
  <2> HIDE DEF n
  <2>4. S \in Restorer
    BY <1>0, <2>3 DEF Restorer, RestorerPc
  <2>5. /\ restorer'[r].pc = "copied" /\ restorer'[r].log = R.log
        /\ restorer'[r].db = R.db /\ restorer'[r].tmp = R.tmp
        /\ restorer'[r].exists = R.exists /\ restorer'[r].bak = n
    BY <1>0, <2>1 DEF Restorer, TypeOK
  <2>6. at'["db"] # 0
    BY <1>0, <2>1, <2>2 DEF RestorerOK
  <2>7. RestorerOK(r)'
    BY <2>2, <2>3, <2>5, <2>6, SMTT(30)
    DEF RestorerOK, Log, Database, GoodCopy, Whole, FilesKept, Grows
  <2> QED
    BY <1>0, <2>1, <2>3, <2>4, <2>7, RestorerStepKeeps
<1>8. CASE BackupInstall(r)
  <2>1. /\ at' = [at EXCEPT ![R.to] = R.bak] /\ file' = file
        /\ R.pc = "copied" /\ R.to \in {"snapshot", "backup"}
    BY <1>0, <1>8 DEF BackupInstall, Restorer
  <2>2. GoodCopy(R.bak) /\ R.bak \in Nat /\ Database(R.db)
    BY <1>0, <2>1 DEF RestorerOK, Restorer
  <2>3. /\ at' \in [Names -> Nat]
        /\ at'["db"] = at["db"] /\ at'["log"] = at["log"]
        /\ at'["snapshot"] \in {at["snapshot"], R.bak}
    BY <1>0, <2>1, <2>2 DEF TypeOK, Names
  <2>4. FilesKept
    BY <1>0, <2>1, <2>2, <2>3, Unchanged
    DEF FilesKept, NamesOK, Database, Log, Whole, GoodCopy, TypeOK
  <2> QED
    BY <1>0, <1>8, <2>1, <2>2, <2>4, MovesOn
    DEF BackupInstall, Step, RestorerPc, Staged
<1>9. CASE SkipBackup(r)
  <2>1. FilesKept /\ Database(R.db)
    BY <1>0, <1>9, SameFiles DEF SkipBackup, RestorerOK
  <2> QED
    BY <1>0, <1>9, <2>1, MovesOn DEF SkipBackup, Step, RestorerPc, Staged
<1>10. CASE Install(r)
  <2>1. /\ at' = [at EXCEPT !["db"] = R.tmp] /\ file' = file /\ R.pc = "ready"
    BY <1>10 DEF Install
  <2>2. GoodCopy(R.tmp) /\ R.tmp \in Nat /\ R.tmp # 0
        /\ (R.exists => Database(R.db))
    BY <1>0, <2>1 DEF RestorerOK, Restorer, Staged, GoodCopy, Whole
  <2>3. /\ at' \in [Names -> Nat] /\ at'["db"] = R.tmp
        /\ at'["log"] = at["log"] /\ at'["snapshot"] = at["snapshot"]
    BY <1>0, <2>1, <2>2 DEF TypeOK, Names
  <2>4. FilesKept
    BY <1>0, <2>1, <2>2, <2>3, Unchanged
    DEF FilesKept, NamesOK, Database, Log, Whole, GoodCopy, TypeOK
  <2>5. installs' \in Nat
    BY <1>0, <1>10 DEF Install
  <2> QED
    BY <1>0, <1>10, <2>1, <2>2, <2>4, <2>5, MovesOn
    DEF Install, Step, RestorerPc, Staged
<1>11. CASE RemoveSidecars(r)
  <2>1. at' = [at EXCEPT !["log"] = 0] /\ file' = file
    BY <1>11 DEF RemoveSidecars
  <2>2. /\ at' \in [Names -> Nat] /\ at'["db"] = at["db"]
        /\ at'["log"] = 0 /\ at'["snapshot"] = at["snapshot"]
    BY <1>0, <2>1 DEF TypeOK, Names
  <2>3. FilesKept
    BY <1>0, <2>1, <2>2, Unchanged
    DEF FilesKept, NamesOK, Database, Whole, TypeOK
  <2> QED
    BY <1>0, <1>11, <2>3, MovesOn DEF RemoveSidecars, Step, RestorerPc, Staged
<1>12. CASE Fail(r) \/ RestorerCrash(r)
  <2>1. FilesKept
    <3>1. CASE UNCHANGED <<file, at>>
      BY <3>1, SameFiles
    <3>2. CASE R.exists /\ R.pc \in Holding /\ Detach(R.db, R.log, TRUE)
      BY <1>0, <3>2, DetachKeeps DEF RestorerOK, Holding
    <3> QED
      BY <1>12, <3>1, <3>2 DEF Fail, RestorerCrash
  <2>2. Step(r, "failed") /\ UNCHANGED <<handle, commits, installs>>
    BY <1>12 DEF Fail, RestorerCrash
  <2> QED
    BY <1>0, <2>1, <2>2, MovesOn DEF Step, RestorerPc, Staged
<1> QED
  BY <1>1, <1>2, <1>3, <1>4, <1>5, <1>6, <1>7, <1>8, <1>9, <1>10, <1>11,
     <1>12 DEF Works

\* Only bdd.Init and a restore that found none do anything where no database
\* is, and both bring one there or leave nothing behind.
LEMMA UntouchedKept ==
  ASSUME RestoreInv, Next
  PROVE  Untouched'
<1>0. /\ handle \in [Handles -> Handle] /\ restorer \in [Restorers -> Restorer]
      /\ at \in [Names -> Nat] /\ TypeOK
  BY DEF RestoreInv, TypeOK
<1>1. ASSUME at["db"] # 0 PROVE at'["db"] # 0
  <2>1. ASSUME NEW r \in Restorers, Install(r) PROVE at'["db"] # 0
    <3>1. restorer[r].tmp # 0
      BY <2>1 DEF Install, RestoreInv, References, RestorerOK, Staged, GoodCopy, Whole
    <3> QED
      BY <1>0, <2>1, <3>1 DEF Install, Names
  <2>2. ASSUME NEW r \in Restorers, BackupInstall(r) PROVE at'["db"] # 0
    <3>1. restorer[r].to \in {"snapshot", "backup"}
      BY <1>0 DEF Restorer
    <3> QED
      BY <1>0, <1>1, <2>2, <3>1 DEF BackupInstall, Names
  <2>3. ASSUME NEW d, AttachLog(d) PROVE at'["db"] # 0
    BY <1>0, <1>1, <2>3 DEF AttachLog, Names
  <2>4. ASSUME NEW d, NEW l, NEW last, Detach(d, l, last) PROVE at'["db"] # 0
    BY <1>0, <1>1, <2>4 DEF Detach, Names
  <2>5. ASSUME NEW h \in Handles, HandleStep(h) PROVE at'["db"] # 0
    BY <1>0, <1>1, <2>3, <2>4, <2>5
    DEF HandleStep, Create, Open, Attach, OpenBusy, Commit, SnapshotCopy,
        SnapshotInstall, Close, Crash, Names
  <2>6. ASSUME NEW r \in Restorers, RemoveSidecars(r) PROVE at'["db"] # 0
    BY <1>0, <1>1, <2>6 DEF RemoveSidecars, Names
  <2> QED
    BY <1>1, <2>1, <2>2, <2>3, <2>4, <2>5, <2>6
    DEF Next, Works, Validate, StatTarget, Stage, OpenTarget, Lock, LockBusy,
        BackupCopy, SkipBackup, Fail, RestorerCrash
<1>2. ASSUME at["db"] = 0, NEW h \in Handles, HandleStep(h) PROVE at'["db"] # 0
  <2>1. handle[h].pc = "out"
    BY <1>2 DEF RestoreInv, Untouched
  <2>2. Create(h)
    BY <1>2, <2>1
    DEF HandleStep, Open, Attach, OpenBusy, Commit, SnapshotCopy, SnapshotInstall,
        Close, Crash
  <2> QED
    BY <1>0, <2>2 DEF Create, Names
<1>3. ASSUME at["db"] = 0, at'["db"] = 0, NEW r \in Restorers,
             Works(r) \/ Fail(r) \/ RestorerCrash(r)
      PROVE  Untouched'
  <2>1. /\ \A s \in Restorers : ~restorer[s].exists /\ restorer[s].pc # "installed"
        /\ at["log"] = 0 /\ file[1].page = Blank
        /\ \A h \in Handles : handle[h].pc = "out"
    BY <1>3 DEF RestoreInv, Untouched
  <2>2. restorer[r].pc \notin {"staged", "opening", "locked", "copied", "installed"}
    BY <2>1 DEF RestoreInv, References, RestorerOK
  <2>3. ~Install(r)
    <3>1. restorer[r].pc = "ready" => restorer[r].tmp # 0
      BY DEF RestoreInv, References, RestorerOK, Staged, GoodCopy, Whole
    <3> QED
      BY <1>0, <1>3, <3>1 DEF Install, Names
  <2>4. /\ UNCHANGED <<at, handle>>
        /\ \/ UNCHANGED file
           \/ Stage(r)
    BY <1>3, <2>1, <2>2, <2>3
    DEF Works, Validate, StatTarget, Stage, OpenTarget, Lock, LockBusy, BackupCopy,
        BackupInstall, SkipBackup, RemoveSidecars, Fail, RestorerCrash
  <2>5. file'[1].page = Blank
    <3>1. CASE Stage(r)
      <4>1. file' = Append(file, [file[at["snapshot"]] EXCEPT !.mode = "rollback"])
        BY <3>1 DEF Stage
      <4>2. file'[1] = file[1]
        BY <1>0, <4>1 DEF TypeOK
      <4> QED
        BY <2>1, <4>2
    <3> QED
      BY <2>1, <2>4, <3>1
  <2>6. \A s \in Restorers :
          ~restorer'[s].exists /\ restorer'[s].pc # "installed"
    <3>0. CASE Step(r, "failed")
      BY <1>0, <2>1, <3>0 DEF Step, Restorer
    <3>1. CASE Validate(r)
      <4>2. ASSUME NEW skip \in BOOLEAN, NEW to \in BackupNames,
                   restorer' = [restorer EXCEPT ![r].pc = "validated",
                                                ![r].skip = skip, ![r].to = to]
            PROVE  \A s \in Restorers :
                     ~restorer'[s].exists /\ restorer'[s].pc # "installed"
        BY <1>0, <2>1, <4>2 DEF Restorer
      <4> QED
        BY <3>0, <3>1, <4>2 DEF Validate
    <3>2. CASE StatTarget(r)
      BY <1>0, <1>3, <2>1, <3>2 DEF StatTarget, Restorer
    <3>3. CASE Stage(r)
      BY <1>0, <2>1, <3>3 DEF Stage, Restorer
    <3>4. CASE Fail(r) \/ RestorerCrash(r)
      BY <3>0, <3>4 DEF Fail, RestorerCrash
    <3> QED
      BY <1>3, <2>2, <2>3, <3>1, <3>2, <3>3, <3>4
      DEF Works, OpenTarget, Lock, LockBusy, BackupCopy, BackupInstall, SkipBackup,
          RemoveSidecars
  <2> QED
    BY <2>1, <2>4, <2>5, <2>6 DEF Untouched
<1> QED
  BY <1>1, <1>2, <1>3 DEF Next, Untouched

LEMMA RestoreStep == RestoreInv /\ [Next]_vars => RestoreInv'
<1> SUFFICES ASSUME RestoreInv, [Next]_vars PROVE RestoreInv'
  OBVIOUS
<1>1. CASE UNCHANGED vars
  BY <1>1 DEF vars, RestoreInv, TypeOK, References, NamesOK, FirstOK, HandleOK,
              RestorerOK, Database, Log, Whole, GoodCopy, Untouched
<1>2. CASE Next
  BY <1>2, HandlesKeep, RestorersKeep, UntouchedKept DEF Next, RestoreInv, KindsOK
<1> QED
  BY <1>1, <1>2

(* Names, handles and restores always refer to files of the right kind, and *)
(* what a restore has checked or copied is good.                            *)
THEOREM RestoreInvariant == Spec => []RestoreInv
  BY InitInv, RestoreStep, PTL DEF Spec

(* Only files that were checked are ever installed, whatever is renamed     *)
(* over the snapshot's path after the check, for any number of restores.    *)
THEOREM GoodInstalled == Spec => []OnlyGoodInstalled
<1>1. RestoreInv => OnlyGoodInstalled
  BY DEF RestoreInv, References, NamesOK, OnlyGoodInstalled
<1> QED
  BY <1>1, RestoreInvariant, PTL

-----------------------------------------------------------------------------
(* The log.  What follows holds where no process dies that has a database  *)
(* in WAL mode open, where none opens one before a rename and reads it     *)
(* after, and where bdd.Init makes none that a restore has not seen: the   *)
(* log of a database would outlive it otherwise, and be taken for that of  *)
(* the file restored over it.                                              *)

NoStrayLog == "wal" \notin CrashModes \cup StraddleModes \cup OvertakeModes

\* Restorers that hold the lock on a database they are about to replace.
Holds(r) == restorer[r].exists /\ restorer[r].pc \in {"locked", "copied", "ready"}

\* Only the first file can be in WAL mode; once the name is bound to another
\* it is never bound to it again.
OnlyFirstHasLog ==
  /\ \A i \in 2..Len(file) : file[i].mode # "wal"
  /\ \A h \in Handles :
       handle[h].pc # "out" /\ handle[h].db # 1 => at["db"] # 1
  /\ \A r \in Restorers :
       /\ /\ restorer[r].exists
          /\ restorer[r].pc \in {"opening", "locked", "copied", "ready"}
          /\ restorer[r].db # 1
          => at["db"] # 1
       /\ FoundNone(r) => at["db"] # 1 \/ file[1].mode # "wal"
       /\ restorer[r].pc = "installed" => at["db"] # 1

\* A connection uses a log only of the database that has the name, and the
\* log that has the log's name.
UsesTheLog ==
  \A h \in Handles :
    /\ handle[h].log # 0 =>
         /\ handle[h].db = 1 /\ file[1].mode = "wal" /\ at["db"] = 1
         /\ at["log"] = handle[h].log
    /\ handle[h].pc \in {"open", "copied"} /\ file[handle[h].db].mode = "wal" =>
         handle[h].log # 0

\* The lock on a database with a log is held by one restorer, and no handle
\* is attached.
LockExcludes ==
  \A r \in Restorers :
    /\ restorer[r].exists /\ restorer[r].pc \in Holding =>
         (restorer[r].log # 0 <=> file[restorer[r].db].mode = "wal")
    /\ Holds(r) /\ file[restorer[r].db].mode = "wal" =>
         /\ at["db"] = 1 /\ at["log"] = restorer[r].log
         /\ \A h \in Handles : handle[h].log = 0
         /\ \A s \in Restorers : Holds(s) /\ restorer[s].db = 1 => s = r

\* What is in the log somebody is attached to.
LogInUse ==
  at["log"] # 0 /\ DOMAIN file[at["log"]].page # {} =>
    \E h \in Handles : handle[h].log # 0

\* Whatever can come under the name was readable before.
Unseen(i) ==
  /\ i = 1 /\ at["db"] # 1
  /\ \A h \in Handles : handle[h].db # 1
  /\ \A r \in Restorers : restorer[r].db # 1

AllSeen ==
  /\ Readable \in past
  /\ \A i \in 1..Len(file) :
       file[i].mode = "rollback" => file[i].page \in past \/ Unseen(i)

LogInv == OnlyFirstHasLog /\ UsesTheLog /\ LockExcludes /\ LogInUse

LEMMA LogInvInit == Init => LogInv
<1> SUFFICES ASSUME Init PROVE LogInv
  OBVIOUS
<1>1. Len(file) = 2 /\ file[2].mode = "rollback"
  BY DEF Init
<1>2. at["log"] = 0
  BY DEF Init, Names
<1>3. \A h \in Handles : handle[h] = Closed
  BY DEF Init
<1>4. \A r \in Restorers : restorer[r] = Idle
  BY DEF Init
<1> QED
  BY <1>1, <1>2, <1>3, <1>4
  DEF LogInv, OnlyFirstHasLog, FoundNone, UsesTheLog, LockExcludes, LogInUse,
      Holds, Holding, Closed, Idle

\* A database that is not in WAL mode is read without a log, if it can be
\* the one of the name.
LEMMA NoLogAt ==
  ASSUME LogInv, NEW d, file[d].mode # "wal", d # 1 => at["db"] # 1
  PROVE  LogAt(d) = 0
  BY DEF LogInv, LogInUse, UsesTheLog, LogAt

\* No statement finds a log its connection did not attach.
LEMMA SameLog ==
  ASSUME RestoreInv, LogInv, NEW h \in Handles, handle[h].pc \in {"open", "copied"}
  PROVE  StatementLog(h) = handle[h].log
<1>1. handle[h].log = 0 =>
        /\ file[handle[h].db].mode # "wal"
        /\ handle[h].db # 1 => at["db"] # 1
  BY DEF LogInv, UsesTheLog, OnlyFirstHasLog
<1> QED
  BY <1>1, NoLogAt DEF StatementLog

\* What most steps leave alone.
LogKept ==
  /\ Len(file) \in Nat /\ Len(file') \in Nat /\ Len(file') >= Len(file)
  /\ \A i \in 1..Len(file) : file'[i].mode = file[i].mode
  /\ \A i \in 2..Len(file') : file'[i].mode # "wal"
  /\ at'["db"] = at["db"] /\ at'["log"] = at["log"]
  /\ at["log"] # 0 =>
       \/ DOMAIN file'[at["log"]].page = DOMAIN file[at["log"]].page
       \/ \E h \in Handles : handle[h].log # 0

LEMMA RestorerFrame ==
  ASSUME RestoreInv, LogInv, LogKept, UNCHANGED handle, NEW r \in Restorers,
         \A s \in Restorers \ {r} : restorer'[s] = restorer[s],
         NEW new, restorer'[r] = new,
         new.exists /\ new.pc \in {"opening", "locked", "copied", "ready"} =>
           /\ new.db # 1 => at["db"] # 1
           /\ new.db \in 1..Len(file),
         ~new.exists /\ new.pc \in {"statted", "ready"} =>
           at["db"] # 1 \/ file[1].mode # "wal",
         new.pc = "installed" => at["db"] # 1 /\ restorer[r].pc = "installed",
         new.exists /\ new.pc \in Holding =>
           /\ restorer[r].pc \in Holding /\ restorer[r].exists
           /\ restorer[r].pc \in {"locked", "copied", "ready"} \/ new.pc = "installed"
           /\ restorer[r].db = new.db /\ restorer[r].log = new.log
  PROVE  LogInv'
<1> USE DEF LogInv, LogKept
<1>1. \A h \in Handles : handle[h].pc # "out" => handle[h].db \in 1..Len(file)
  BY DEF RestoreInv, References, HandleOK, Database
<1>2. \A s \in Restorers :
        restorer[s].exists /\ restorer[s].pc \in {"opening", "locked", "copied",
                                                 "ready", "installed"} =>
          restorer[s].db \in 1..Len(file)
  BY DEF RestoreInv, References, RestorerOK, Database
<1>3. Len(file) >= 2
  BY DEF RestoreInv, TypeOK
<1>4. OnlyFirstHasLog'
  BY <1>3 DEF OnlyFirstHasLog, FoundNone
<1>5. UsesTheLog'
  BY <1>1, <1>3 DEF UsesTheLog
<1>6. LogInUse'
  BY DEF LogInUse
<1>7. LockExcludes'
  <2> SUFFICES ASSUME NEW s \in Restorers
               PROVE  /\ restorer'[s].exists /\ restorer'[s].pc \in Holding =>
                           (restorer'[s].log # 0 <=>
                              file'[restorer'[s].db].mode = "wal")
                      /\ Holds(s)' /\ file'[restorer'[s].db].mode = "wal" =>
                           /\ at'["db"] = 1 /\ at'["log"] = restorer'[s].log
                           /\ \A h \in Handles : handle'[h].log = 0
                           /\ \A t \in Restorers :
                                Holds(t)' /\ restorer'[t].db = 1 => t = s
    BY DEF LockExcludes
  <2>1. \A t \in Restorers : Holds(t)' =>
          /\ Holds(t) /\ restorer'[t].db = restorer[t].db
          /\ restorer'[t].log = restorer[t].log
    BY DEF Holds, Holding
  <2>2. restorer'[s].exists /\ restorer'[s].pc \in Holding =>
          /\ restorer[s].exists /\ restorer[s].pc \in Holding
          /\ restorer'[s].db = restorer[s].db
          /\ restorer'[s].log = restorer[s].log
          /\ restorer[s].db \in 1..Len(file)
    BY <1>2 DEF Holding
  <2>3. Holds(s)' => restorer'[s].exists /\ restorer'[s].pc \in Holding
    BY DEF Holds, Holding
  <2> QED
    BY <2>1, <2>2, <2>3 DEF LockExcludes
<1> QED
  BY <1>4, <1>5, <1>6, <1>7

LEMMA HandleFrame ==
  ASSUME RestoreInv, LogInv, LogKept, UNCHANGED restorer, NEW h \in Handles,
         \A g \in Handles \ {h} : handle'[g] = handle[g],
         NEW new, handle'[h] = new, new.log = handle[h].log,
         new.pc # "out" => /\ new.db # 1 => at["db"] # 1
                           /\ new.db \in 1..Len(file),
         new.log # 0 => new.db = 1,
         new.pc \in {"open", "copied"} =>
           /\ new.db = handle[h].db
           /\ handle[h].pc \in {"open", "copied"} \/ file[new.db].mode # "wal"
  PROVE  LogInv'
<1> USE DEF LogInv, LogKept
<1>1. \A g \in Handles : handle[g].pc # "out" => handle[g].db \in 1..Len(file)
  BY DEF RestoreInv, References, HandleOK, Database
<1>2. \A s \in Restorers :
        restorer[s].exists /\ restorer[s].pc \in {"opening", "locked", "copied",
                                                 "ready", "installed"} =>
          restorer[s].db \in 1..Len(file)
  BY DEF RestoreInv, References, RestorerOK, Database
<1>3. Len(file) >= 2
  BY DEF RestoreInv, TypeOK
<1>4. OnlyFirstHasLog'
  BY <1>3 DEF OnlyFirstHasLog, FoundNone
<1>5. UsesTheLog'
  BY <1>1, <1>3 DEF UsesTheLog
<1>6. LogInUse'
  BY DEF LogInUse
<1>7. LockExcludes'
  BY <1>2 DEF LockExcludes, Holds, Holding
<1> QED
  BY <1>4, <1>5, <1>6, <1>7

\* The log's name may be that of any file but the one that is changed or added.
LEMMA LogKeptByCopy ==
  ASSUME RestoreInv, LogInv, NEW new \in File, new.mode = "rollback",
         file' = Append(file, new),
         at'["db"] = at["db"], at'["log"] = at["log"]
  PROVE  LogKept
<1>1. /\ Len(file') = Len(file) + 1 /\ Len(file) \in Nat
      /\ \A i \in 1..Len(file) : file'[i] = file[i]
      /\ file'[Len(file) + 1] = new
  BY Added DEF RestoreInv, TypeOK, Next1
<1>2. at["log"] # 0 => at["log"] \in 1..Len(file)
  BY DEF RestoreInv, References, NamesOK, Log
<1> QED
  BY <1>1, <1>2 DEF LogKept, LogInv, OnlyFirstHasLog

LEMMA LogKeptBySame ==
  ASSUME RestoreInv, LogInv, UNCHANGED file,
         at'["db"] = at["db"], at'["log"] = at["log"]
  PROVE  LogKept
<1>1. Len(file) \in Nat
  BY DEF RestoreInv, TypeOK
<1> QED
  BY <1>1 DEF LogKept, LogInv, OnlyFirstHasLog

LEMMA HandlesKeepLog ==
  ASSUME NoStrayLog, RestoreInv, LogInv, NEW h \in Handles, HandleStep(h)
  PROVE  LogInv'
<1> DEFINE H == handle[h]  d == H.db
<1>0. /\ H \in Handle /\ HandleOK(h) /\ NamesOK /\ TypeOK
      /\ handle \in [Handles -> Handle] /\ at \in [Names -> Nat]
  BY DEF RestoreInv, TypeOK, References
<1>b. 1 \in 1..Len(file)
  BY DEF RestoreInv, References, FirstOK, Database
<1>1. CASE Open(h)
  <2>1. LogKept
    BY <1>1, LogKeptBySame DEF Open
  <2>2. /\ UNCHANGED restorer
        /\ handle' = [handle EXCEPT ![h] = [H EXCEPT !.pc = "opening",
                                                     !.db = at["db"]]]
        /\ H.log = 0 /\ Database(at["db"])
    BY <1>0, <1>1 DEF Open, HandleOK, NamesOK
  <2>3. /\ \A g \in Handles \ {h} : handle'[g] = handle[g]
        /\ handle'[h].pc = "opening" /\ handle'[h].db = at["db"]
        /\ handle'[h].log = H.log
    BY <1>0, <2>2 DEF Handle
  <2> QED
    BY <2>1, <2>2, <2>3, HandleFrame DEF Database
<1>2. ASSUME LogKept, UNCHANGED restorer, handle' = [handle EXCEPT ![h] = Closed],
             H.log = 0
      PROVE  LogInv'
  <2>1. /\ \A g \in Handles \ {h} : handle'[g] = handle[g]
        /\ handle'[h].pc = "out" /\ handle'[h].log = 0
    BY <1>0, <1>2 DEF Closed
  <2> QED
    BY <1>2, <2>1, HandleFrame
<1>3. CASE OpenBusy(h)
  <2>1. H.log = 0
    BY <1>0, <1>3 DEF OpenBusy, HandleOK
  <2> QED
    BY <1>2, <1>3, <2>1, LogKeptBySame DEF OpenBusy
<1>4. CASE Crash(h)
  <2>1. H.log = 0
    BY <1>4 DEF Crash, NoStrayLog, LogInv, UsesTheLog
  <2> QED
    BY <1>2, <1>4, <2>1, LogKeptBySame DEF Crash
<1>5. CASE Close(h)
  <2>1. /\ UNCHANGED restorer /\ handle' = [handle EXCEPT ![h] = Closed]
        /\ Detach(d, H.log, Attached(d) = {h}) /\ H.pc = "open"
    BY <1>5 DEF Close
  <2>2. CASE H.log = 0
    BY <1>2, <2>1, <2>2, LogKeptBySame DEF Detach
  <2>3. ASSUME H.log # 0 PROVE LogInv'
    <3>1. d = 1 /\ file[1].mode = "wal" /\ at["db"] = 1 /\ at["log"] = H.log
      BY <2>3 DEF LogInv, UsesTheLog
    <3>2. /\ \A g \in Handles \ {h} : handle'[g] = handle[g]
          /\ handle'[h].pc = "out" /\ handle'[h].log = 0
      BY <1>0, <2>1 DEF Closed
    <3>3. CASE \E g \in Handles \ {h} : handle[g].log # 0
      <4>1. PICK g \in Handles \ {h} : handle[g].log # 0
        BY <3>3
      <4>2. g \in Attached(d)
        BY <3>1, <4>1 DEF Attached, LogInv, UsesTheLog
      <4>3. UNCHANGED <<file, at>>
        BY <2>1, <4>1, <4>2 DEF Detach
      <4> QED
        BY <2>1, <3>1, <3>2, <4>1, <4>3
        DEF LogInv, OnlyFirstHasLog, FoundNone, UsesTheLog, LockExcludes, LogInUse, Holds
    <3>4. CASE \A g \in Handles \ {h} : handle[g].log = 0
      <4>1. Attached(d) = {h}
        BY <2>3, <3>4 DEF Attached
      <4>2. /\ file' = [file EXCEPT ![d].page = View(d, H.log)]
            /\ at' = [at EXCEPT !["log"] = 0]
        BY <2>1, <2>3, <3>1, <4>1 DEF Detach
      <4>3. Database(d) /\ Log(H.log)
        BY <1>0, <2>1, <2>3 DEF HandleOK
      <4>4. /\ Len(file') = Len(file) /\ Len(file) \in Nat
            /\ \A i \in 1..Len(file) : file'[i].mode = file[i].mode
        BY <1>0, <4>2, <4>3, DatabaseChanged, ViewIsContent
        DEF TypeOK, Grows
      <4>5. at'["db"] = 1 /\ at'["log"] = 0
        BY <1>0, <3>1, <4>2 DEF Names
      <4>6. /\ \A g \in Handles : handle'[g].log = 0
            /\ \A r \in Restorers : ~(Holds(r) /\ file[restorer[r].db].mode = "wal")
        BY <2>3, <3>2, <3>4 DEF LogInv, LockExcludes
      <4>7. \A r \in Restorers :
              restorer[r].exists /\ restorer[r].pc \in Holding =>
                restorer[r].db \in 1..Len(file)
        BY DEF RestoreInv, References, RestorerOK, Database, Holding
      <4>8. \A g \in Handles : handle[g].pc # "out" => handle[g].db \in 1..Len(file)
        BY DEF RestoreInv, References, HandleOK, Database
      <4>9. OnlyFirstHasLog' /\ LogInUse'
        BY <1>b, <2>1, <3>1, <3>2, <4>4, <4>5
        DEF LogInv, OnlyFirstHasLog, FoundNone, LogInUse
      <4>10. UsesTheLog'
        BY <3>2, <3>4, <4>4, <4>6, <4>8 DEF LogInv, UsesTheLog
      <4>11. LockExcludes'
        BY <2>1, <4>4, <4>6, <4>7 DEF LogInv, LockExcludes, Holds, Holding
      <4> QED
        BY <4>9, <4>10, <4>11 DEF LogInv
    <3> QED
      BY <3>3, <3>4
  <2> QED
    BY <2>2, <2>3
<1>6. CASE Attach(h)
  <2> DEFINE l == LogFor(d)
  <2>1. /\ H.pc = "opening" /\ ~ReadersLockedOut(d)
        /\ file[d].mode \in StraddleModes \/ at["db"] = d
        /\ handle' = [handle EXCEPT ![h] = [H EXCEPT !.pc = "open", !.log = l]]
        /\ AttachLog(d) /\ UNCHANGED restorer /\ H.log = 0
    BY <1>0, <1>6 DEF Attach, HandleOK
  <2>2. /\ \A g \in Handles \ {h} : handle'[g] = handle[g]
        /\ handle'[h].pc = "open" /\ handle'[h].log = l /\ handle'[h].db = d
    BY <1>0, <2>1 DEF Handle
  <2>3. d \in 1..Len(file) /\ (d # 1 => at["db"] # 1)
    BY <1>0, <2>1 DEF HandleOK, Database, LogInv, OnlyFirstHasLog
  <2>4. CASE file[d].mode # "wal"
    <3>1. l = 0 /\ UNCHANGED <<file, at>>
      BY <2>1, <2>3, <2>4, NoLogAt DEF LogFor, MakesLog, AttachLog
    <3>2. LogKept
      BY <3>1, LogKeptBySame
    <3> QED
      BY <2>1, <2>2, <2>3, <2>4, <3>1, <3>2, HandleFrame
  <2>5. ASSUME file[d].mode = "wal" PROVE LogInv'
    <3>1. d = 1 /\ at["db"] = 1
      BY <2>1, <2>3, <2>5 DEF NoStrayLog, LogInv, OnlyFirstHasLog
    <3>2. \A r \in Restorers : ~(Holds(r) /\ file[restorer[r].db].mode = "wal")
      <4> SUFFICES ASSUME NEW r \in Restorers,
                          Holds(r), file[restorer[r].db].mode = "wal"
                   PROVE  FALSE
        OBVIOUS
      <4>1. restorer[r].db = 1 /\ restorer[r].log # 0
        BY DEF Holds, Holding, LogInv, LockExcludes, OnlyFirstHasLog,
               RestoreInv, References, RestorerOK, Database
      <4> QED
        BY <2>1, <3>1, <4>1
        DEF ReadersLockedOut, Lockers, Exclusive, Holds, Holding
    <3>3. /\ l # 0 /\ at'["db"] = 1 /\ at'["log"] = l
          /\ at["log"] # 0 => at'["log"] = at["log"]
      BY <1>0, <2>1, <2>5, <3>1
      DEF LogFor, LogAt, MakesLog, AttachLog, Next1, Names, TypeOK
    <3>4. /\ Len(file) \in Nat /\ Len(file') \in Nat /\ Len(file') >= Len(file)
          /\ \A i \in 1..Len(file) : file'[i].mode = file[i].mode
          /\ \A i \in 1..Len(file') \ 1..Len(file) : file'[i].mode # "wal"
      <4>1. CASE MakesLog(d)
        <5>1. file' = Append(file, EmptyLog) /\ TypeOK
          BY <1>0, <2>1, <4>1 DEF AttachLog
        <5>2. /\ Len(file') = Len(file) + 1 /\ file'[Len(file) + 1] = EmptyLog
              /\ \A i \in 1..Len(file) : file'[i] = file[i]
          BY <5>1, Added, EmptyLogIsFile DEF Next1
        <5> QED
          BY <1>0, <5>2, EmptyLogIsFile DEF TypeOK
      <4>2. CASE ~MakesLog(d)
        BY <1>0, <2>1, <4>2 DEF AttachLog, TypeOK
      <4> QED
        BY <4>1, <4>2
    <3>5. /\ \A g \in Handles : handle[g].pc # "out" => handle[g].db \in 1..Len(file)
          /\ \A r \in Restorers :
               restorer[r].exists /\ restorer[r].pc \in Holding =>
                 restorer[r].db \in 1..Len(file)
      BY DEF RestoreInv, References, HandleOK, RestorerOK, Database, Holding
    <3> HIDE DEF l
    <3>6. OnlyFirstHasLog'
      BY <1>b, <2>1, <2>2, <3>1, <3>3, <3>4
      DEF LogInv, OnlyFirstHasLog, FoundNone
    <3>7. UsesTheLog'
      BY <2>2, <2>3, <2>5, <3>1, <3>3, <3>4, <3>5 DEF LogInv, UsesTheLog
    <3>8. LogInUse'
      BY <2>2, <3>3 DEF LogInUse
    <3>9. LockExcludes'
      BY <2>1, <3>2, <3>4, <3>5 DEF LogInv, LockExcludes, Holds, Holding
    <3> QED
      BY <3>6, <3>7, <3>8, <3>9 DEF LogInv
  <2> QED
    BY <2>4, <2>5
\* A statement that leaves the connection on its database, with its log.
<1>7. ASSUME H.pc \in {"open", "copied"}, handle'[h].pc \in {"open", "copied"},
             handle'[h].db = d, handle'[h].log = H.log,
             \A g \in Handles \ {h} : handle'[g] = handle[g],
             UNCHANGED restorer, LogKept
      PROVE  LogInv'
  <2>1. d \in 1..Len(file) /\ (d # 1 => at["db"] # 1) /\ (H.log # 0 => d = 1)
    BY <1>0, <1>7 DEF HandleOK, Database, LogInv, OnlyFirstHasLog, UsesTheLog
  <2> QED
    BY <1>7, <2>1, HandleFrame
<1>8. ASSUME NEW p \in Pages, Commit(h, p) PROVE LogInv'
  <2> DEFINE l == StatementLog(h)
             rows == View(d, l)[p] \union {commits + 1}
             logged == [q \in DOMAIN file[l].page \union {p} |->
                          IF q = p THEN rows ELSE file[l].page[q]]
  <2>1. /\ H.pc = "open" /\ l = H.log /\ UNCHANGED <<at, restorer>>
        /\ handle' = [handle EXCEPT ![h] = [H EXCEPT !.log = l]]
        /\ file' = IF l # 0 THEN [file EXCEPT ![l].page = logged]
                             ELSE [file EXCEPT ![d].page[p] = rows]
    BY <1>0, <1>8, SameLog DEF Commit
  <2>2. /\ \A g \in Handles \ {h} : handle'[g] = handle[g]
        /\ handle'[h].pc = "open" /\ handle'[h].log = l /\ handle'[h].db = d
    BY <1>0, <2>1 DEF Handle
  <2>3. LogKept
    <3> HIDE DEF rows, logged, l
    <3>1. d \in 1..Len(file) /\ file[d].mode # "log" /\ file \in Seq(File)
      BY <1>0, <2>1 DEF HandleOK, Database, TypeOK
    <3>2. \A i \in 1..Len(file) : DOMAIN file[i] = {"page", "mode", "good"}
      <4> SUFFICES ASSUME NEW i \in 1..Len(file)
                   PROVE  DOMAIN file[i] = {"page", "mode", "good"}
        OBVIOUS
      <4>1. CASE file[i] \in DatabaseFile
        BY <4>1 DEF DatabaseFile
      <4>2. CASE file[i] \in LogFile
        BY <4>2 DEF LogFile
      <4> QED
        BY <3>1, <4>1, <4>2 DEF File
    <3>3. /\ Len(file') = Len(file) /\ Len(file) \in Nat
          /\ \A i \in 1..Len(file) : file'[i].mode = file[i].mode
      BY <2>1, <3>1, <3>2
    <3>4. at["log"] # 0 => at["log"] \in 1..Len(file) /\ file[at["log"]].mode = "log"
      BY <1>0 DEF NamesOK, Log
    <3>5. CASE l # 0
      BY <2>1, <3>3, <3>5 DEF LogKept, LogInv, OnlyFirstHasLog
    <3>6. CASE l = 0
      <4>1. at["log"] # 0 => file'[at["log"]] = file[at["log"]]
        BY <2>1, <3>1, <3>4, <3>6
      <4> QED
        BY <2>1, <3>3, <4>1 DEF LogKept, LogInv, OnlyFirstHasLog
    <3> QED
      BY <3>5, <3>6
  <2> QED
    BY <1>7, <2>1, <2>2, <2>3
<1>9. CASE SnapshotCopy(h)
  <2> DEFINE l == StatementLog(h)
  <2>1. /\ H.pc = "open" /\ l = H.log /\ UNCHANGED <<at, restorer>>
        /\ handle' = [handle EXCEPT ![h] = [H EXCEPT !.pc = "copied",
                                                     !.tmp = Next1, !.log = l]]
        /\ file' = Append(file, Copy(View(d, l)))
    BY <1>0, <1>9, SameLog DEF SnapshotCopy
  <2>2. /\ \A g \in Handles \ {h} : handle'[g] = handle[g]
        /\ handle'[h].pc = "copied" /\ handle'[h].log = l /\ handle'[h].db = d
    BY <1>0, <2>1 DEF Handle
  <2>3. LogKept
    <3>1. View(d, l) \in Content
      BY <1>0, <2>1, ViewIsContent DEF HandleOK
    <3> QED
      BY <2>1, <3>1, CopyIsFile, LogKeptByCopy
  <2> QED
    BY <1>7, <2>1, <2>2, <2>3
<1>10. CASE SnapshotInstall(h)
  <2>1. /\ H.pc = "copied" /\ UNCHANGED <<file, restorer>>
        /\ at' = [at EXCEPT !["snapshot"] = H.tmp]
        /\ handle' = [handle EXCEPT ![h] = [H EXCEPT !.pc = "open", !.tmp = 0]]
    BY <1>0, <1>10 DEF SnapshotInstall
  <2>2. /\ \A g \in Handles \ {h} : handle'[g] = handle[g]
        /\ handle'[h].pc = "open" /\ handle'[h].log = H.log /\ handle'[h].db = d
    BY <1>0, <2>1 DEF Handle
  <2>3. at'["db"] = at["db"] /\ at'["log"] = at["log"]
    BY <1>0, <2>1 DEF Names
  <2>4. LogKept
    BY <2>1, <2>3, LogKeptBySame
  <2> QED
    BY <1>7, <2>1, <2>2, <2>4
<1>11. CASE Create(h)
  <2> DEFINE l == LogFor(1)
  <2>1. /\ at["db"] = 0 /\ at["log"] = 0 /\ UNCHANGED restorer
        /\ \A g \in Handles : handle[g].pc = "out" /\ handle[g].log = 0
        /\ \A r \in Restorers : ~restorer[r].exists /\ restorer[r].pc # "installed"
        /\ file[1].mode = "wal" => \A r \in Restorers : ~FoundNone(r)
        /\ handle' = [handle EXCEPT ![h] = [H EXCEPT !.pc = "open", !.db = 1,
                                                     !.log = l]]
        /\ file' = IF MakesLog(1) THEN Append(file, EmptyLog) ELSE file
        /\ at' = [at EXCEPT !["db"] = 1, !["log"] = l]
    BY <1>0, <1>11
    DEF Create, RestoreInv, References, HandleOK, Untouched, NoStrayLog
  <2>2. /\ \A g \in Handles \ {h} : handle'[g] = handle[g]
        /\ handle'[h].pc = "open" /\ handle'[h].log = l /\ handle'[h].db = 1
    BY <1>0, <2>1 DEF Handle
  <2>3. at'["db"] = 1 /\ at'["log"] = l
    BY <1>0, <2>1 DEF Names
  <2>4. l # 0 <=> file[1].mode = "wal"
    BY <1>0, <2>1 DEF LogFor, LogAt, MakesLog, Next1, TypeOK
  <2>5. /\ \A i \in 2..Len(file') : file'[i].mode # "wal"
        /\ file'[1].mode = file[1].mode
        /\ l # 0 => DOMAIN file'[l].page = {}
    <3>1. CASE MakesLog(1)
      <4>1. file' = Append(file, EmptyLog) /\ l = Next1
        BY <2>1, <3>1 DEF LogFor
      <4>2. /\ Len(file') = Len(file) + 1 /\ file'[Next1] = EmptyLog
            /\ \A i \in 1..Len(file) : file'[i] = file[i]
        BY <1>0, <4>1, Added, EmptyLogIsFile
      <4> QED
        BY <1>0, <4>1, <4>2, EmptyLogIsFile
        DEF Next1, TypeOK, LogInv, OnlyFirstHasLog
    <3>2. CASE ~MakesLog(1)
      BY <2>1, <3>2 DEF LogFor, LogAt, LogInv, OnlyFirstHasLog
    <3> QED
      BY <3>1, <3>2
  <2> HIDE DEF l
  <2>6. OnlyFirstHasLog'
    BY <2>1, <2>2, <2>3, <2>5 DEF OnlyFirstHasLog, FoundNone
  <2>7. UsesTheLog'
    BY <2>1, <2>2, <2>3, <2>4, <2>5 DEF UsesTheLog
  <2>8. LogInUse' /\ LockExcludes'
    BY <2>1, <2>2, <2>3, <2>5 DEF LogInUse, LockExcludes, Holds
  <2> QED
    BY <2>6, <2>7, <2>8 DEF LogInv
<1> QED
  BY <1>1, <1>3, <1>4, <1>5, <1>6, <1>8, <1>9, <1>10, <1>11 DEF HandleStep

\* Nobody uses the log when a restorer is ready to install, and nobody else
\* holds the lock on a database with one.
LEMMA ReadyExcludes ==
  ASSUME RestoreInv, LogInv, NEW r \in Restorers, restorer[r].pc = "ready"
  PROVE  /\ \A h \in Handles : handle[h].log = 0
         /\ \A s \in Restorers \ {r} :
              ~(Holds(s) /\ file[restorer[s].db].mode = "wal")
<1> USE DEF LogInv
<1>1. CASE at["db"] # 1
  BY <1>1 DEF UsesTheLog, LockExcludes
<1>2. CASE at["db"] = 1 /\ file[1].mode # "wal"
  <2>1. \A s \in Restorers : Holds(s) => restorer[s].db \in 1..Len(file)
    BY DEF RestoreInv, References, RestorerOK, Database, Holds
  <2> QED
    BY <1>2, <2>1 DEF UsesTheLog, OnlyFirstHasLog
<1>3. CASE at["db"] = 1 /\ file[1].mode = "wal"
  <2>1. Holds(r) /\ restorer[r].db = 1
    BY <1>3 DEF OnlyFirstHasLog, FoundNone, Holds
  <2> QED
    BY <1>3, <2>1 DEF LockExcludes
<1> QED
  BY <1>1, <1>2, <1>3

LEMMA RestorersKeepLog ==
  ASSUME NoStrayLog, RestoreInv, LogInv, NEW r \in Restorers,
         Works(r) \/ Fail(r) \/ RestorerCrash(r)
  PROVE  LogInv'
<1> DEFINE R == restorer[r]  d == R.db
<1>0. /\ R \in Restorer /\ RestorerOK(r) /\ NamesOK /\ TypeOK
      /\ restorer \in [Restorers -> Restorer] /\ at \in [Names -> Nat]
  BY DEF RestoreInv, TypeOK, References
<1>b. 1 \in 1..Len(file)
  BY DEF RestoreInv, References, FirstOK, Database
<1>a. /\ R.exists /\ R.pc \in {"opening", "locked", "copied", "ready"} =>
           d \in 1..Len(file) /\ (d # 1 => at["db"] # 1)
      /\ ~R.exists /\ R.pc \in {"statted", "ready"} =>
           at["db"] # 1 \/ file[1].mode # "wal"
      /\ R.pc \in {"staged", "opening", "locked", "copied"} => R.exists
  BY <1>0 DEF RestorerOK, Database, LogInv, OnlyFirstHasLog, FoundNone
\* A step that moves the restorer on and leaves it its lock, or takes it.
<1>1. ASSUME LogKept, UNCHANGED handle,
             \A s \in Restorers \ {r} : restorer'[s] = restorer[s],
             restorer'[r].exists = R.exists, restorer'[r].log = R.log,
             restorer'[r].db = d,
             \/ restorer'[r].pc \in {"validated", "staged", "done", "failed"}
             \/ R.pc = "statted" /\ restorer'[r].pc = "ready" /\ ~R.exists
             \/ R.pc \in {"locked", "copied"}
                  /\ restorer'[r].pc \in {"copied", "ready"}
      PROVE  LogInv'
  BY <1>1, <1>a, RestorerFrame DEF Holding
<1>2. CASE Validate(r)
  <2>1. /\ UNCHANGED <<file, at, handle>>
        /\ \A s \in Restorers \ {r} : restorer'[s] = restorer[s]
        /\ restorer'[r].exists = R.exists /\ restorer'[r].log = R.log
        /\ restorer'[r].db = d /\ restorer'[r].pc \in {"validated", "failed"}
    <3>1. CASE Step(r, "failed")
      BY <1>0, <1>2, <3>1 DEF Validate, Step, Restorer
    <3>2. ASSUME NEW skip \in BOOLEAN, NEW to \in BackupNames,
                 restorer' = [restorer EXCEPT ![r].pc = "validated",
                                              ![r].skip = skip, ![r].to = to]
          PROVE  /\ \A s \in Restorers \ {r} : restorer'[s] = restorer[s]
                 /\ restorer'[r].exists = R.exists /\ restorer'[r].log = R.log
                 /\ restorer'[r].db = d /\ restorer'[r].pc = "validated"
      BY <1>0, <3>2 DEF Restorer
    <3> QED
      BY <1>2, <3>1, <3>2 DEF Validate
  <2> QED
    BY <1>1, <2>1, LogKeptBySame
<1>3. CASE StatTarget(r)
  <2>1. /\ UNCHANGED <<file, at, handle>>
        /\ \A s \in Restorers \ {r} : restorer'[s] = restorer[s]
        /\ ~restorer'[r].exists => at["db"] = 0
        /\ restorer'[r].pc = "statted"
    BY <1>0, <1>3 DEF StatTarget, Restorer
  <2>2. /\ LogKept /\ (~restorer'[r].exists => at["db"] # 1)
        /\ restorer'[r].pc \notin {"opening", "locked", "copied", "ready", "installed"}
        /\ restorer'[r].pc \notin Holding
    BY <2>1, LogKeptBySame DEF Holding
  <2> QED
    BY <2>1, <2>2, RestorerFrame
<1>4. CASE Stage(r)
  <2> DEFINE new == [file[at["snapshot"]] EXCEPT !.mode = "rollback"]
  <2>1. /\ R.pc = "statted" /\ UNCHANGED <<at, handle>> /\ file' = Append(file, new)
        /\ \A s \in Restorers \ {r} : restorer'[s] = restorer[s]
        /\ restorer'[r].exists = R.exists /\ restorer'[r].log = R.log
        /\ restorer'[r].db = d
        /\ restorer'[r].pc = IF R.exists THEN "staged" ELSE "ready"
    BY <1>0, <1>4 DEF Stage, Restorer
  <2>2. Whole(at["snapshot"])
    BY <1>0, <2>1 DEF RestorerOK, NamesOK
  <2>3. new \in File /\ new.mode = "rollback"
    BY <1>0, <2>2, FileFacts DEF Whole, DatabaseFile, File
  <2>4. LogKept
    BY <2>1, <2>3, LogKeptByCopy
  <2> QED
    BY <1>1, <2>1, <2>4
<1>5. CASE OpenTarget(r)
  <2>1. /\ UNCHANGED <<file, at, handle>> /\ R.pc = "staged"
        /\ \A s \in Restorers \ {r} : restorer'[s] = restorer[s]
        /\ restorer'[r].exists = R.exists /\ restorer'[r].pc = "opening"
        /\ restorer'[r].db = at["db"]
    BY <1>0, <1>5 DEF OpenTarget, Restorer
  <2>2. at["db"] \in 1..Len(file) /\ R.exists
    BY <1>0, <2>1 DEF RestorerOK, NamesOK, Database
  <2> QED
    BY <2>1, <2>2, LogKeptBySame, RestorerFrame DEF Holding
<1>6. CASE LockBusy(r)
  <2>1. /\ UNCHANGED <<file, at, handle>>
        /\ \A s \in Restorers \ {r} : restorer'[s] = restorer[s]
        /\ restorer'[r].exists = R.exists /\ restorer'[r].log = R.log
        /\ restorer'[r].db = d /\ restorer'[r].pc \in {"staged", "failed"}
    BY <1>0, <1>6 DEF LockBusy, Restorer
  <2> QED
    BY <1>1, <2>1, LogKeptBySame
<1>7. CASE BackupCopy(r)
  <2>1. /\ UNCHANGED <<at, handle>> /\ R.pc = "locked"
        /\ file' = Append(file, Copy(View(d, R.log)))
        /\ \A s \in Restorers \ {r} : restorer'[s] = restorer[s]
        /\ restorer'[r].exists = R.exists /\ restorer'[r].log = R.log
        /\ restorer'[r].db = d /\ restorer'[r].pc = "copied"
    BY <1>0, <1>7 DEF BackupCopy, Restorer
  <2>2. View(d, R.log) \in Content
    BY <1>0, <2>1, ViewIsContent DEF RestorerOK
  <2>3. LogKept
    BY <2>1, <2>2, CopyIsFile, LogKeptByCopy
  <2> QED
    BY <1>1, <2>1, <2>3
<1>8. CASE BackupInstall(r) \/ SkipBackup(r)
  <2>1. /\ UNCHANGED <<file, handle>> /\ R.pc \in {"locked", "copied"}
        /\ \A s \in Restorers \ {r} : restorer'[s] = restorer[s]
        /\ restorer'[r].exists = R.exists /\ restorer'[r].log = R.log
        /\ restorer'[r].db = d /\ restorer'[r].pc = "ready"
    BY <1>0, <1>8 DEF BackupInstall, SkipBackup, Step, Restorer
  <2>2. at'["db"] = at["db"] /\ at'["log"] = at["log"]
    BY <1>0, <1>8 DEF BackupInstall, SkipBackup, Restorer, Names
  <2> QED
    BY <1>1, <2>1, <2>2, LogKeptBySame
<1>9. CASE Lock(r)
  <2> DEFINE l == LogFor(d)
  <2>1. /\ R.pc = "opening" /\ Unlocked(d) /\ UNCHANGED handle
        /\ file[d].mode \in StraddleModes \/ at["db"] = d
        /\ \A s \in Restorers \ {r} : restorer'[s] = restorer[s]
        /\ restorer'[r].exists = R.exists /\ restorer'[r].log = l
        /\ restorer'[r].db = d /\ restorer'[r].pc = "locked"
        /\ AttachLog(d)
    BY <1>0, <1>9 DEF Lock, Restorer
  <2>2. R.exists /\ d \in 1..Len(file) /\ (d # 1 => at["db"] # 1)
    BY <1>a, <2>1
  <2>3. /\ \A h \in Handles : handle[h].pc # "out" => handle[h].db \in 1..Len(file)
        /\ \A s \in Restorers :
             restorer[s].exists /\ restorer[s].pc \in Holding =>
               restorer[s].db \in 1..Len(file)
    BY DEF RestoreInv, References, HandleOK, RestorerOK, Database, Holding
  <2>4. ASSUME file[d].mode # "wal" PROVE LogInv'
    <3>1. l = 0 /\ UNCHANGED <<file, at>>
      BY <2>1, <2>2, <2>4, NoLogAt DEF LogFor, MakesLog, AttachLog
    <3> HIDE DEF l
    <3>2. OnlyFirstHasLog' /\ UsesTheLog' /\ LogInUse'
      BY <2>1, <2>2, <3>1
      DEF LogInv, OnlyFirstHasLog, FoundNone, UsesTheLog, LogInUse
    <3>3. LockExcludes'
      BY <2>1, <2>2, <2>3, <2>4, <3>1
      DEF LogInv, LockExcludes, Holds, Holding, OnlyFirstHasLog
    <3> QED
      BY <3>2, <3>3 DEF LogInv
  <2>5. ASSUME file[d].mode = "wal" PROVE LogInv'
    <3>1. d = 1 /\ at["db"] = 1
      BY <2>1, <2>2, <2>5 DEF NoStrayLog, LogInv, OnlyFirstHasLog
    <3>2. /\ l # 0 /\ at'["db"] = 1 /\ at'["log"] = l
      BY <1>0, <2>1, <2>5, <3>1
      DEF LogFor, LogAt, MakesLog, AttachLog, Next1, Names, TypeOK
    <3>3. Attached(1) = {} /\ Lockers(1) = {}
      BY <2>1, <3>1, <3>2 DEF Unlocked
    <3>4. \A h \in Handles : handle[h].log = 0
      BY <3>3 DEF Attached, LogInv, UsesTheLog
    <3>5. \A s \in Restorers : ~(Holds(s) /\ restorer[s].db = 1)
      BY <3>3 DEF Lockers, Holds, Holding
    <3>6. /\ Len(file) \in Nat /\ Len(file') \in Nat /\ Len(file') >= Len(file)
          /\ \A i \in 1..Len(file) : file'[i] = file[i]
          /\ \A i \in 1..Len(file') \ 1..Len(file) :
               file'[i].mode # "wal" /\ DOMAIN file'[i].page = {}
          /\ l \in 1..Len(file')
          /\ l \in 1..Len(file) => at["log"] = l
      <4>1. CASE MakesLog(d)
        <5>1. file' = Append(file, EmptyLog) /\ TypeOK /\ l = Len(file) + 1
          BY <1>0, <2>1, <4>1 DEF AttachLog, LogFor, Next1
        <5>2. /\ Len(file') = Len(file) + 1 /\ file'[Len(file) + 1] = EmptyLog
              /\ \A i \in 1..Len(file) : file'[i] = file[i]
          BY <5>1, Added, EmptyLogIsFile DEF Next1
        <5> QED
          BY <1>0, <5>1, <5>2, EmptyLogIsFile DEF TypeOK
      <4>2. CASE ~MakesLog(d)
        BY <1>0, <2>1, <3>2, <4>2
        DEF AttachLog, LogFor, LogAt, NamesOK, Log, TypeOK
      <4> QED
        BY <4>1, <4>2
    <3> HIDE DEF l
    <3>8. OnlyFirstHasLog'
      BY <1>b, <2>1, <3>1, <3>2, <3>6
      DEF LogInv, OnlyFirstHasLog, FoundNone
    <3>9. UsesTheLog'
      BY <2>1, <2>3, <3>4, <3>6 DEF LogInv, UsesTheLog
    <3>10. LogInUse'
      <4>1. CASE l \in 1..Len(file)
        BY <2>1, <3>2, <3>6, <4>1 DEF LogInv, LogInUse
      <4>2. CASE l \notin 1..Len(file)
        BY <3>2, <3>6, <4>2 DEF LogInUse
      <4> QED
        BY <4>1, <4>2
    <3>11. LockExcludes'
      <4>1. \A s \in Restorers : ~(Holds(s) /\ file[restorer[s].db].mode = "wal")
        BY <2>3, <3>5 DEF LogInv, OnlyFirstHasLog, Holds, Holding
      <4>2. \A s \in Restorers \ {r} : Holds(s)' <=> Holds(s)
        BY <2>1 DEF Holds
      <4>3. ASSUME NEW s \in Restorers \ {r}
            PROVE  /\ restorer'[s].exists /\ restorer'[s].pc \in Holding =>
                        (restorer'[s].log # 0 <=>
                           file'[restorer'[s].db].mode = "wal")
                   /\ ~(Holds(s)' /\ file'[restorer'[s].db].mode = "wal")
        BY <2>1, <2>3, <3>6, <4>1, <4>2 DEF LogInv, LockExcludes, Holds, Holding
      <4>4. /\ restorer'[r].log # 0 /\ file'[restorer'[r].db].mode = "wal"
            /\ at'["db"] = 1 /\ at'["log"] = restorer'[r].log
            /\ \A h \in Handles : handle'[h].log = 0
            /\ \A s \in Restorers : Holds(s)' /\ restorer'[s].db = 1 => s = r
        BY <2>1, <2>2, <2>5, <3>2, <3>4, <3>5, <3>6, <4>2
      <4> QED
        BY <4>3, <4>4 DEF LockExcludes
    <3> QED
      BY <3>8, <3>9, <3>10, <3>11 DEF LogInv
  <2> QED
    BY <2>4, <2>5
\* The name of the log goes, or the database gets another file: nobody is
\* attached.
<1>10. ASSUME UNCHANGED handle, Len(file') = Len(file),
              \A i \in 1..Len(file) : file'[i].mode = file[i].mode,
              \A h \in Handles : handle[h].log = 0,
              \A s \in Restorers \ {r} :
                /\ restorer'[s] = restorer[s]
                /\ ~(Holds(s) /\ file[restorer[s].db].mode = "wal"),
              \/ restorer'[r].pc = "installed" /\ at'["db"] # 1
                   /\ R.exists = restorer'[r].exists
                   /\ R.log = restorer'[r].log /\ R.db = restorer'[r].db
                   /\ R.pc = "ready"
              \/ restorer'[r].pc \in {"done", "failed"} /\ at'["db"] = at["db"],
              at'["log"] = 0 \/ (at'["log"] = at["log"] /\ UNCHANGED file)
       PROVE  LogInv'
  <2>1. /\ \A h \in Handles : handle[h].pc # "out" => handle[h].db \in 1..Len(file)
        /\ \A s \in Restorers :
             restorer[s].exists /\ restorer[s].pc \in Holding =>
               restorer[s].db \in 1..Len(file)
    BY DEF RestoreInv, References, HandleOK, RestorerOK, Database, Holding
  <2>2. Len(file) \in Nat
    BY <1>0 DEF TypeOK
  <2>3. OnlyFirstHasLog'
    BY <1>b, <1>10, <2>2 DEF LogInv, OnlyFirstHasLog, FoundNone
  <2>4. UsesTheLog'
    BY <1>10, <2>1 DEF LogInv, UsesTheLog
  <2>5. LogInUse'
    BY <1>10 DEF LogInv, LogInUse
  <2>6. LockExcludes'
    BY <1>10, <2>1 DEF LogInv, LockExcludes, Holds, Holding
  <2> QED
    BY <2>3, <2>4, <2>5, <2>6 DEF LogInv
<1>11. CASE Install(r)
  <2>1. /\ R.pc = "ready" /\ UNCHANGED <<file, handle>>
        /\ at' = [at EXCEPT !["db"] = R.tmp]
        /\ \A s \in Restorers \ {r} : restorer'[s] = restorer[s]
        /\ restorer'[r].exists = R.exists /\ restorer'[r].log = R.log
        /\ restorer'[r].db = d /\ restorer'[r].pc = "installed"
    BY <1>0, <1>11 DEF Install, Step, Restorer
  <2>2. at'["db"] # 1 /\ at'["log"] = at["log"]
    BY <1>0, <2>1 DEF RestorerOK, Staged, GoodCopy, Whole, Names
  <2> QED
    BY <1>10, <2>1, <2>2, ReadyExcludes
<1>12. CASE RemoveSidecars(r)
  <2>1. /\ R.pc = "installed" /\ UNCHANGED <<file, handle>>
        /\ at' = [at EXCEPT !["log"] = 0]
        /\ \A s \in Restorers \ {r} : restorer'[s] = restorer[s]
        /\ restorer'[r].pc = "done"
    BY <1>0, <1>12 DEF RemoveSidecars, Step, Restorer
  <2>2. at'["db"] = at["db"] /\ at'["log"] = 0 /\ at["db"] # 1
    BY <1>0, <2>1 DEF Names, LogInv, OnlyFirstHasLog
  <2>3. /\ \A h \in Handles : handle[h].log = 0
        /\ \A s \in Restorers : ~(Holds(s) /\ file[restorer[s].db].mode = "wal")
    BY <2>2 DEF LogInv, UsesTheLog, LockExcludes
  <2> QED
    BY <1>10, <2>1, <2>2, <2>3
<1>13. CASE Fail(r) \/ RestorerCrash(r)
  <2>1. /\ UNCHANGED handle /\ restorer'[r].pc = "failed"
        /\ \A s \in Restorers \ {r} : restorer'[s] = restorer[s]
        /\ restorer'[r].exists = R.exists /\ restorer'[r].log = R.log
        /\ restorer'[r].db = d
    BY <1>0, <1>13, ZenonT(40) DEF Fail, RestorerCrash, Step, Restorer
  <2>2. CASE UNCHANGED <<file, at>>
    BY <1>1, <2>1, <2>2, LogKeptBySame
  <2>3. ASSUME R.exists, R.pc \in Holding, R.log # 0, at["db"] = d,
               file' = [file EXCEPT ![d].page = View(d, R.log)],
               at' = [at EXCEPT !["log"] = 0]
        PROVE  LogInv'
    <3>1. Database(d) /\ Log(R.log)
      BY <1>0, <2>3 DEF RestorerOK, Holding
    <3>2. file[d].mode = "wal" /\ d = 1
      BY <2>3, <3>1 DEF LogInv, LockExcludes, OnlyFirstHasLog, Database
    <3>3. Holds(r)
      BY <2>3, <3>2 DEF Holds, Holding, LogInv, OnlyFirstHasLog
    <3>4. /\ \A h \in Handles : handle[h].log = 0
          /\ \A s \in Restorers : Holds(s) /\ restorer[s].db = 1 => s = r
      BY <3>2, <3>3 DEF LogInv, LockExcludes
    <3>5. \A s \in Restorers : Holds(s) => restorer[s].db \in 1..Len(file)
      BY DEF RestoreInv, References, RestorerOK, Database, Holds
    <3>6. \A s \in Restorers \ {r} : ~(Holds(s) /\ file[restorer[s].db].mode = "wal")
      BY <3>4, <3>5 DEF LogInv, OnlyFirstHasLog
    <3>7. /\ Len(file') = Len(file)
          /\ \A i \in 1..Len(file) : file'[i].mode = file[i].mode
      BY <1>0, <2>3, <3>1, DatabaseChanged, ViewIsContent DEF Grows
    <3>8. at'["db"] = at["db"] /\ at'["log"] = 0
      BY <1>0, <2>3 DEF Names
    <3> QED
      BY <1>10, <2>1, <3>4, <3>6, <3>7, <3>8
  <2> QED
    BY <1>13, <2>2, <2>3 DEF Fail, RestorerCrash, Detach
<1> QED
  BY <1>2, <1>3, <1>4, <1>5, <1>6, <1>7, <1>8, <1>9, <1>11, <1>12, <1>13
  DEF Works

LEMMA LogStep ==
  NoStrayLog /\ RestoreInv /\ LogInv /\ [Next]_vars => LogInv'
<1> SUFFICES ASSUME NoStrayLog, RestoreInv, LogInv, [Next]_vars PROVE LogInv'
  OBVIOUS
<1>1. CASE UNCHANGED vars
  BY <1>1 DEF vars, LogInv, OnlyFirstHasLog, FoundNone, UsesTheLog,
              LockExcludes, LogInUse, Holds
<1>2. CASE Next
  BY <1>2, HandlesKeepLog, RestorersKeepLog DEF Next
<1> QED
  BY <1>1, <1>2

(* A log is used with the database it was written for only, and a restore   *)
(* that holds its lock is alone with it.                                    *)
THEOREM LogInvariant == ASSUME NoStrayLog PROVE Spec => []LogInv
<1>1. RestoreInv /\ LogInv /\ [Next]_vars => LogInv'
  BY LogStep
<1> QED
  BY <1>1, LogInvInit, RestoreInvariant, PTL DEF Spec

(* No connection that uses the log has the database open when a restore     *)
(* that found it replaces it, whatever other restores are under way.        *)
THEOREM LogUsersStayOut == ASSUME NoStrayLog PROVE Spec => LogUsersExcluded
<1> DEFINE Out == \A r \in Restorers :
                   Replaces(r) => Attached(at["db"]) = {}
<1>1. RestoreInv /\ LogInv => Out
  BY ReadyExcludes DEF Replaces, Attached
<1> QED
  BY <1>1, LogInvariant, RestoreInvariant, PTL DEF LogUsersExcluded, Spec

-----------------------------------------------------------------------------
(* What the path reads.                                                    *)

\* The content of a database that is not in WAL mode, or has the name, is
\* what it is read as.
LEMMA RollbackView ==
  ASSUME RestoreInv, NEW d, Database(d)
  PROVE  View(d, 0) = file[d].page
<1>1. file[d].page \in Content
  BY FileFacts DEF RestoreInv, Database, DatabaseFile
<1> QED
  BY <1>1 DEF View, Content

LEMMA ReadsTheLog ==
  ASSUME at["db"] # 0, at["log"] # 0, file[at["db"]].mode = "wal"
  PROVE  Readable = View(at["db"], at["log"])
  BY DEF Readable, LogAt

LEMMA SameReadable ==
  ASSUME RestoreInv, at'["db"] = at["db"], at'["log"] = at["log"],
         at["db"] # 0 => file'[at["db"]] = file[at["db"]],
         at["log"] # 0 => file'[at["log"]] = file[at["log"]]
  PROVE  Readable' = Readable
<1>1. CASE at["db"] = 0
  BY <1>1 DEF Readable
<1>2. ASSUME at["db"] # 0 PROVE Readable' = Readable
  <2> DEFINE d == at["db"]  l == LogAt(d)
  <2>1. LogAt(at["db"])' = l /\ (l = 0 \/ l = at["log"])
    BY <1>2 DEF LogAt
  <2>2. Readable' = [p \in Pages |->
                       IF l # 0 /\ p \in DOMAIN file'[l].page
                       THEN file'[l].page[p] ELSE file'[d].page[p]]
    BY <1>2, <2>1 DEF Readable, View
  <2>3. l # 0 => file'[l] = file[l]
    BY <2>1
  <2> QED
    BY <1>2, <2>2, <2>3 DEF Readable, View
<1> QED
  BY <1>1, <1>2

\* Copying the log into the database, and the name of the log away from it,
\* changes nothing of what is read.
LEMMA DetachReads ==
  ASSUME RestoreInv, NEW d, Database(d), d = at["db"], d # 0,
         file[d].mode = "wal", NEW l, Log(l), l = at["log"], l # 0,
         file' = [file EXCEPT ![d].page = View(d, l)],
         at' = [at EXCEPT !["log"] = 0]
  PROVE  Readable' = Readable
<1>1. Readable = View(d, l)
  BY ReadsTheLog
<1>0. View(d, l) \in Content
  BY ViewIsContent DEF RestoreInv
<1>2. file'[d].page = View(d, l)
  <2> DEFINE page == View(d, l)
  <2>1. page \in Content /\ file' = [file EXCEPT ![d].page = page]
    BY <1>0
  <2> HIDE DEF page
  <2>2. file'[d].page = page
    BY <2>1, DatabaseChanged DEF RestoreInv
  <2> QED
    BY <2>2 DEF page
<1>3. at'["db"] = d /\ at'["log"] = 0
  BY DEF RestoreInv, TypeOK, Names
<1>4. Readable' = [p \in Pages |-> View(d, l)[p]]
  BY <1>2, <1>3 DEF Readable, View, LogAt
<1> QED
  BY <1>0, <1>1, <1>4 DEF Content

\* Nor does making a log.
LEMMA AttachReads ==
  ASSUME RestoreInv, NEW d, Database(d), file[d].mode = "wal" => at["db"] = d,
         AttachLog(d)
  PROVE  /\ Readable' = Readable
         /\ \A i \in 1..Len(file) : file'[i] = file[i]
         /\ \A i \in 1..Len(file') \ 1..Len(file) : file'[i].mode = "log"
<1>1. CASE ~MakesLog(d)
  BY <1>1, SameReadable DEF AttachLog
<1>2. ASSUME MakesLog(d)
      PROVE  /\ Readable' = Readable
             /\ \A i \in 1..Len(file) : file'[i] = file[i]
             /\ \A i \in 1..Len(file') \ 1..Len(file) : file'[i].mode = "log"
  <2> DEFINE n == Next1
  <2>1. /\ file' = Append(file, EmptyLog) /\ at' = [at EXCEPT !["log"] = n]
        /\ at["log"] = 0 /\ at["db"] = d /\ file[d].mode = "wal"
    BY <1>2 DEF AttachLog, MakesLog
  <2>2. /\ Len(file') = Len(file) + 1 /\ file'[n] = EmptyLog
        /\ \A i \in 1..Len(file) : file'[i] = file[i]
    BY <2>1, Added, EmptyLogIsFile DEF RestoreInv
  <2>3. at'["db"] = d /\ at'["log"] = n /\ n # 0 /\ d \in 1..Len(file)
        /\ n = Len(file) + 1 /\ Len(file) \in Nat
    BY <2>1 DEF RestoreInv, TypeOK, Names, Next1, Database
  <2> HIDE DEF n
  <2>4. Readable = [p \in Pages |-> file[d].page[p]]
    BY <2>1, <2>3 DEF Readable, View, LogAt
  <2>5. Readable' = [p \in Pages |-> file[d].page[p]]
    <3>1. file'[d] = file[d] /\ d # 0 /\ DOMAIN file'[n].page = {}
      BY <2>2, <2>3, EmptyLogIsFile
    <3>2. LogAt(at["db"])' = n
      BY <2>1, <2>3, <3>1 DEF LogAt
    <3> QED
      BY <2>3, <3>1, <3>2 DEF Readable, View
  <2> QED
    BY <2>2, <2>3, <2>4, <2>5, EmptyLogIsFile
<1> QED
  BY <1>1, <1>2

\* What bdd.Init makes reads as empty.
LEMMA CreateReads ==
  ASSUME RestoreInv, NEW h \in Handles, Create(h)
  PROVE  /\ DOMAIN Readable = {} /\ Readable' = Blank
         /\ \A i \in 1..Len(file) : file'[i] = file[i]
         /\ \A i \in 1..Len(file') \ 1..Len(file) : file'[i].mode = "log"
         /\ file[1].page = Blank
<1> DEFINE l == LogFor(1)
<1>1. /\ at["db"] = 0 /\ at["log"] = 0 /\ file[1].page = Blank
      /\ file' = IF MakesLog(1) THEN Append(file, EmptyLog) ELSE file
      /\ at' = [at EXCEPT !["db"] = 1, !["log"] = l]
      /\ TypeOK /\ 1 \in 1..Len(file)
  BY DEF Create, RestoreInv, References, FirstOK, Database, Untouched
<1>2. at'["db"] = 1 /\ at'["log"] = l
  BY <1>1 DEF TypeOK, Names
<1>3. /\ \A i \in 1..Len(file) : file'[i] = file[i]
      /\ \A i \in 1..Len(file') \ 1..Len(file) : file'[i].mode = "log"
      /\ l # 0 => DOMAIN file'[l].page = {}
  <2>1. CASE MakesLog(1)
    <3>1. file' = Append(file, EmptyLog) /\ l = Next1
      BY <1>1, <2>1 DEF LogFor
    <3>2. /\ Len(file') = Len(file) + 1 /\ file'[Next1] = EmptyLog
          /\ \A i \in 1..Len(file) : file'[i] = file[i]
      BY <1>1, <3>1, Added, EmptyLogIsFile
    <3> QED
      BY <1>1, <3>1, <3>2, EmptyLogIsFile DEF Next1, TypeOK
  <2>2. CASE ~MakesLog(1)
    BY <1>1, <2>2 DEF LogFor, LogAt
  <2> QED
    BY <2>1, <2>2
<1> HIDE DEF l
<1>4. LogAt(at["db"])' # 0 => DOMAIN file'[LogAt(at["db"])'].page = {}
  BY <1>2, <1>3 DEF LogAt
<1>5. Readable' = [p \in Pages |-> file'[1].page[p]]
  BY <1>2, <1>4 DEF Readable, View
<1>6. Readable' = Blank
  BY <1>1, <1>3, <1>5 DEF Blank
<1>7. DOMAIN Readable = {}
  BY <1>1 DEF Readable
<1> QED
  BY <1>1, <1>3, <1>6, <1>7

LEMMA UnseenKept ==
  ASSUME RestoreInv, Next, NEW i, Unseen(i)
  PROVE  Unseen(i)' \/ file'[i].page \in past'
<1> USE DEF Unseen
<1>0. /\ handle \in [Handles -> Handle] /\ restorer \in [Restorers -> Restorer]
      /\ at \in [Names -> Nat]
  BY DEF RestoreInv, TypeOK
<1>1. ASSUME NEW h \in Handles, HandleStep(h), ~Create(h) PROVE Unseen(i)'
  <2>1. at'["db"] = at["db"] /\ UNCHANGED restorer
    BY <1>0, <1>1
    DEF HandleStep, Open, Attach, OpenBusy, Commit, SnapshotCopy, SnapshotInstall,
        Close, Crash, AttachLog, Detach, Names
  <2> USE DEF Handle, Closed
  <2>a. CASE Open(h)
    BY <1>0, <2>1, <2>a DEF Open
  <2>b. CASE Attach(h)
    BY <1>0, <2>1, <2>b DEF Attach
  <2>c. CASE OpenBusy(h) \/ Close(h) \/ Crash(h)
    BY <1>0, <2>1, <2>c, SMTT(30) DEF OpenBusy, Close, Crash
  <2>d. ASSUME NEW p \in Pages, Commit(h, p) PROVE Unseen(i)'
    BY <1>0, <2>1, <2>d DEF Commit
  <2>e. CASE SnapshotCopy(h)
    BY <1>0, <2>1, <2>e DEF SnapshotCopy
  <2>f. CASE SnapshotInstall(h)
    BY <1>0, <2>1, <2>f DEF SnapshotInstall
  <2> QED
    BY <1>1, <2>a, <2>b, <2>c, <2>d, <2>e, <2>f DEF HandleStep
<1>2. ASSUME NEW r \in Restorers, Works(r) \/ Fail(r) \/ RestorerCrash(r)
      PROVE  Unseen(i)'
  <2>1. UNCHANGED handle
    BY <1>2
    DEF Works, Validate, StatTarget, Stage, OpenTarget, Lock, LockBusy, BackupCopy,
        BackupInstall, SkipBackup, Install, RemoveSidecars, Fail, RestorerCrash
  <2>2. at'["db"] # 1
    <3>1. restorer[r].pc = "ready" => restorer[r].tmp # 1
      BY DEF RestoreInv, References, RestorerOK, Staged, GoodCopy, Whole
    <3>2. restorer[r].to \in {"snapshot", "backup"}
      BY <1>0 DEF Restorer
    <3> QED
      BY <1>0, <1>2, <3>1, <3>2
      DEF Works, Validate, StatTarget, Stage, OpenTarget, Lock, LockBusy,
          BackupCopy, BackupInstall, SkipBackup, Install, RemoveSidecars, Fail,
          RestorerCrash, AttachLog, Detach, Names
  <2> USE DEF Restorer
  <2>a. CASE Validate(r)
    <3>1. CASE Step(r, "failed")
      BY <1>0, <2>1, <2>2, <3>1 DEF Step
    <3>2. ASSUME NEW skip \in BOOLEAN, NEW to \in BackupNames,
                 restorer' = [restorer EXCEPT ![r].pc = "validated",
                                              ![r].skip = skip, ![r].to = to]
          PROVE  Unseen(i)'
      BY <1>0, <2>1, <2>2, <3>2
    <3> QED
      BY <2>a, <3>1, <3>2 DEF Validate
  <2>b. CASE StatTarget(r)
    BY <1>0, <2>1, <2>2, <2>b DEF StatTarget
  <2>g. ASSUME NEW pc, NEW tmp,
               restorer' = [restorer EXCEPT ![r].pc = pc, ![r].tmp = tmp]
        PROVE  Unseen(i)'
    BY <1>0, <2>1, <2>2, <2>g
  <2>h. CASE Stage(r)
    BY <2>g, <2>h DEF Stage
  <2>c. CASE OpenTarget(r)
    BY <1>0, <2>1, <2>2, <2>c DEF OpenTarget
  <2>d. CASE Lock(r) \/ LockBusy(r)
    BY <1>0, <2>1, <2>2, <2>d DEF Lock, LockBusy
  <2>e. CASE BackupCopy(r)
    BY <1>0, <2>1, <2>2, <2>e DEF BackupCopy
  <2>f. CASE \E pc \in RestorerPc : Step(r, pc)
    BY <1>0, <2>1, <2>2, <2>f DEF Step
  <2> QED
    BY <1>2, <2>a, <2>b, <2>c, <2>d, <2>e, <2>f, <2>h
    DEF Works, BackupInstall, SkipBackup, Install, RemoveSidecars, Fail,
        RestorerCrash, RestorerPc
<1>3. ASSUME NEW h \in Handles, Create(h) PROVE file'[i].page \in past'
  <2>1. /\ Readable' = Blank /\ file'[1] = file[1] /\ file[1].page = Blank
    BY <1>3, CreateReads DEF RestoreInv, References, FirstOK, Database
  <2> QED
    BY <2>1 DEF Next, Remember
<1> QED
  BY <1>1, <1>2, <1>3 DEF Next

\* Every copy that is not a log is of something that was readable.
FilesSeen ==
  \A i \in 1..Len(file') : file'[i].mode = "rollback" =>
    \/ /\ i \in 1..Len(file) /\ file[i].mode = "rollback"
       /\ file'[i].page = file[i].page
    \/ file'[i].page \in past'

Quiet == Readable' = Readable /\ UNCHANGED <<commits, installs>>

Commits(p) ==
  /\ Readable' = [Readable EXCEPT ![p] = @ \union {commits + 1}]
  /\ commits' = commits + 1 /\ UNCHANGED installs

Creates ==
  DOMAIN Readable = {} /\ Readable' = Blank /\ UNCHANGED <<commits, installs>>

LEMMA ViewSeen ==
  ASSUME RestoreInv, LogInv, AllSeen, NEW d, Database(d), ~Unseen(d), NEW l,
         file[d].mode # "wal" => l = 0,
         file[d].mode = "wal" => at["db"] = d /\ at["log"] = l /\ l # 0
  PROVE  View(d, l) \in past
<1>1. CASE file[d].mode = "wal"
  <2>1. d # 0
    BY DEF Database
  <2> QED
    BY <1>1, <2>1, ReadsTheLog DEF AllSeen
<1>2. CASE file[d].mode # "wal"
  <2>1. file[d].mode = "rollback" /\ d \in 1..Len(file)
    BY <1>2, FileFacts DEF RestoreInv, Database
  <2>2. View(d, l) = file[d].page
    BY <1>2, RollbackView
  <2> QED
    BY <2>1, <2>2 DEF AllSeen
<1> QED
  BY <1>1, <1>2

LEMMA CopySeen ==
  ASSUME RestoreInv, LogInv, NEW page \in past, NEW new \in File, new.page = page,
         file' = Append(file, new), Remember,
         at'["db"] = at["db"], at'["log"] = at["log"]
  PROVE  FilesSeen /\ Readable' = Readable
<1>1. /\ Len(file') = Len(file) + 1 /\ Len(file) \in Nat
      /\ \A i \in 1..Len(file) : file'[i] = file[i]
      /\ file'[Len(file) + 1] = new
  BY Added DEF RestoreInv, TypeOK, Next1
<1>2. FilesSeen
  BY <1>1 DEF FilesSeen, Remember
<1>3. /\ at["db"] # 0 => at["db"] \in 1..Len(file)
      /\ at["log"] # 0 => at["log"] \in 1..Len(file)
  BY DEF RestoreInv, References, NamesOK, Database, Log
<1> QED
  BY <1>1, <1>2, <1>3, SameReadable

LEMMA SameSeen ==
  ASSUME RestoreInv, UNCHANGED file, at'["db"] = at["db"], at'["log"] = at["log"]
  PROVE  FilesSeen /\ Readable' = Readable
  BY SameReadable DEF FilesSeen

LEMMA DetachSeen ==
  ASSUME RestoreInv, NEW d, Database(d), NEW l, l = 0 \/ Log(l),
         l # 0 => file[d].mode = "wal" /\ (at["db"] = d => at["log"] = l),
         NEW lastOut, Detach(d, l, lastOut)
  PROVE  FilesSeen /\ Readable' = Readable
<1>1. CASE UNCHANGED <<file, at>>
  BY <1>1, SameSeen
<1>2. ASSUME l # 0, at["db"] = d, file' = [file EXCEPT ![d].page = View(d, l)],
             at' = [at EXCEPT !["log"] = 0]
      PROVE  FilesSeen /\ Readable' = Readable
  <2>1. d # 0
    BY DEF Database
  <2>2. Readable' = Readable
    BY <1>2, <2>1, DetachReads
  <2>3. /\ Len(file') = Len(file)
        /\ \A i \in 1..Len(file) \ {d} : file'[i] = file[i]
        /\ file'[d].mode = file[d].mode
    <3> DEFINE page == View(d, l)
    <3>1. page \in Content /\ file' = [file EXCEPT ![d].page = page]
      BY <1>2, ViewIsContent DEF RestoreInv
    <3> HIDE DEF page
    <3> QED
      BY <3>1, DatabaseChanged DEF RestoreInv, Grows, Database
  <2> QED
    BY <1>2, <2>2, <2>3 DEF FilesSeen
<1> QED
  BY <1>1, <1>2 DEF Detach

LEMMA HandleReads ==
  ASSUME NoStrayLog, RestoreInv, LogInv, AllSeen, Remember,
         NEW h \in Handles, HandleStep(h)
  PROVE  /\ FilesSeen
         /\ Quiet \/ (Creates /\ Create(h)) \/ \E p \in Pages : Commits(p)
<1> DEFINE H == handle[h]  d == H.db
<1>0. /\ H \in Handle /\ HandleOK(h) /\ NamesOK /\ TypeOK
      /\ handle \in [Handles -> Handle] /\ at \in [Names -> Nat]
  BY DEF RestoreInv, TypeOK, References
<1>1. CASE Open(h) \/ OpenBusy(h) \/ Crash(h)
  BY <1>1, SameSeen DEF Open, OpenBusy, Crash, Quiet
<1>2. CASE SnapshotInstall(h)
  <2>1. at'["db"] = at["db"] /\ at'["log"] = at["log"]
    BY <1>0, <1>2 DEF SnapshotInstall, Names
  <2> QED
    BY <1>2, <2>1, SameSeen DEF SnapshotInstall, Quiet
<1>3. CASE Close(h)
  <2>1. /\ Database(d) /\ (H.log = 0 \/ Log(H.log))
        /\ H.log # 0 => file[d].mode = "wal" /\ at["log"] = H.log
    BY <1>0, <1>3 DEF Close, HandleOK, LogInv, UsesTheLog
  <2> QED
    BY <1>3, <2>1, DetachSeen DEF Close, Quiet
<1>4. CASE SnapshotCopy(h)
  <2>1. /\ StatementLog(h) = H.log /\ Database(d) /\ (H.log = 0 \/ Log(H.log))
        /\ H.pc = "open" /\ UNCHANGED <<at, commits, installs>>
        /\ file' = Append(file, Copy(View(d, H.log)))
    BY <1>0, <1>4, SameLog DEF SnapshotCopy, HandleOK
  <2>2. View(d, H.log) \in past
    BY <2>1, ViewSeen DEF LogInv, UsesTheLog, Unseen
  <2>3. View(d, H.log) \in Content
    BY <1>0, <2>1, ViewIsContent
  <2> QED
    BY <2>1, <2>2, <2>3, CopyIsFile, CopySeen DEF Quiet
<1>5. CASE Attach(h)
  <2>1. /\ Database(d) /\ AttachLog(d) /\ UNCHANGED <<commits, installs>>
        /\ file[d].mode = "wal" => at["db"] = d
    BY <1>0, <1>5 DEF Attach, HandleOK, NoStrayLog
  <2>2. /\ Readable' = Readable
        /\ \A i \in 1..Len(file) : file'[i] = file[i]
        /\ \A i \in 1..Len(file') \ 1..Len(file) : file'[i].mode = "log"
    BY <2>1, AttachReads
  <2> QED
    BY <2>1, <2>2 DEF FilesSeen, Quiet
<1>6. ASSUME NEW p \in Pages, Commit(h, p) PROVE FilesSeen /\ Commits(p)
  <2> DEFINE l == H.log
             rows == View(d, l)[p] \union {commits + 1}
             logged == [q \in DOMAIN file[l].page \union {p} |->
                          IF q = p THEN rows ELSE file[l].page[q]]
  <2>1. /\ H.pc = "open" /\ StatementLog(h) = l /\ UNCHANGED <<at, installs>>
        /\ commits' = commits + 1 /\ Database(d) /\ (l = 0 \/ Log(l))
        /\ l = 0 => at["db"] = d
        /\ file' = IF l # 0 THEN [file EXCEPT ![l].page = logged]
                             ELSE [file EXCEPT ![d].page[p] = rows]
    BY <1>0, <1>6, SameLog DEF Commit, HandleOK
  <2>2. View(d, l) \in Content /\ rows \in SUBSET Nat
    BY <1>0, <2>1, ViewIsContent DEF Content, TypeOK
  <2>3. ASSUME l # 0 PROVE FilesSeen /\ Commits(p)
    <3>1. at["db"] = d /\ d # 0 /\ file[d].mode = "wal" /\ at["log"] = l
          /\ d # l /\ d \in 1..Len(file) /\ l \in 1..Len(file)
      BY <2>1, <2>3 DEF LogInv, UsesTheLog, Database, Log
    <3>2. /\ Len(file') = Len(file) /\ file'[l].page = logged
          /\ \A i \in 1..Len(file) \ {l} : file'[i] = file[i]
          /\ file'[l].mode = "log"
      <4>1. file[l] \in LogFile
        BY <1>0, <2>1, <2>3, FileFacts DEF Log
      <4>2. file' = [file EXCEPT ![l].page = logged] /\ file \in Seq(File)
        BY <1>0, <2>1, <2>3 DEF TypeOK
      <4> HIDE DEF logged, l
      <4>3. file' = [file EXCEPT ![l] = [file[l] EXCEPT !.page = logged]]
        BY <4>2
      <4>4. /\ [file[l] EXCEPT !.page = logged].page = logged
            /\ [file[l] EXCEPT !.page = logged].mode = "log"
        BY <4>1 DEF LogFile
      <4> QED
        BY <3>1, <4>2, <4>3, <4>4
    <3>3. Readable = View(d, l)
      BY <2>3, <3>1, ReadsTheLog
    <3>4. /\ at'["db"] = d /\ at'["log"] = l /\ file'[d] = file[d]
      BY <2>1, <3>1, <3>2
    <3>5. LogAt(at["db"])' = l
      BY <2>3, <3>1, <3>4 DEF LogAt
    <3>6. Readable' = [q \in Pages |->
                         IF q \in DOMAIN logged THEN logged[q] ELSE file[d].page[q]]
      <4> HIDE DEF logged
      <4> QED
        BY <2>3, <3>1, <3>2, <3>4, <3>5 DEF Readable, View
    <3>7. ASSUME NEW q \in Pages
          PROVE  (IF q \in DOMAIN logged THEN logged[q] ELSE file[d].page[q])
                   = IF q = p THEN rows ELSE View(d, l)[q]
      <4> HIDE DEF rows
      <4> QED
        BY <2>3 DEF View
    <3>8. Readable' = [View(d, l) EXCEPT ![p] = rows]
      <4> HIDE DEF rows, logged
      <4> QED
        BY <2>2, <3>6, <3>7 DEF Content
    <3> QED
      BY <2>1, <3>1, <3>2, <3>3, <3>8, ZenonT(40) DEF FilesSeen, Commits
  <2>4. ASSUME l = 0 PROVE FilesSeen /\ Commits(p)
    <3>1. at["db"] = d /\ d # 0 /\ file[d].mode # "wal" /\ d \in 1..Len(file)
          /\ file[d] \in DatabaseFile
      BY <1>0, <2>1, <2>4, FileFacts DEF LogInv, UsesTheLog, Database
    <3>2. LogAt(at["db"]) = 0
      BY <3>1, NoLogAt
    <3>3. Readable = View(d, 0)
      BY <3>1, <3>2 DEF Readable
    <3>4. /\ Len(file') = Len(file)
          /\ file'[d].page = [file[d].page EXCEPT ![p] = rows]
          /\ \A i \in 1..Len(file) \ {d} : file'[i] = file[i]
          /\ file'[d].mode = file[d].mode
      <4> DEFINE page == [file[d].page EXCEPT ![p] = rows]
      <4>1. file' = [file EXCEPT ![d].page = page]
        BY <2>1, <2>4
      <4>2. page \in Content
        <5> HIDE DEF rows
        <5> QED
          BY <2>2, <3>1 DEF DatabaseFile, Content
      <4> HIDE DEF page, d
      <4>3. file'[d].page = page /\ Grows /\ Len(file') = Len(file)
            /\ \A i \in 1..Len(file) \ {d} : file'[i] = file[i]
        BY <1>0, <2>1, <4>1, <4>2, DatabaseChanged
      <4> QED
        BY <3>1, <4>3 DEF page, Grows
    <3>5. at["log"] # 0 => at["log"] \in 1..Len(file) \ {d}
      BY <1>0, <2>1 DEF NamesOK, Log, Database
    <3>6. /\ at'["db"] = d /\ at'["log"] = at["log"]
          /\ LogAt(at["db"])' = 0
      BY <2>1, <3>1, <3>2, <3>4, <3>5 DEF LogAt
    <3>7. Readable' = [q \in Pages |-> file'[d].page[q]]
      BY <3>1, <3>6 DEF Readable, View
    <3>8. file[d].page \in Content /\ View(d, 0) = file[d].page
      BY <1>0, <2>1, <3>1, RollbackView DEF DatabaseFile
    <3>9. Readable' = file'[d].page
      <4> HIDE DEF rows
      <4> QED
        BY <3>4, <3>7, <3>8 DEF Content
    <3>10. Commits(p)
      BY <2>1, <2>4, <3>3, <3>4, <3>8, <3>9 DEF Commits
    <3>11. FilesSeen
      BY <3>4, <3>9 DEF FilesSeen, Remember
    <3> QED
      BY <3>10, <3>11
  <2> QED
    BY <2>3, <2>4
<1>7. CASE Create(h)
  <2>1. /\ \A i \in 1..Len(file) : file'[i] = file[i]
        /\ \A i \in 1..Len(file') \ 1..Len(file) : file'[i].mode = "log"
        /\ DOMAIN Readable = {} /\ Readable' = Blank
    BY <1>7, CreateReads
  <2>2. FilesSeen
    BY <2>1 DEF FilesSeen
  <2> QED
    BY <1>7, <2>1, <2>2 DEF Create, Creates
<1> QED
  BY <1>1, <1>2, <1>3, <1>4, <1>5, <1>6, <1>7 DEF HandleStep

Installs ==
  Readable' \in past /\ installs' = installs + 1 /\ UNCHANGED commits

LEMMA RestorerReads ==
  ASSUME NoStrayLog, RestoreInv, LogInv, AllSeen, Remember,
         NEW r \in Restorers, Works(r) \/ Fail(r) \/ RestorerCrash(r)
  PROVE  FilesSeen /\ (Quiet \/ Installs)
<1> DEFINE R == restorer[r]  d == R.db
<1>0. /\ R \in Restorer /\ RestorerOK(r) /\ NamesOK /\ TypeOK
      /\ at \in [Names -> Nat]
  BY DEF RestoreInv, TypeOK, References
<1>1. CASE UNCHANGED <<file, at, commits, installs>>
  BY <1>1, SameSeen DEF Quiet
<1>2. CASE Stage(r)
  <2> DEFINE s == at["snapshot"]  new == [file[s] EXCEPT !.mode = "rollback"]
  <2>1. /\ R.pc = "statted" /\ UNCHANGED <<at, commits, installs>>
        /\ file' = Append(file, new)
    BY <1>2 DEF Stage
  <2>2. Whole(s)
    BY <1>0, <2>1 DEF RestorerOK, NamesOK
  <2>3. new \in File /\ new.page = file[s].page
    BY <1>0, <2>2, FileFacts DEF Whole, DatabaseFile, File
  <2>4. file[s].page \in past
    BY <1>0, <2>2 DEF AllSeen, Unseen, Whole, TypeOK
  <2> QED
    BY <2>1, <2>3, <2>4, CopySeen DEF Quiet
<1>3. CASE Lock(r)
  <2>1. /\ Database(d) /\ AttachLog(d) /\ UNCHANGED <<commits, installs>>
        /\ file[d].mode = "wal" => at["db"] = d
    BY <1>0, <1>3 DEF Lock, RestorerOK, NoStrayLog
  <2>2. /\ Readable' = Readable
        /\ \A i \in 1..Len(file) : file'[i] = file[i]
        /\ \A i \in 1..Len(file') \ 1..Len(file) : file'[i].mode = "log"
    BY <2>1, AttachReads
  <2> QED
    BY <2>1, <2>2 DEF FilesSeen, Quiet
\* The log a restorer holds is that of the database under the name.
<1>4. R.exists /\ R.pc \in Holding =>
        /\ Database(d) /\ ~Unseen(d) /\ (R.log = 0 \/ Log(R.log))
        /\ R.log # 0 <=> file[d].mode = "wal"
        /\ R.log # 0 /\ (R.pc # "installed" \/ at["db"] = d) =>
             at["db"] = d /\ at["log"] = R.log
  BY <1>0 DEF RestorerOK, Database, Unseen, LogInv, LockExcludes, OnlyFirstHasLog,
              Holds, Holding
<1>5. CASE BackupCopy(r)
  <2>1. /\ R.pc = "locked" /\ UNCHANGED <<at, commits, installs>>
        /\ file' = Append(file, Copy(View(d, R.log)))
        /\ R.exists /\ R.pc \in Holding
    BY <1>0, <1>5 DEF BackupCopy, RestorerOK, Holding
  <2>2. View(d, R.log) \in past
    BY <1>4, <2>1, ViewSeen
  <2>3. View(d, R.log) \in Content
    BY <1>0, <1>4, <2>1, ViewIsContent
  <2> QED
    BY <2>1, <2>2, <2>3, CopyIsFile, CopySeen DEF Quiet
<1>6. CASE BackupInstall(r)
  <2>1. at'["db"] = at["db"] /\ at'["log"] = at["log"]
    BY <1>0, <1>6 DEF BackupInstall, Restorer, Names
  <2> QED
    BY <1>6, <2>1, SameSeen DEF BackupInstall, Quiet
<1>7. CASE Install(r)
  <2>1. /\ R.pc = "ready" /\ UNCHANGED <<file, commits>> /\ installs' = installs + 1
        /\ at' = [at EXCEPT !["db"] = R.tmp]
    BY <1>7 DEF Install
  <2>2. Whole(R.tmp) /\ R.tmp # 0
    BY <1>0, <2>1 DEF RestorerOK, Staged, GoodCopy, Whole
  <2>3. at'["db"] = R.tmp /\ at'["log"] = at["log"]
    BY <1>0, <2>1 DEF Names
  <2>4. LogAt(at["db"])' = 0
    BY <2>1, <2>2, <2>3, ReadyExcludes DEF LogAt, Whole, LogInv, LogInUse
  <2>5. Readable' = View(R.tmp, 0)
    BY <2>1, <2>2, <2>3, <2>4 DEF Readable, View
  <2>6. View(R.tmp, 0) = file[R.tmp].page /\ file[R.tmp].page \in past
    BY <1>0, <2>2, RollbackView DEF AllSeen, Unseen, Whole, Database, TypeOK
  <2> QED
    BY <2>1, <2>5, <2>6 DEF FilesSeen, Installs
<1>8. CASE RemoveSidecars(r)
  <2>1. /\ R.pc = "installed" /\ UNCHANGED <<file, commits, installs>>
        /\ at' = [at EXCEPT !["log"] = 0]
    BY <1>8 DEF RemoveSidecars
  <2>2. at'["db"] = at["db"] /\ at'["log"] = 0 /\ at["db"] # 1
    BY <1>0, <2>1 DEF Names, LogInv, OnlyFirstHasLog
  <2>3. at["db"] # 0 => file[at["db"]].mode # "wal"
    BY <1>0, <2>2 DEF NamesOK, Database, LogInv, OnlyFirstHasLog, TypeOK
  <2>4. at["db"] # 0 => LogAt(at["db"]) = 0
    BY <2>2, <2>3, NoLogAt
  <2>5. LogAt(at["db"])' = 0
    BY <2>2 DEF LogAt
  <2>6. Readable' = Readable
    BY <2>1, <2>2, <2>4, <2>5 DEF Readable, View
  <2> QED
    BY <2>1, <2>6 DEF FilesSeen, Quiet
<1>9. CASE Fail(r)
  <2>1. UNCHANGED <<commits, installs>>
    BY <1>9 DEF Fail
  <2>2. CASE R.exists /\ R.pc \in Holding /\ Detach(d, R.log, TRUE)
    BY <1>4, <2>1, <2>2, DetachSeen DEF Quiet
  <2> QED
    BY <1>1, <1>9, <2>1, <2>2 DEF Fail
<1> QED
  BY <1>1, <1>2, <1>3, <1>5, <1>6, <1>7, <1>8, <1>9
  DEF Works, Validate, StatTarget, OpenTarget, LockBusy, SkipBackup, RestorerCrash

LEMMA SeenInit == Init => AllSeen
<1> SUFFICES ASSUME Init PROVE AllSeen
  OBVIOUS
<1>1. PICK m \in Modes, good \in BOOLEAN :
        file = << [page |-> [p \in Pages |-> {}], mode |-> m, good |-> TRUE],
                  [page |-> [p \in Pages |-> {0}],
                   mode |-> "rollback", good |-> good] >>
  BY DEF Init
<1>2. /\ Len(file) = 2 /\ file[2].page \in past /\ Readable \in past
      /\ file[1].page = [p \in Pages |-> {}]
  BY <1>1 DEF Init
<1>3. at["db"] \in {0, 1} /\ at["log"] = 0
  BY DEF Init, Names
<1>4. at["db"] = 1 => Readable = file[1].page
  BY <1>2, <1>3 DEF Readable, LogAt, View
<1>5. at["db"] = 0 => Unseen(1)
  BY DEF Init, Unseen, Closed, Idle
<1> QED
  BY <1>2, <1>3, <1>4, <1>5 DEF AllSeen

LEMMA SeenStep ==
  ASSUME NoStrayLog, RestoreInv, LogInv, AllSeen, [Next]_vars
  PROVE  AllSeen' /\ [Path!Next]_(Path!vars)
<1>1. CASE UNCHANGED vars
  BY <1>1 DEF vars, AllSeen, Readable, View, LogAt, Unseen, Path!vars
<1>2. ASSUME Next PROVE AllSeen' /\ [Path!Next]_(Path!vars)
  <2>1. Remember
    BY <1>2 DEF Next
  <2>2. FilesSeen /\ (Quiet \/ Creates \/ Installs \/ \E p \in Pages : Commits(p))
    BY <1>2, <2>1, HandleReads, RestorerReads DEF Next
  <2>3. past' = past \union {Readable'}
    BY <2>1 DEF Remember
  <2>4. AllSeen'
    <3>1. ASSUME NEW i \in 1..Len(file'), file'[i].mode = "rollback"
          PROVE  file'[i].page \in past' \/ Unseen(i)'
      <4>1. CASE file'[i].page \in past'
        BY <4>1
      <4>2. CASE /\ i \in 1..Len(file) /\ file[i].mode = "rollback"
                 /\ file'[i].page = file[i].page
        <5>1. file[i].page \in past \/ Unseen(i)
          BY <4>2 DEF AllSeen
        <5> QED
          BY <1>2, <2>3, <4>2, <5>1, UnseenKept
      <4> QED
        BY <2>2, <3>1, <4>1, <4>2 DEF FilesSeen
    <3>2. Readable' \in past'
      BY <2>3
    <3> QED
      BY <3>1, <3>2 DEF AllSeen
  <2>5. CASE Quiet
    <3>1. UNCHANGED Path!vars
      BY <2>3, <2>5 DEF Quiet, AllSeen, Path!vars
    <3> QED
      BY <2>4, <3>1
  <2>6. CASE Installs
    <3>1. Path!Replace
      BY <2>3, <2>6 DEF Installs, Path!Replace
    <3> QED
      BY <2>4, <3>1 DEF Path!Next
  <2>7. ASSUME NEW p \in Pages, Commits(p) PROVE Path!Commit
    BY <2>3, <2>7 DEF Commits, Path!Commit
  <2>8. CASE Creates
    <3>1. Path!Create
      BY <2>3, <2>8 DEF Creates, Blank, Path!Create
    <3> QED
      BY <2>4, <3>1 DEF Path!Next
  <2> QED
    BY <2>2, <2>4, <2>5, <2>6, <2>7, <2>8 DEF Path!Next
<1> QED
  BY <1>1, <1>2

(* Whoever opens the path reads the database as whole commits left it, or a *)
(* snapshot as a whole: the files, names, locks and logs implement the one  *)
(* set of pages, for any number of handles, restores, pages and commits.    *)
THEOREM PathIsAtomic == ASSUME NoStrayLog PROVE Spec => AtomicDatabase
<1>1. RestoreInv /\ LogInv /\ AllSeen /\ [Next]_vars =>
        AllSeen' /\ [Path!Next]_(Path!vars)
  BY SeenStep
<1>2. Init => Path!Init
  BY SeenInit DEF Init, Path!Init, AllSeen
<1> QED
  BY <1>1, <1>2, SeenInit, RestoreInvariant, LogInvariant, PTL
  DEF Spec, AtomicDatabase, Path!Spec

(* A snapshot has all that was committed before it, what is still in the    *)
(* log included.                                                            *)
THEOREM SnapshotsHoldAll == ASSUME NoStrayLog PROVE Spec => SnapshotsAreCurrent
<1> DEFINE Current == \A h \in Handles :
             /\ handle[h].pc = "open" /\ handle'[h].pc = "copied"
             /\ handle[h].db = at["db"]
             =>
               file'[handle'[h].tmp].page = Readable
<1>1. RestoreInv /\ LogInv /\ [Next]_vars => [Current]_vars
  <2> SUFFICES ASSUME RestoreInv, LogInv, Next, NEW h \in Handles,
                      handle[h].pc = "open", handle'[h].pc = "copied",
                      handle[h].db = at["db"]
               PROVE  file'[handle'[h].tmp].page = Readable
    BY DEF vars
  <2> DEFINE H == handle[h]  d == H.db
  <2>0. /\ handle \in [Handles -> Handle] /\ TypeOK /\ HandleOK(h)
        /\ H \in Handle
    BY DEF RestoreInv, TypeOK, References
  <2>1. handle' # handle
    OBVIOUS
  <2>2. PICK g \in Handles : HandleStep(g)
    BY <2>1
    DEF Next, Works, Validate, StatTarget, Stage, OpenTarget, Lock, LockBusy,
        BackupCopy, BackupInstall, SkipBackup, Install, RemoveSidecars, Fail,
        RestorerCrash
  <2>3. g = h /\ SnapshotCopy(h)
    <3>1. CASE Open(g)
      BY <2>0, <3>1 DEF Open, Handle
    <3>2. CASE Attach(g)
      BY <2>0, <3>2 DEF Attach, Handle
    <3>0. CASE Create(g)
      BY <2>0, <3>0 DEF Create, Handle
    <3>3. CASE OpenBusy(g) \/ Close(g) \/ Crash(g)
      BY <2>0, <3>3 DEF OpenBusy, Close, Crash, Closed
    <3>4. ASSUME NEW p \in Pages, Commit(g, p) PROVE FALSE
      BY <2>0, <3>4 DEF Commit, Handle
    <3>5. CASE SnapshotInstall(g)
      BY <2>0, <3>5 DEF SnapshotInstall, Handle
    <3>6. CASE SnapshotCopy(g)
      BY <2>0, <3>6 DEF SnapshotCopy, Handle
    <3> QED
      BY <2>2, <3>0, <3>1, <3>2, <3>3, <3>4, <3>5, <3>6 DEF HandleStep
  <2>4. /\ file' = Append(file, Copy(View(d, H.log))) /\ handle'[h].tmp = Next1
    BY <2>0, <2>3, SameLog DEF SnapshotCopy, Handle
  <2>5. Database(d) /\ (H.log = 0 \/ Log(H.log)) /\ d # 0
    BY <2>0 DEF HandleOK, Database
  <2>6. View(d, H.log) \in Content
    BY <2>0, <2>5, ViewIsContent
  <2>7. file'[handle'[h].tmp].page = View(d, H.log)
    BY <2>0, <2>4, <2>6, CopyIsFile, Added
  <2>8. View(d, H.log) = Readable
    <3>1. CASE H.log # 0
      BY <2>5, <3>1, ReadsTheLog DEF LogInv, UsesTheLog
    <3>2. CASE H.log = 0
      <4>1. LogAt(d) = 0
        BY <3>2, NoLogAt DEF LogInv, UsesTheLog
      <4> QED
        BY <2>5, <3>2, <4>1 DEF Readable
    <3> QED
      BY <3>1, <3>2
  <2> QED
    BY <2>7, <2>8
<1> QED
  BY <1>1, RestoreInvariant, LogInvariant, PTL DEF Spec, SnapshotsAreCurrent

-----------------------------------------------------------------------------
(* The backup.  It is that of one restore: of two that run at the same     *)
(* time, the second may replace what the first installed after the copy.   *)

OneRestorer == \A r, s \in Restorers : r = s

BackupOK(r) ==
  /\ restorer[r].exists
       /\ restorer[r].pc \in {"opening", "locked", "copied", "ready"} =>
         restorer[r].db = at["db"]
  /\ restorer[r].exists /\ ~restorer[r].skip
       /\ restorer[r].pc \in {"copied", "ready"} =>
         GoodCopy(restorer[r].bak) /\ file[restorer[r].bak].page = Readable
  /\ restorer[r].exists /\ ~restorer[r].skip /\ restorer[r].pc = "ready" =>
       restorer[r].to = "snapshot" \/ at[restorer[r].to] = restorer[r].bak

BackupInv == \A r \in Restorers : BackupOK(r)

LEMMA BackupInvInit == Init => BackupInv
  BY DEF Init, BackupInv, BackupOK, Idle

LEMMA HandlesKeepNames ==
  ASSUME RestoreInv, at["db"] # 0, NEW h \in Handles, HandleStep(h)
  PROVE  at'["db"] = at["db"] /\ at'["backup"] = at["backup"] /\ UNCHANGED restorer
<1>1. at \in [Names -> Nat]
  BY DEF RestoreInv, TypeOK
<1> QED
  BY <1>1
  DEF HandleStep, Create, Open, Attach, OpenBusy, Commit, SnapshotCopy,
      SnapshotInstall, Close, Crash, AttachLog, Detach, Names

\* Whoever holds the lock on the database of the name keeps it as it is.
LEMMA LockKeepsContent ==
  ASSUME NoStrayLog, RestoreInv, LogInv, AllSeen, Remember,
         NEW r \in Restorers, Holds(r), restorer[r].db = at["db"],
         NEW h \in Handles, HandleStep(h)
  PROVE  /\ Readable' = Readable /\ Grows
         /\ \A i \in 1..Len(file) : file[i].mode = "rollback" =>
              file'[i].page = file[i].page
<1> DEFINE H == handle[h]  d == H.db
<1>0. /\ H \in Handle /\ HandleOK(h) /\ TypeOK /\ commits \in Nat
  BY DEF RestoreInv, TypeOK, References
<1>1. ASSUME NEW p \in Pages, Commit(h, p) PROVE FALSE
  <2>1. H.pc = "open" /\ (H.log = 0 => Lockers(d) = {} /\ at["db"] = d)
    BY <1>1 DEF Commit
  <2>2. H.log = 0
    BY DEF LogInv, UsesTheLog, LockExcludes
  <2> QED
    BY <2>1, <2>2 DEF Lockers, Holds, Holding
<1>a. ~Create(h)
  BY DEF Create, Holds, RestoreInv, References, RestorerOK
<1>2. commits' = commits
  BY <1>1, <1>a
  DEF HandleStep, Open, Attach, OpenBusy, SnapshotCopy, SnapshotInstall, Close, Crash
<1>3. Readable' = Readable
  BY <1>0, <1>2, <1>a, HandleReads DEF Quiet, Commits
<1>4. CASE UNCHANGED file
  BY <1>0, <1>3, <1>4, Unchanged
<1>5. CASE Attach(h)
  <2>1. /\ Database(d) /\ AttachLog(d) /\ (file[d].mode = "wal" => at["db"] = d)
    BY <1>0, <1>5 DEF Attach, HandleOK, NoStrayLog
  <2>2. Grows
    BY <2>1, AttachKeeps DEF FilesKept
  <2> QED
    BY <1>3, <2>1, <2>2, AttachReads
<1>6. CASE SnapshotCopy(h)
  <2>1. /\ StatementLog(h) = H.log /\ Database(d) /\ (H.log = 0 \/ Log(H.log))
        /\ file' = Append(file, Copy(View(d, H.log)))
    BY <1>0, <1>6, SameLog DEF SnapshotCopy, HandleOK
  <2>2. View(d, H.log) \in Content
    BY <1>0, <2>1, ViewIsContent
  <2> QED
    BY <1>0, <1>3, <2>1, <2>2, CopyIsFile, Added
<1>7. ASSUME Close(h), ~UNCHANGED file
      PROVE  Grows /\ \A i \in 1..Len(file) : file[i].mode = "rollback" =>
                        file'[i].page = file[i].page
  <2> DEFINE page == View(d, H.log)
  <2>1. /\ H.log # 0 /\ file' = [file EXCEPT ![d].page = page]
        /\ Database(d) /\ Log(H.log)
    BY <1>0, <1>7 DEF Close, Detach, HandleOK
  <2>2. file[d].mode = "wal"
    BY <2>1 DEF LogInv, UsesTheLog
  <2>3. page \in Content
    BY <1>0, <2>1, ViewIsContent
  <2> HIDE DEF page, d
  <2>4. Grows /\ \A i \in 1..Len(file) \ {d} : file'[i] = file[i]
    BY <1>0, <2>1, <2>3, DatabaseChanged
  <2> QED
    BY <2>2, <2>4
<1> QED
  BY <1>1, <1>a, <1>3, <1>4, <1>5, <1>6, <1>7
  DEF HandleStep, Open, OpenBusy, SnapshotInstall, Crash

LEMMA BackupStep ==
  ASSUME NoStrayLog, OneRestorer, RestoreInv, RestoreInv', LogInv, AllSeen,
         BackupInv, [Next]_vars
  PROVE  BackupInv'
<1> SUFFICES ASSUME NEW r \in Restorers PROVE BackupOK(r)'
  BY DEF BackupInv, BackupOK
<1> DEFINE R == restorer[r]  d == R.db
<1>0. /\ restorer \in [Restorers -> Restorer] /\ at \in [Names -> Nat] /\ TypeOK
      /\ BackupOK(r) /\ R \in Restorer /\ RestorerOK(r)
  BY DEF RestoreInv, TypeOK, References, BackupInv, BackupOK
<1>1. CASE UNCHANGED vars
  <2>1. /\ file' = file /\ at' = at /\ restorer' = restorer
    BY <1>1 DEF vars
  <2>2. Readable' = Readable
    BY <2>1 DEF Readable, View, LogAt
  <2> QED
    BY <1>0, <2>1, <2>2 DEF BackupOK, GoodCopy, Whole
<1>2. ASSUME NEW h \in Handles, HandleStep(h), Remember, R.exists
      PROVE  BackupOK(r)'
  <2>0. at'["db"] = at["db"] /\ at'["backup"] = at["backup"] /\ restorer' = restorer
    BY <1>0, <1>2, HandlesKeepNames DEF RestorerOK
  <2>1. ASSUME R.exists, ~R.skip, R.pc \in {"copied", "ready"}
        PROVE  GoodCopy(R.bak)' /\ file'[R.bak].page = Readable'
    <3>1. /\ GoodCopy(R.bak) /\ file[R.bak].page = Readable
          /\ Holds(r) /\ d = at["db"]
      BY <1>0, <2>1 DEF BackupOK, Holds
    <3>2. /\ Readable' = Readable /\ Grows
          /\ \A i \in 1..Len(file) : file[i].mode = "rollback" =>
               file'[i].page = file[i].page
      BY <1>2, <3>1, LockKeepsContent
    <3>3. R.bak \in 1..Len(file) /\ file[R.bak].mode = "rollback"
      BY <1>0, <3>1 DEF GoodCopy, Whole, TypeOK
    <3>4. R.bak' = R.bak
      BY <2>0
    <3>5. R.bak \in 2..Len(file') /\ file'[R.bak].mode = "rollback"
          /\ file'[R.bak].good
      BY <1>0, <3>1, <3>2 DEF GoodCopy, Whole, TypeOK, Grows
    <3> QED
      BY <3>1, <3>2, <3>3, <3>4, <3>5 DEF GoodCopy, Whole
  <2>2. R.to \in {"snapshot", "backup"}
    BY <1>0 DEF Restorer
  <2> QED
    BY <1>0, <2>0, <2>1, <2>2 DEF BackupOK
<1>3. ASSUME NEW s \in Restorers, Works(s) \/ Fail(s) \/ RestorerCrash(s), Remember
      PROVE  BackupOK(r)'
  <2>0. s = r
    BY DEF OneRestorer
  <2>1. CASE Validate(r)
    <3>1. restorer'[r].pc \in {"validated", "failed"}
      <4>1. CASE Step(r, "failed")
        BY <1>0, <4>1 DEF Step, Restorer
      <4>2. ASSUME NEW skip \in BOOLEAN, NEW to \in BackupNames,
                   restorer' = [restorer EXCEPT ![r].pc = "validated",
                                                ![r].skip = skip, ![r].to = to]
            PROVE  restorer'[r].pc = "validated"
        BY <1>0, <4>2 DEF Restorer
      <4> QED
        BY <2>1, <4>1, <4>2 DEF Validate
    <3> QED
      BY <3>1 DEF BackupOK
  <2>2. CASE StatTarget(r)
    <3>1. /\ at' = at /\ restorer'[r].pc = "statted"
          /\ restorer'[r].exists \in BOOLEAN
          /\ ~restorer'[r].exists => at["db"] = 0
      BY <1>0, <2>2 DEF StatTarget, Restorer
    <3> QED
      BY <3>1 DEF BackupOK
  <2>3. CASE Stage(r)
    <3>1. /\ at' = at /\ restorer'[r].exists = R.exists /\ R.pc = "statted"
          /\ restorer'[r].pc = IF R.exists THEN "staged" ELSE "ready"
      BY <1>0, <2>3 DEF Stage, Restorer
    <3> QED
      BY <1>0, <3>1 DEF BackupOK
  <2>4. CASE OpenTarget(r)
    <3>1. /\ at' = at /\ restorer'[r].exists = R.exists /\ R.pc = "staged"
          /\ restorer'[r].pc = "opening" /\ restorer'[r].db = at["db"]
      BY <1>0, <2>4 DEF OpenTarget, Restorer
    <3> QED
      BY <3>1 DEF BackupOK
  <2>5. CASE Lock(r)
    <3>1. /\ restorer'[r].exists = R.exists /\ R.pc = "opening"
          /\ restorer'[r].pc = "locked" /\ restorer'[r].db = d /\ AttachLog(d)
      BY <1>0, <2>5 DEF Lock, Restorer
    <3>2. at'["db"] = at["db"]
      BY <1>0, <3>1 DEF AttachLog, Names
    <3> QED
      BY <1>0, <3>1, <3>2 DEF BackupOK
  <2>6. CASE LockBusy(r)
    <3>1. restorer'[r].pc \in {"failed", "staged"}
      BY <1>0, <2>6 DEF LockBusy, Restorer
    <3> QED
      BY <3>1 DEF BackupOK
  <2>7. CASE BackupCopy(r)
    <3> DEFINE page == View(d, R.log)
    <3>1. /\ at' = at /\ restorer'[r].exists = R.exists /\ R.pc = "locked"
          /\ restorer'[r].pc = "copied" /\ restorer'[r].db = d
          /\ restorer'[r].bak = Next1 /\ file' = Append(file, Copy(page))
      BY <1>0, <2>7 DEF BackupCopy, Restorer
    <3>2. /\ R.exists /\ Database(d) /\ (R.log = 0 \/ Log(R.log))
          /\ d = at["db"] /\ d # 0
      BY <1>0, <3>1 DEF RestorerOK, BackupOK
    <3>3. page = Readable
      <4>1. CASE R.log # 0
        <5>1. file[d].mode = "wal" /\ at["log"] = R.log
          BY <3>1, <3>2, <4>1 DEF LogInv, LockExcludes, Holds, Holding
        <5> QED
          BY <3>2, <4>1, <5>1, ReadsTheLog
      <4>2. CASE R.log = 0
        <5>1. file[d].mode # "wal" /\ (d # 1 => at["db"] # 1)
          BY <3>1, <3>2, <4>2 DEF LogInv, LockExcludes, Holding
        <5>2. LogAt(d) = 0
          BY <5>1, NoLogAt
        <5> QED
          BY <3>2, <4>2, <5>2 DEF Readable
      <4> QED
        BY <4>1, <4>2
    <3>4. page \in Content
      BY <1>0, <3>2, ViewIsContent
    <3> HIDE DEF page
    <3>5. /\ \A i \in 1..Len(file) : file'[i] = file[i]
          /\ file'[Next1].page = page
      BY <1>0, <3>1, <3>4, CopyIsFile, Added
    <3>6. Readable' = Readable
      <4>1. /\ at["db"] # 0 => at["db"] \in 1..Len(file)
            /\ at["log"] # 0 => at["log"] \in 1..Len(file)
        BY DEF RestoreInv, References, NamesOK, Database, Log
      <4> QED
        BY <3>1, <3>5, <4>1, SameReadable
    <3>7. GoodCopy(restorer[r].bak)'
      BY <3>1 DEF RestoreInv, References, RestorerOK
    <3>8. file'[restorer'[r].bak].page = Readable'
      BY <3>1, <3>3, <3>5, <3>6
    <3> QED
      BY <3>1, <3>2, <3>7, <3>8 DEF BackupOK
  <2>8. CASE BackupInstall(r)
    <3>1. /\ R.pc = "copied" /\ at' = [at EXCEPT ![R.to] = R.bak]
          /\ restorer'[r].pc = "ready" /\ restorer'[r].db = d
          /\ restorer'[r].exists = R.exists /\ restorer'[r].skip = R.skip
          /\ restorer'[r].bak = R.bak /\ restorer'[r].to = R.to
          /\ file' = file
      BY <1>0, <2>8 DEF BackupInstall, Step, Restorer
    <3>2. R.to \in {"snapshot", "backup"} /\ R.exists
      BY <1>0, <3>1 DEF Restorer, RestorerOK
    <3>3. /\ at'["db"] = at["db"] /\ at'["log"] = at["log"]
          /\ at'[R.to] = R.bak
      BY <1>0, <3>1, <3>2 DEF Names
    <3>4. Readable' = Readable
      BY <3>1, <3>3, SameReadable
    <3>5. GoodCopy(R.bak) => GoodCopy(restorer[r].bak)'
      BY <3>1 DEF GoodCopy, Whole
    <3> HIDE DEF R
    <3> QED
      BY <1>0, <3>1, <3>2, <3>3, <3>4, <3>5 DEF BackupOK, R
  <2>9. CASE SkipBackup(r)
    <3>1. /\ at' = at /\ R.pc = "locked" /\ R.skip
          /\ restorer'[r].pc = "ready" /\ restorer'[r].db = d
          /\ restorer'[r].exists = R.exists /\ restorer'[r].skip = R.skip
      BY <1>0, <2>9 DEF SkipBackup, Step, Restorer
    <3>2. R.exists
      BY <1>0, <3>1 DEF RestorerOK
    <3> QED
      BY <1>0, <3>1, <3>2 DEF BackupOK
  <2>10. CASE Install(r) \/ RemoveSidecars(r) \/ Fail(r) \/ RestorerCrash(r)
    <3>1. ASSUME NEW pc \in {"installed", "done", "failed"}, Step(r, pc)
          PROVE  restorer'[r].pc = pc
      BY <1>0, <3>1 DEF Step, Restorer
    <3>2. restorer'[r].pc \in {"installed", "done", "failed"}
      BY <2>10, <3>1 DEF Install, RemoveSidecars, Fail, RestorerCrash
    <3> QED
      BY <3>2 DEF BackupOK
  <2> QED
    BY <1>3, <2>0, <2>1, <2>2, <2>3, <2>4, <2>5, <2>6, <2>7, <2>8, <2>9, <2>10
    DEF Works
<1>4. ASSUME NEW h \in Handles, HandleStep(h), ~R.exists PROVE BackupOK(r)'
  <2>1. restorer' = restorer
    BY <1>4
    DEF HandleStep, Create, Open, Attach, OpenBusy, Commit, SnapshotCopy,
        SnapshotInstall, Close, Crash
  <2> QED
    BY <1>4, <2>1 DEF BackupOK
<1> QED
  BY <1>1, <1>2, <1>3, <1>4 DEF Next

(* Where no other restore runs, the backup of a restore that found a       *)
(* database is what it replaces: whatever the handles do between the stat, *)
(* the lock, the copy and the renames, nothing is committed that the       *)
(* backup does not hold.                                                   *)
THEOREM BackupIsWhatWasReplaced ==
  ASSUME NoStrayLog, OneRestorer PROVE Spec => BackupHoldsReplaced
<1> DEFINE Held == \A r \in Restorers :
             Replaces(r) /\ ~restorer[r].skip =>
               LET b == restorer[r].bak
               IN /\ b # 0 /\ file[b].page = Readable
                  /\ restorer[r].to = "snapshot" \/ at[restorer[r].to] = b
<1>1. RestoreInv /\ RestoreInv' /\ LogInv /\ AllSeen /\ BackupInv /\ [Next]_vars =>
        BackupInv'
  BY BackupStep
<1>2. RestoreInv /\ LogInv /\ AllSeen /\ [Next]_vars => AllSeen'
  BY SeenStep
<1>3. RestoreInv /\ BackupInv => [Held]_vars
  <2> SUFFICES ASSUME RestoreInv, BackupInv, NEW r \in Restorers, Replaces(r),
                      ~restorer[r].skip
               PROVE  /\ restorer[r].bak # 0
                      /\ file[restorer[r].bak].page = Readable
                      /\ restorer[r].to = "snapshot"
                           \/ at[restorer[r].to] = restorer[r].bak
    OBVIOUS
  <2>1. restorer[r].pc = "ready" /\ restorer[r].exists
    BY DEF Replaces
  <2> QED
    BY <2>1 DEF BackupInv, BackupOK, GoodCopy, Whole
<1> QED
  BY <1>1, <1>2, <1>3, BackupInvInit, SeenInit, RestoreInvariant, LogInvariant, PTL
  DEF Spec, BackupHoldsReplaced
=============================================================================
