--------------------------- MODULE Workspace_proofs ---------------------------
(***************************************************************************)
(* Theorems of Workspace, for any number of processes of any builds: a     *)
(* handle that serves card calls has every table its build knows, each     *)
(* migration is applied once and in order, and Init leaves alone what was  *)
(* there before it looked.                                                 *)
(***************************************************************************)
EXTENDS Workspace, TLAPS

\* A process past opening has a file.
HasFile ==
  \A p \in Proc : phase[p] \notin {"out", "init_stat"} => fd[p] \in File

\* A process that migrates is not ahead of the file, though it may be behind.
NotAhead ==
  \A p \in Proc :
    phase[p] \in {"init_run", "upgrade_run"} => seen[p] <= version[fd[p]]

\* The answer of Open, which a handle keeps while it upgrades and after it
\* failed to, stays true because no version goes back.
NotTooOld ==
  \A p \in Proc :
    phase[p] \in {"open", "upgrade_run"} /\ ~tooOld[p] =>
      version[fd[p]] >= Build[p]

WorkspaceInv == TypeOK /\ HasFile /\ NotAhead /\ NotTooOld

\* What is at the path while an Init runs came there after it looked, and so
\* did what it has open.
LooksFirst ==
  \A p \in Proc :
    phase[p] \in InitPhase =>
      /\ since[p] <= created
      /\ path # None => path > since[p]
      /\ phase[p] # "init_stat" => fd[p] > since[p]

\* The types of the constants.
LEMMA BuildType == \A p \in Proc : Build[p] \in 1 .. MaxVersion
  BY BuildAssumption

\* Nothing is at the path, or a file.
LEMMA FileNumber ==
  /\ None \notin File
  /\ \A n \in Nat : n < MaxFile => n + 1 \in File
  BY NoneAssumption, MaxFileAssumption DEF File

-----------------------------------------------------------------------------
\* No step writes a value of the wrong type.
LEMMA StepTypes ==
  ASSUME WorkspaceInv, [Next]_vars
  PROVE  TypeOK'
<1> USE DEF WorkspaceInv, TypeOK
<1>1. CASE UNCHANGED vars
  BY <1>1 DEF vars, disk
<1>9. ASSUME NEW p \in Proc, NEW ph, NEW res, Goto(p, ph, res)
      PROVE  since' \in [Proc -> 0 .. MaxFile]
  <2>1. 0 \in 0 .. MaxFile
    BY MaxFileAssumption
  <2> QED
    BY <1>9, <2>1 DEF Goto
<1>2. ASSUME NEW p \in Proc,
             InitStat(p) \/ InitOpenFail(p) \/ InitFail(p) \/ OpenRefused(p)
               \/ UpgradeFail(p) \/ UpgradeDone(p)
      PROVE  TypeOK'
  <2>1. since' \in [Proc -> 0 .. MaxFile]
    BY <1>2, <1>9 DEF InitStat, InitOpenFail, InitFail, OpenRefused, UpgradeFail,
                      UpgradeDone
  <2> QED
    BY <1>2, <2>1 DEF InitStat, InitOpenFail, InitFail, OpenRefused, UpgradeFail,
                      UpgradeDone, Goto, Phase, Result, disk
<1>3. ASSUME NEW p \in Proc, InitOpen(p)
      PROVE  TypeOK'
  <2>1. path' \in File \cup {None} /\ created' \in 0 .. MaxFile
    BY <1>3, MaxFileAssumption DEF InitOpen, File
  <2>2. since' \in [Proc -> 0 .. MaxFile]
    BY <1>3, <1>9 DEF InitOpen
  <2> QED
    BY <1>3, <2>1, <2>2 DEF InitOpen, Goto, Phase, Result
<1>4. ASSUME NEW p \in Proc, InitRead(p) \/ Upgrade(p)
      PROVE  TypeOK'
  <2>1. version[fd[p]] \in 0 .. MaxVersion
    BY <1>4 DEF InitRead, Upgrade, HasFile
  <2>2. since' \in [Proc -> 0 .. MaxFile]
    BY <1>4, <1>9 DEF InitRead, Upgrade
  <2> QED
    BY <1>4, <2>1, <2>2 DEF InitRead, Upgrade, Goto, Phase, Result, disk
<1>5. ASSUME NEW p \in Proc, Migrate(p)
      PROVE  TypeOK'
  <2>1. fd[p] \in File /\ seen[p] + 1 \in 0 .. MaxVersion
    <3>1. /\ phase[p] \in {"init_run", "upgrade_run"} /\ seen[p] < Build[p]
          /\ seen[p] \in 0 .. MaxVersion
      BY <1>5 DEF Migrate, Migrating
    <3>2. MaxVersion \in Nat /\ Build[p] \in 1 .. MaxVersion
      BY BuildAssumption
    <3> QED
      BY <3>1, <3>2 DEF HasFile
  <2>2. version[fd[p]] + 1 \in 0 .. MaxVersion
    BY <1>5, <2>1 DEF Migrate
  <2> QED
    BY <1>5, <2>1, <2>2 DEF Migrate
<1>6. ASSUME NEW p \in Proc, InitSeed(p)
      PROVE  TypeOK'
  <2>1. since' \in [Proc -> 0 .. MaxFile]
    BY <1>6, <1>9 DEF InitSeed
  <2>2. fd[p] \in File /\ prefix' \in [File -> Proc \cup {None}]
    BY <1>6 DEF InitSeed, HasFile
  <2> QED
    BY <1>6, <2>1, <2>2 DEF InitSeed, Goto, Phase, Result
<1>7. ASSUME NEW p \in Proc, OpenDB(p)
      PROVE  TypeOK'
  <2>1. path \in File /\ version[path] \in 0 .. MaxVersion
    BY <1>7 DEF OpenDB, Openable
  <2>2. since' \in [Proc -> 0 .. MaxFile]
    BY <1>7, <1>9 DEF OpenDB
  <2> QED
    BY <1>7, <2>1, <2>2 DEF OpenDB, Goto, Phase, Result, disk
<1>8. ASSUME NEW p \in Proc, InitRemove(p) \/ Close(p) \/ Crash(p)
      PROVE  TypeOK'
  <2>1. 0 \in 0 .. MaxVersion
    BY BuildAssumption
  <2>2. PICK r \in Result : Leave(p, r)
    BY <1>8 DEF InitRemove, Close, Crash, Result
  <2>3. /\ phase' \in [Proc -> Phase] /\ fd' \in [Proc -> File \cup {None}]
        /\ seen' \in [Proc -> 0 .. MaxVersion]
        /\ tooOld' \in [Proc -> BOOLEAN] /\ result' \in [Proc -> Result]
    BY <2>1, <2>2 DEF Leave, Goto, Phase
  <2>4. since' \in [Proc -> 0 .. MaxFile]
    BY <1>9, <2>2 DEF Leave
  <2> QED
    BY <1>8, <2>3, <2>4 DEF InitRemove, Close, Crash, disk
<1> QED
  BY <1>1, <1>2, <1>3, <1>4, <1>5, <1>6, <1>7, <1>8 DEF Next, Step

\* Only Migrate writes a version, and it adds one to that of one file.
LEMMA VersionsGrow ==
  ASSUME WorkspaceInv, [Next]_vars, NEW f \in File
  PROVE  /\ version[f] \in Nat
         /\ version'[f] \in {version[f], version[f] + 1}
<1>1. version[f] \in Nat
  BY DEF WorkspaceInv, TypeOK
<1>2. ASSUME NEW p \in Proc, Migrate(p)
      PROVE  version'[f] \in {version[f], version[f] + 1}
  BY <1>2 DEF Migrate, WorkspaceInv, TypeOK
<1>3. version' = version \/ \E p \in Proc : Migrate(p)
  BY DEF Next, Step, vars, disk, InitStat, InitOpen, InitOpenFail, InitRead,
         InitFail, InitRemove, InitSeed, OpenDB, OpenRefused, Close, Upgrade,
         UpgradeFail, UpgradeDone, Crash
<1> QED
  BY <1>1, <1>2, <1>3

\* The processes that take no step keep what they have and believe.
LEMMA OthersKeep ==
  ASSUME WorkspaceInv, NEW p \in Proc, NEW q \in Proc, q # p, Step(p)
  PROVE  /\ phase'[q] = phase[q] /\ fd'[q] = fd[q]
         /\ seen'[q] = seen[q] /\ tooOld'[q] = tooOld[q]
         /\ since'[q] = since[q]
<1>1. /\ phase \in [Proc -> Phase] /\ fd \in [Proc -> File \cup {None}]
      /\ seen \in [Proc -> 0 .. MaxVersion] /\ tooOld \in [Proc -> BOOLEAN]
      /\ since \in [Proc -> 0 .. MaxFile]
  BY DEF WorkspaceInv, TypeOK
<1> QED
  BY <1>1 DEF Step, disk, InitStat, InitOpen, InitOpenFail, InitRead, InitFail,
         InitRemove, InitSeed, Migrate, OpenDB, OpenRefused, Close, Upgrade,
         UpgradeFail, UpgradeDone, Crash, Goto, Leave

\* What the process that takes the step has and believes afterwards.
LEMMA StepperKnows ==
  ASSUME WorkspaceInv, NEW p \in Proc, Step(p)
  PROVE  /\ phase'[p] \notin {"out", "init_stat"} => fd'[p] \in File
         /\ phase'[p] \in {"init_run", "upgrade_run"} =>
              seen'[p] <= version'[fd'[p]]
         /\ phase'[p] \in {"open", "upgrade_run"} /\ ~tooOld'[p] =>
              version'[fd'[p]] >= Build[p]
<1> DEFINE Knows ==
      /\ phase'[p] \notin {"out", "init_stat"} => fd'[p] \in File
      /\ phase'[p] \in {"init_run", "upgrade_run"} =>
           seen'[p] <= version'[fd'[p]]
      /\ phase'[p] \in {"open", "upgrade_run"} /\ ~tooOld'[p] =>
           version'[fd'[p]] >= Build[p]
<1> USE DEF WorkspaceInv, TypeOK
<1>1. CASE InitStat(p) \/ InitOpenFail(p) \/ OpenRefused(p) \/ InitRemove(p)
             \/ Close(p) \/ Crash(p)
  <2>1. phase'[p] \in {"out", "init_stat"}
    BY <1>1 DEF InitStat, InitOpenFail, OpenRefused, InitRemove, Close, Crash,
                Goto, Leave
  <2> QED
    BY <2>1
<1>2. CASE InitOpen(p)
  <2>1. phase'[p] = "init_open" /\ fd'[p] = path'
    BY <1>2 DEF InitOpen, Goto
  <2>2. path' \in File
    BY <1>2, MaxFileAssumption DEF InitOpen, File
  <2> QED
    BY <2>1, <2>2
<1>3. CASE InitRead(p) \/ Upgrade(p)
  <2>1. /\ phase[p] \in {"init_open", "open"}
        /\ phase'[p] \in {"init_run", "upgrade_run"}
        /\ phase'[p] = "upgrade_run" => phase[p] = "open"
        /\ fd' = fd /\ tooOld' = tooOld /\ version' = version
        /\ seen'[p] = version[fd[p]]
    BY <1>3 DEF InitRead, Upgrade, Goto, disk
  <2>2. fd[p] \in File /\ version[fd[p]] \in Nat
    BY <2>1 DEF HasFile
  <2> QED
    BY <2>1, <2>2 DEF NotTooOld
<1>4. CASE InitFail(p)
  BY <1>4 DEF InitFail, Goto, HasFile
<1>5. CASE Migrate(p)
  <2>1. /\ phase' = phase /\ fd' = fd /\ tooOld' = tooOld
        /\ phase[p] \in {"init_run", "upgrade_run"} /\ version[fd[p]] = seen[p]
        /\ seen'[p] = seen[p] + 1
    BY <1>5 DEF Migrate, Migrating
  <2>2. fd[p] \in File /\ seen[p] \in Nat
    BY <2>1 DEF HasFile
  <2>3. version'[fd[p]] = seen[p] + 1
    BY <1>5, <2>1, <2>2 DEF Migrate
  <2>4. ~tooOld[p] /\ phase[p] = "upgrade_run" => version[fd[p]] >= Build[p]
    BY DEF NotTooOld
  <2>5. Build[p] \in Nat
    BY BuildType
  <2> QED
    BY <2>1, <2>2, <2>3, <2>4, <2>5
<1>6. CASE InitSeed(p) \/ UpgradeDone(p)
  <2>1. /\ phase[p] \in {"init_run", "upgrade_run"} /\ phase'[p] = "open"
        /\ seen[p] >= Build[p] /\ fd' = fd /\ version' = version
    BY <1>6 DEF InitSeed, UpgradeDone, Goto, disk
  <2>2. fd[p] \in File /\ seen[p] <= version[fd[p]]
    BY <2>1 DEF HasFile, NotAhead
  <2>3. seen[p] \in Nat /\ version[fd[p]] \in Nat /\ Build[p] \in Nat
    BY <2>2, BuildType
  <2> QED
    BY <2>1, <2>2, <2>3
<1>7. CASE UpgradeFail(p)
  <2>1. /\ phase[p] = "upgrade_run" /\ phase'[p] = "open"
        /\ fd' = fd /\ version' = version /\ tooOld' = tooOld
    BY <1>7 DEF UpgradeFail, Goto, disk
  <2> QED
    BY <2>1 DEF HasFile, NotTooOld
<1>8. CASE OpenDB(p)
  <2>1. /\ phase'[p] = "open" /\ fd'[p] = path /\ version' = version
        /\ path \in File
        /\ ~tooOld'[p] => ~(version[path] < Build[p])
    BY <1>8 DEF OpenDB, Openable, Goto, disk
  <2>2. version[path] \in Nat /\ Build[p] \in Nat
    BY <2>1, BuildType
  <2> QED
    BY <2>1, <2>2
<1> QED
  BY <1>1, <1>2, <1>3, <1>4, <1>5, <1>6, <1>7, <1>8 DEF Step

\* WorkspaceInv is inductive.
LEMMA WorkspaceStep ==
  ASSUME WorkspaceInv, [Next]_vars
  PROVE  WorkspaceInv'
<1>1. TypeOK'
  BY StepTypes
<1>2. CASE UNCHANGED vars
  BY <1>1, <1>2 DEF vars, disk, WorkspaceInv, HasFile, NotAhead, NotTooOld
<1>3. ASSUME NEW p \in Proc, NEW q \in Proc, Step(p)
      PROVE  /\ phase'[q] \notin {"out", "init_stat"} => fd'[q] \in File
             /\ phase'[q] \in {"init_run", "upgrade_run"} =>
                  seen'[q] <= version'[fd'[q]]
             /\ phase'[q] \in {"open", "upgrade_run"} /\ ~tooOld'[q] =>
                  version'[fd'[q]] >= Build[q]
  <2>1. CASE q = p
    BY <1>3, <2>1, StepperKnows
  <2>2. CASE q # p
    <3>1. /\ phase'[q] = phase[q] /\ fd'[q] = fd[q]
          /\ seen'[q] = seen[q] /\ tooOld'[q] = tooOld[q]
      BY <1>3, <2>2, OthersKeep
    <3>2. phase[q] \notin {"out", "init_stat"} => fd[q] \in File
      BY DEF WorkspaceInv, HasFile
    <3>3. fd[q] \in File =>
            /\ version[fd[q]] \in Nat
            /\ version'[fd[q]] \in {version[fd[q]], version[fd[q]] + 1}
      BY VersionsGrow
    <3>4. seen[q] \in Nat /\ Build[q] \in Nat
      BY BuildType DEF WorkspaceInv, TypeOK
    <3>5. /\ phase[q] \in {"init_run", "upgrade_run"} =>
               seen[q] <= version[fd[q]]
          /\ phase[q] \in {"open", "upgrade_run"} /\ ~tooOld[q] =>
               version[fd[q]] >= Build[q]
      BY DEF WorkspaceInv, NotAhead, NotTooOld
    <3> QED
      BY <3>1, <3>2, <3>3, <3>4, <3>5
  <2> QED
    BY <2>1, <2>2
<1> QED
  BY <1>1, <1>2, <1>3 DEF Next, Step, WorkspaceInv, HasFile, NotAhead, NotTooOld

-----------------------------------------------------------------------------
\* A file is new when it comes to the path.
LEMMA NewAtPath ==
  ASSUME WorkspaceInv, NEW p \in Proc, Step(p)
  PROVE  /\ created \in Nat /\ created' \in Nat /\ created <= created'
         /\ path' # None => path' = path \/ path' > created
<1>1. created \in 0 .. MaxFile
  BY DEF WorkspaceInv, TypeOK
<1>2. CASE InitOpen(p)
  BY <1>1, <1>2, MaxFileAssumption DEF InitOpen
<1>3. CASE ~InitOpen(p)
  <2>1. created' = created /\ (path' = path \/ path' = None)
    BY <1>3 DEF Step, disk, InitStat, InitOpenFail, InitRead, InitFail,
         InitRemove, InitSeed, Migrate, OpenDB, OpenRefused, Close, Upgrade,
         UpgradeFail, UpgradeDone, Crash
  <2> QED
    BY <1>1, <2>1, MaxFileAssumption
<1> QED
  BY <1>2, <1>3

\* What the process that takes the step looks at.
LEMMA StepperLooks ==
  ASSUME WorkspaceInv, LooksFirst, NEW p \in Proc, Step(p),
         phase'[p] \in InitPhase
  PROVE  /\ since'[p] <= created'
         /\ path' # None => path' > since'[p]
         /\ phase'[p] # "init_stat" => fd'[p] > since'[p]
<1>0. /\ created \in Nat /\ created' \in Nat /\ created <= created'
      /\ path' # None => path' = path \/ path' > created
  BY NewAtPath
<1>1. /\ phase \in [Proc -> Phase] /\ fd \in [Proc -> File \cup {None}]
      /\ since \in [Proc -> 0 .. MaxFile] /\ path \in File \cup {None}
      /\ since[p] \in Nat
  BY DEF WorkspaceInv, TypeOK
<1>2. CASE InitStat(p)
  <2>1. path = None /\ path' = path /\ phase'[p] = "init_stat"
    BY <1>1, <1>2 DEF InitStat, Goto, disk, InitPhase
  <2>2. since'[p] = created /\ created' = created
    BY <1>1, <1>2, <2>1 DEF InitStat, Goto, disk, InitPhase
  <2> QED
    BY <1>0, <2>1, <2>2
<1>3. CASE ~InitStat(p)
  <2>1. phase[p] \in InitPhase /\ since'[p] = since[p]
    BY <1>1, <1>3
    DEF Step, InitPhase, disk, InitOpen, InitOpenFail, InitRead, InitFail,
        InitRemove, InitSeed, Migrate, OpenDB, OpenRefused, Close, Upgrade,
        UpgradeFail, UpgradeDone, Crash, Goto, Leave
  <2>2. /\ since[p] <= created
        /\ path # None => path > since[p]
        /\ phase[p] # "init_stat" => fd[p] > since[p]
    BY <2>1 DEF LooksFirst
  <2>3. path' # None => path' > since'[p]
    <3>1. ASSUME path' # None, path' > created PROVE path' > since[p]
      <4>1. path' \in Nat
        BY <1>0, <3>1, StepTypes DEF Next, TypeOK, File
      <4> QED
        BY <1>0, <1>1, <2>2, <3>1, <4>1
    <3> QED
      BY <1>0, <2>1, <2>2, <3>1
  <2>4. CASE InitOpen(p)
    <3>1. fd'[p] = path' /\ path' # None
      BY <1>1, <2>4, FileNumber, NoneAssumption DEF InitOpen, WorkspaceInv, TypeOK
    <3> QED
      BY <1>0, <1>1, <2>1, <2>2, <2>3, <3>1
  <2>5. CASE ~InitOpen(p)
    <3>1. /\ phase'[p] # "init_stat" => phase[p] # "init_stat"
          /\ fd'[p] = fd[p]
      BY <1>1, <1>3, <2>5
      DEF Step, InitPhase, disk, InitOpenFail, InitRead, InitFail,
          InitRemove, InitSeed, Migrate, OpenDB, OpenRefused, Close, Upgrade,
          UpgradeFail, UpgradeDone, Crash, Goto, Leave
    <3> QED
      BY <1>0, <1>1, <2>1, <2>2, <2>3, <3>1
  <2> QED
    BY <2>4, <2>5
<1> QED
  BY <1>2, <1>3

LEMMA LooksStep ==
  ASSUME WorkspaceInv, LooksFirst, [Next]_vars
  PROVE  LooksFirst'
<1>1. CASE UNCHANGED vars
  BY <1>1 DEF vars, disk, LooksFirst
<1>2. ASSUME NEW p \in Proc, Step(p), NEW q \in Proc, phase'[q] \in InitPhase
      PROVE  /\ since'[q] <= created'
             /\ path' # None => path' > since'[q]
             /\ phase'[q] # "init_stat" => fd'[q] > since'[q]
  <2>1. CASE q = p
    BY <1>2, <2>1, StepperLooks
  <2>2. CASE q # p
    <3>1. phase'[q] = phase[q] /\ fd'[q] = fd[q] /\ since'[q] = since[q]
      BY <1>2, <2>2, OthersKeep
    <3>2. /\ since[q] <= created
          /\ path # None => path > since[q]
          /\ phase[q] # "init_stat" => fd[q] > since[q]
      BY <1>2, <3>1 DEF LooksFirst
    <3>3. /\ created \in Nat /\ created' \in Nat /\ created <= created'
          /\ path' # None => path' = path \/ path' > created
      BY <1>2, NewAtPath
    <3>4. since[q] \in Nat /\ path' \in Nat \cup {None}
      BY StepTypes DEF WorkspaceInv, TypeOK, File
    <3>5. path' # None => path' > since[q]
      BY <3>2, <3>3, <3>4
    <3> QED
      BY <3>1, <3>2, <3>3, <3>4, <3>5
  <2> QED
    BY <2>1, <2>2
<1> QED
  BY <1>1, <1>2 DEF Next, LooksFirst

-----------------------------------------------------------------------------
(* The theorems.                                                           *)

\* WorkspaceInv holds of every reachable state.
THEOREM WorkspaceInvariant == Spec => []WorkspaceInv
<1>1. Init => WorkspaceInv
  BY MaxFileAssumption, BuildAssumption
  DEF Init, WorkspaceInv, TypeOK, HasFile, NotAhead, NotTooOld, Phase, Result,
      File
<1> QED
  BY <1>1, WorkspaceStep, PTL DEF Spec

\* A handle that serves card calls has every table its build knows.
THEOREM ServesMigrated == Spec => []ReadyMeansMigrated
<1>1. WorkspaceInv => ReadyMeansMigrated
  BY DEF WorkspaceInv, NotTooOld, ReadyMeansMigrated, Ready
<1> QED
  BY <1>1, WorkspaceInvariant, PTL

\* No version is skipped, repeated or taken back.
THEOREM MigratesInOrder == Spec => MigrationsInOrder
<1>1. WorkspaceInv /\ [Next]_vars =>
        [\A f \in File : version'[f] \in {version[f], version[f] + 1}]_vars
  BY VersionsGrow
<1> QED
  BY <1>1, WorkspaceInvariant, PTL DEF Spec, MigrationsInOrder

\* LooksFirst holds of every reachable state.
LEMMA AlwaysLooksFirst == Spec => []LooksFirst
<1>1. Init => LooksFirst
  BY DEF Init, LooksFirst, InitPhase
<1>2. WorkspaceInv /\ LooksFirst /\ [Next]_vars => LooksFirst'
  BY LooksStep
<1> QED
  BY <1>1, <1>2, WorkspaceInvariant, PTL DEF Spec

\* A step of an Init leaves alone whatever was created before it looked.
LEMMA InitSpares ==
  ASSUME WorkspaceInv, LooksFirst, NEW p \in Proc, Step(p),
         phase[p] \in InitPhase, NEW f \in 1 .. since[p]
  PROVE  /\ version'[f] = version[f] /\ prefix'[f] = prefix[f]
         /\ path = f => path' = f
<1>1. /\ version \in [File -> 0 .. MaxVersion]
      /\ prefix \in [File -> Proc \cup {None}]
      /\ path \in File \cup {None} /\ since[p] \in Nat
      /\ f \in Nat /\ f <= since[p] /\ f \in File
  BY MaxFileAssumption DEF WorkspaceInv, TypeOK, File
<1>2. /\ path # None => path > since[p]
      /\ phase[p] # "init_stat" => fd[p] > since[p]
  BY DEF LooksFirst
<1>3. path # f
  <2>1. f # None
    BY <1>1, NoneAssumption
  <2> QED
    BY <1>1, <1>2, <2>1 DEF File
<1>4. CASE Migrate(p) \/ InitSeed(p)
  <2>1. phase[p] # "init_stat"
    BY <1>4 DEF Migrate, Migrating, InitSeed
  <2>2. fd[p] \in Nat /\ fd[p] # f
    <3>1. fd[p] \in Nat
      BY <2>1 DEF WorkspaceInv, HasFile, InitPhase, File
    <3> QED
      BY <1>1, <1>2, <2>1, <3>1
  <2>3. version'[f] = version[f]
    BY <1>1, <1>4, <2>2 DEF Migrate, InitSeed
  <2>4. prefix'[f] = prefix[f]
    BY <1>1, <1>4, <2>2 DEF Migrate, InitSeed
  <2> QED
    BY <1>3, <2>3, <2>4
<1>5. CASE ~(Migrate(p) \/ InitSeed(p))
  <2>1. version' = version /\ prefix' = prefix
    BY <1>5 DEF Step, disk, InitStat, InitOpen, InitOpenFail, InitRead,
         InitFail, InitRemove, OpenDB, OpenRefused, Close, Upgrade,
         UpgradeFail, UpgradeDone, Crash
  <2> QED
    BY <1>3, <2>1
<1> QED
  BY <1>4, <1>5

\* "If a file already exists there, Init returns ErrAlreadyExists without
\* modifying it", however it races with other processes: no step of an Init,
\* its clean-up included, touches a file created before it looked.
THEOREM OlderIsSpared == Spec => InitSparesOlder
<1>1. ASSUME WorkspaceInv, LooksFirst, [Next]_vars, NEW p \in Proc,
             phase[p] \in InitPhase,
             <<phase[p], seen[p]>>' # <<phase[p], seen[p]>>,
             NEW f \in 1 .. since[p]
      PROVE  /\ version'[f] = version[f] /\ prefix'[f] = prefix[f]
             /\ path = f => path' = f
  <2>1. ~UNCHANGED vars
    BY <1>1 DEF vars
  <2>2. PICK q \in Proc : Step(q)
    BY <1>1, <2>1 DEF Next
  <2>3. q = p
    BY <1>1, <2>2, OthersKeep
  <2> QED
    BY <1>1, <2>2, <2>3, InitSpares
<1>2. WorkspaceInv /\ LooksFirst /\ [Next]_vars =>
        [\A p \in Proc :
           phase[p] \in InitPhase
             /\ <<phase[p], seen[p]>>' # <<phase[p], seen[p]>> =>
           \A f \in 1 .. since[p] :
             /\ version'[f] = version[f] /\ prefix'[f] = prefix[f]
             /\ path = f => path' = f]_vars
  BY <1>1
<1> QED
  BY <1>2, WorkspaceInvariant, AlwaysLooksFirst, PTL DEF Spec, InitSparesOlder
=============================================================================
