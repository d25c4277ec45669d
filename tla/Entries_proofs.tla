--------------------------- MODULE Entries_proofs ---------------------------
(***************************************************************************)
(* Theorems about Entries, for any processes, keys and contents, and about *)
(* Prime, which reads what they keep, for any designations and any budget. *)
(***************************************************************************)
EXTENDS Prime, TLAPS

(* What a client has read is of a life of the key that is or was, at a      *)
(* revision not beyond the one there is now.  The second half is what makes *)
(* RevisionIdentifies inductive: a revision that was passed does not return *)
(* in the same life.                                                        *)
ReadBefore ==
  \A c \in Client :
    LET k == client[c].key
        seen == client[c].seen
    IN seen # NoRow =>
         /\ client[c].life <= lives[k]
         /\ Live(k) /\ client[c].life = lives[k] =>
              /\ seen.revision <= runes[k].revision
              /\ seen.revision = runes[k].revision => runes[k] = seen

EntriesInv == TypeOK /\ ReadBefore /\ RuneTrailCurrent /\ MemoryTrailCurrent

-----------------------------------------------------------------------------
LEMMA InitInv == Init => EntriesInv
<1> SUFFICES ASSUME Init PROVE EntriesInv
  OBVIOUS
<1> USE EntriesAssumption DEF Init
<1>1. TypeOK
  <2>1. runes \in [DOMAIN runes -> Rune] /\ DOMAIN runes = {}
    OBVIOUS
  <2>2. memories \in [DOMAIN memories -> Memory] /\ DOMAIN memories = {}
    OBVIOUS
  <2>3. runeEvent \in [RuneKey -> [action : RuneAction \union {"none"},
                                   revision : 0..MaxRevision + 1]]
    BY DEF None
  <2>4. client \in [Client -> [pc : {"idle", "preflight", "call"},
                      key : RuneKey, force : BOOLEAN,
                      seen : Rune \union {NoRow}, life : 0..MaxLives]]
    <3> SUFFICES ASSUME NEW c \in Client
                 PROVE client[c] \in [pc : {"idle", "preflight", "call"},
                         key : RuneKey, force : BOOLEAN,
                         seen : Rune \union {NoRow}, life : 0..MaxLives]
      OBVIOUS
    <3>1. PICK k \in RuneKey : client[c] = [pc |-> "idle", key |-> k,
                                  force |-> FALSE, seen |-> NoRow, life |-> 0]
      OBVIOUS
    <3> QED
      BY <3>1
  <2> QED
    BY <2>1, <2>2, <2>3, <2>4 DEF TypeOK
<1>2. ReadBefore
  BY DEF ReadBefore
<1>3. RuneTrailCurrent
  BY DEF RuneTrailCurrent, Live, None
<1>4. MemoryTrailCurrent
  BY DEF MemoryTrailCurrent, None
<1> QED
  BY <1>1, <1>2, <1>3, <1>4 DEF EntriesInv


-----------------------------------------------------------------------------
(* What the steps of a client do to its own state. *)

ClientType == [pc : {"idle", "preflight", "call"}, key : RuneKey,
               force : BOOLEAN, seen : Rune \union {NoRow}, life : 0..MaxLives]

LEMMA DoneType ==
  ASSUME client \in [Client -> ClientType], NEW c \in Client, Done(c)
  PROVE  client' \in [Client -> ClientType]
<1>1. [client[c] EXCEPT !.pc = "idle"] \in ClientType
  BY DEF ClientType
<1> QED
  BY <1>1 DEF Done

LEMMA GetType ==
  ASSUME client \in [Client -> ClientType], NEW c \in Client,
         NEW k \in RuneKey, GetRune(c, k),
         runes[k] \in Rune, lives[k] \in 0..MaxLives
  PROVE  client' \in [Client -> ClientType]
<1> DEFINE r == [client[c] EXCEPT !.key = k, !.seen = runes[k],
                                  !.life = lives[k]]
<1>1. r \in ClientType
  BY DEF ClientType
<1>2. client' = [client EXCEPT ![c] = r]
  BY DEF GetRune
<1> QED
  BY <1>1, <1>2

LEMMA BeginType ==
  ASSUME client \in [Client -> ClientType], NEW c \in Client,
         NEW k \in RuneKey, NEW force \in BOOLEAN,
         NEW pc \in {"preflight", "call"}, Begin(c, k, force, pc)
  PROVE  client' \in [Client -> ClientType]
<1> DEFINE seen == IF k = client[c].key THEN client[c].seen ELSE NoRow
           r == [client[c] EXCEPT !.pc = pc, !.key = k, !.force = force,
                                  !.seen = seen]
<1>1. seen \in Rune \union {NoRow}
  BY DEF ClientType
<1>2. r \in ClientType
  BY <1>1 DEF ClientType
<1>3. client' = [client EXCEPT ![c] = r]
  BY DEF Begin
<1> QED
  BY <1>2, <1>3

LEMMA PreflightType ==
  ASSUME client \in [Client -> ClientType], NEW c \in Client, Preflight(c)
  PROVE  client' \in [Client -> ClientType]
<1>1. PICK pc \in {"idle", "call"} : client' = [client EXCEPT ![c].pc = pc]
  BY DEF Preflight
<1>2. [client[c] EXCEPT !.pc = pc] \in ClientType
  BY DEF ClientType
<1> QED
  BY <1>1, <1>2

LEMMA TypeStep == TypeOK /\ [Next]_vars => TypeOK'
<1> SUFFICES ASSUME TypeOK, [Next]_vars PROVE TypeOK'
  OBVIOUS
<1> USE EntriesAssumption DEF TypeOK
<1>0. client \in [Client -> ClientType]
  BY DEF ClientType
<1>1. ASSUME NEW c \in Client, NEW k \in RuneKey, GetRune(c, k) PROVE TypeOK'
  <2>1. runes[k] \in Rune /\ lives[k] \in 0..MaxLives
    BY <1>1 DEF GetRune, Live
  <2>2. client' \in [Client -> ClientType]
    BY <1>0, <1>1, <2>1, GetType
  <2> QED
    BY <1>1, <2>2 DEF GetRune, runeVars, memoryVars, ClientType
<1>2. ASSUME NEW c \in Client, NEW k \in RuneKey, NEW force \in BOOLEAN,
             NEW pc \in {"preflight", "call"}, Begin(c, k, force, pc)
      PROVE TypeOK'
  <2>1. client' \in [Client -> ClientType]
    BY <1>0, <1>2, BeginType
  <2> QED
    BY <1>2, <2>1 DEF Begin, runeVars, memoryVars, ClientType
<1>3. ASSUME NEW c \in Client, Preflight(c) PROVE TypeOK'
  <2>1. client' \in [Client -> ClientType]
    BY <1>0, <1>3, PreflightType
  <2> QED
    BY <1>3, <2>1 DEF Preflight, runeVars, memoryVars, ClientType
<1>4. ASSUME NEW c \in Client, CreateRune(c) PROVE TypeOK'
  <2> DEFINE k == client[c].key
  <2>0. k \in RuneKey
    BY <1>0 DEF ClientType
  <2>2. DOMAIN runes' \subseteq RuneKey /\ runes' \in [DOMAIN runes' -> Rune]
    BY <1>4, <2>0 DEF CreateRune, NewRune, Rune
  <2>3. runeEvent' \in [RuneKey -> [action : RuneAction \union {"none"},
                                    revision : 0..MaxRevision + 1]]
    BY <1>4, <2>0 DEF CreateRune, RuneLog, RuneAction
  <2>4. lives' \in [RuneKey -> 0..MaxLives]
    BY <1>4, <2>0 DEF CreateRune
  <2>5. client' \in [Client -> ClientType]
    BY <1>0, <1>4, DoneType DEF CreateRune
  <2> QED
    BY <1>4, <2>2, <2>3, <2>4, <2>5 DEF CreateRune, memoryVars, ClientType
<1>5. ASSUME NEW c \in Client, NEW expects \in BOOLEAN, UpdateRune(c, expects)
      PROVE TypeOK'
  <2> DEFINE k == client[c].key
  <2>0. k \in RuneKey
    BY <1>0 DEF ClientType
  <2>1. runes[k] \in Rune
    BY <1>5 DEF UpdateRune, Live
  <2>2. DOMAIN runes' \subseteq RuneKey /\ runes' \in [DOMAIN runes' -> Rune]
    BY <1>5, <2>0, <2>1 DEF UpdateRune, Live, Rune
  <2>3. runeEvent' \in [RuneKey -> [action : RuneAction \union {"none"},
                                    revision : 0..MaxRevision + 1]]
    BY <1>5, <2>0, <2>1 DEF UpdateRune, RuneLog, RuneAction, Rune
  <2>4. client' \in [Client -> ClientType]
    BY <1>0, <1>5, DoneType DEF UpdateRune
  <2> QED
    BY <1>5, <2>2, <2>3, <2>4 DEF UpdateRune, memoryVars, ClientType
<1>6. ASSUME NEW c \in Client, NEW enabled \in BOOLEAN,
             SetRuneEnabled(c, enabled)
      PROVE TypeOK'
  <2> DEFINE k == client[c].key
  <2>0. k \in RuneKey
    BY <1>0 DEF ClientType
  <2>1. runes[k] \in Rune
    BY <1>6 DEF SetRuneEnabled, Live
  <2>2. DOMAIN runes' \subseteq RuneKey /\ runes' \in [DOMAIN runes' -> Rune]
    BY <1>6, <2>0, <2>1, SMTT(30) DEF SetRuneEnabled, Live, Rune
  <2>3. runeEvent' \in [RuneKey -> [action : RuneAction \union {"none"},
                                    revision : 0..MaxRevision + 1]]
    BY <1>6, <2>0, <2>1 DEF SetRuneEnabled, RuneLog, RuneAction, Rune
  <2>4. client' \in [Client -> ClientType]
    BY <1>0, <1>6, DoneType DEF SetRuneEnabled
  <2> QED
    BY <1>6, <2>2, <2>3, <2>4 DEF SetRuneEnabled, memoryVars, ClientType
<1>7. ASSUME NEW c \in Client, RemoveRune(c) PROVE TypeOK'
  <2> DEFINE k == client[c].key
  <2>0. k \in RuneKey
    BY <1>0 DEF ClientType
  <2>1. runes[k] \in Rune
    BY <1>7 DEF RemoveRune, Live
  <2>2. DOMAIN runes' \subseteq RuneKey /\ runes' \in [DOMAIN runes' -> Rune]
    BY <1>7 DEF RemoveRune
  <2>3. runeEvent' \in [RuneKey -> [action : RuneAction \union {"none"},
                                    revision : 0..MaxRevision + 1]]
    BY <1>7, <2>0, <2>1 DEF RemoveRune, RuneLog, RuneAction, Rune
  <2>4. client' \in [Client -> ClientType]
    BY <1>0, <1>7, DoneType DEF RemoveRune
  <2> QED
    BY <1>7, <2>2, <2>3, <2>4 DEF RemoveRune, memoryVars, ClientType
<1>8. ASSUME NEW c \in Client, Refused(c) PROVE TypeOK'
  <2>1. client' \in [Client -> ClientType]
    BY <1>0, <1>8, DoneType DEF Refused
  <2> QED
    BY <1>8, <2>1 DEF Refused, runeVars, memoryVars, ClientType
<1>9. ASSUME NEW k \in MemoryKey, NEW b \in Body,
             CreateMemory(k, b) \/ UpdateMemory(k, b)
      PROVE TypeOK'
  <2>1. DOMAIN memories' \subseteq MemoryKey
        /\ memories' \in [DOMAIN memories' -> Memory]
    <3>1. CASE CreateMemory(k, b)
      BY <3>1 DEF CreateMemory, Memory
    <3>2. CASE UpdateMemory(k, b)
      <4>1. memories[k] \in Memory
        BY <3>2 DEF UpdateMemory
      <4>2. [revision |-> memories[k].revision + 1, body |-> b] \in Memory
        BY <3>2, <4>1 DEF UpdateMemory, Memory
      <4> QED
        BY <3>2, <4>2 DEF UpdateMemory
    <3> QED
      BY <1>9, <3>1, <3>2
  <2>2. memoryEvent' \in [MemoryKey -> MemoryEvent \union {None}]
    BY <1>9 DEF CreateMemory, UpdateMemory, MemoryLog, Memory, MemoryEvent,
                MemoryAction
  <2> QED
    BY <1>9, <2>1, <2>2 DEF CreateMemory, UpdateMemory, runeVars
<1>10. ASSUME NEW k \in MemoryKey, Forget(k) PROVE TypeOK'
  <2>1. memories[k] \in Memory
    BY <1>10 DEF Forget
  <2>2. DOMAIN memories' \subseteq MemoryKey
        /\ memories' \in [DOMAIN memories' -> Memory]
    BY <1>10 DEF Forget
  <2>3. memoryEvent' \in [MemoryKey -> MemoryEvent \union {None}]
    BY <1>10, <2>1 DEF Forget, Memory, MemoryEvent
  <2> QED
    BY <1>10, <2>2, <2>3 DEF Forget, runeVars
<1>11. CASE UNCHANGED vars
  BY <1>11 DEF vars
<1> QED
  BY <1>1, <1>2, <1>3, <1>4, <1>5, <1>6, <1>7, <1>8, <1>9, <1>10, <1>11
  DEF Next, ClientStep, MemoryStep

-----------------------------------------------------------------------------
(* The steps on runes leave the memories and what clients have read alone.  *)

RuneStep(c) ==
  \/ CreateRune(c)
  \/ \E expects \in BOOLEAN : UpdateRune(c, expects)
  \/ \E enabled \in BOOLEAN : SetRuneEnabled(c, enabled)
  \/ RemoveRune(c)

LEMMA DoneKeeps ==
  ASSUME TypeOK, NEW c \in Client, Done(c), NEW d \in Client
  PROVE  /\ client'[d].key = client[d].key
         /\ client'[d].seen = client[d].seen
         /\ client'[d].life = client[d].life
BY DEF Done, TypeOK

(* A life only ends, or goes on at a higher revision or unchanged.          *)
LEMMA RevisionsRise ==
  ASSUME TypeOK, NEW c \in Client, RuneStep(c), NEW k \in RuneKey
  PROVE  /\ lives[k] <= lives'[k]
         /\ Live(k)' /\ lives'[k] = lives[k] =>
              /\ Live(k)
              /\ runes'[k] = runes[k] \/ runes'[k].revision = runes[k].revision + 1
<1> DEFINE j == client[c].key
<1> USE DEF TypeOK, Live
<1>1. lives \in [RuneKey -> Nat] /\ j \in RuneKey
  BY EntriesAssumption
<1>2. CASE CreateRune(c)
  BY <1>1, <1>2 DEF CreateRune
<1>3. ASSUME NEW expects \in BOOLEAN, UpdateRune(c, expects)
      PROVE  /\ lives' = lives /\ DOMAIN runes' = DOMAIN runes
             /\ \A x \in DOMAIN runes :
                  runes'[x] = runes[x] \/ runes'[x].revision = runes[x].revision + 1
  BY <1>1, <1>3 DEF UpdateRune
<1>4. ASSUME NEW enabled \in BOOLEAN, SetRuneEnabled(c, enabled)
      PROVE  /\ lives' = lives /\ DOMAIN runes' = DOMAIN runes
             /\ \A x \in DOMAIN runes :
                  runes'[x] = runes[x] \/ runes'[x].revision = runes[x].revision + 1
  BY <1>1, <1>4 DEF SetRuneEnabled, Rune
<1>5. CASE RemoveRune(c)
  BY <1>1, <1>5 DEF RemoveRune
<1> QED
  BY <1>1, <1>2, <1>3, <1>4, <1>5 DEF RuneStep

(* ReadBefore outlives a change of the runes.                               *)
LEMMA ReadOutlives ==
  ASSUME TypeOK, ReadBefore, NEW c \in Client, RuneStep(c), Done(c)
  PROVE  ReadBefore'
<1> SUFFICES ASSUME NEW d \in Client, client[d].seen # NoRow
             PROVE  LET k == client[d].key
                        seen == client[d].seen
                    IN /\ client[d].life <= lives'[k]
                       /\ k \in DOMAIN runes' /\ client[d].life = lives'[k] =>
                            /\ seen.revision <= runes'[k].revision
                            /\ seen.revision = runes'[k].revision => runes'[k] = seen
  BY DoneKeeps DEF ReadBefore, Live
<1> DEFINE k == client[d].key
           seen == client[d].seen
<1>1. k \in RuneKey /\ seen \in Rune /\ client[d].life \in Nat
  BY EntriesAssumption DEF TypeOK
<1>2. /\ lives[k] \in Nat /\ lives'[k] \in Nat
      /\ Live(k) => runes[k] \in Rune
  <2>1. TypeOK'
    BY TypeStep DEF RuneStep, Next, ClientStep
  <2> QED
    BY <1>1, <2>1, EntriesAssumption DEF TypeOK, Live
<1>3. /\ client[d].life <= lives[k]
      /\ Live(k) /\ client[d].life = lives[k] =>
           /\ seen.revision <= runes[k].revision
           /\ seen.revision = runes[k].revision => runes[k] = seen
  BY DEF ReadBefore
<1>4. client[d].life <= lives'[k]
  BY <1>1, <1>2, <1>3, RevisionsRise
<1>5. ASSUME k \in DOMAIN runes', client[d].life = lives'[k]
      PROVE  /\ seen.revision <= runes'[k].revision
             /\ seen.revision = runes'[k].revision => runes'[k] = seen
  <2>1. lives'[k] = lives[k]
    BY <1>1, <1>2, <1>3, <1>5, RevisionsRise
  <2>2. /\ Live(k)
        /\ runes'[k] = runes[k] \/ runes'[k].revision = runes[k].revision + 1
    BY <1>1, <1>5, <2>1, RevisionsRise DEF Live
  <2>3. /\ seen.revision <= runes[k].revision
        /\ seen.revision = runes[k].revision => runes[k] = seen
    BY <1>3, <1>5, <2>1, <2>2
  <2>4. runes[k].revision \in Nat /\ seen.revision \in Nat
    BY <1>1, <1>2, <2>2, EntriesAssumption DEF Rune
  <2> QED
    BY <2>2, <2>3, <2>4
<1> QED
  BY <1>4, <1>5

LEMMA ReadStep == TypeOK /\ ReadBefore /\ [Next]_vars => ReadBefore'
<1> SUFFICES ASSUME TypeOK, ReadBefore, [Next]_vars PROVE ReadBefore'
  OBVIOUS
<1>1. ASSUME NEW c \in Client, NEW k \in RuneKey, GetRune(c, k)
      PROVE  ReadBefore'
  <2> SUFFICES ASSUME NEW d \in Client, client'[d].seen # NoRow
               PROVE  LET x == client'[d].key
                          seen == client'[d].seen
                      IN /\ client'[d].life <= lives[x]
                         /\ Live(x) /\ client'[d].life = lives[x] =>
                              /\ seen.revision <= runes[x].revision
                              /\ seen.revision = runes[x].revision => runes[x] = seen
    BY <1>1 DEF ReadBefore, Live, GetRune, runeVars
  <2>1. CASE d = c
    <3>1. client'[d].key = k /\ client'[d].seen = runes[k]
          /\ client'[d].life = lives[k]
      BY <1>1, <2>1 DEF GetRune, TypeOK
    <3>2. runes[k].revision \in Nat /\ lives[k] \in Nat
      BY <1>1, EntriesAssumption DEF GetRune, TypeOK, Live, Rune
    <3> QED
      BY <3>1, <3>2
  <2>2. CASE d # c
    <3>1. client'[d] = client[d]
      BY <1>1, <2>2 DEF GetRune, TypeOK
    <3> QED
      BY <3>1 DEF ReadBefore
  <2> QED
    BY <2>1, <2>2
<1>2. ASSUME NEW c \in Client, NEW k \in RuneKey, NEW force \in BOOLEAN,
             NEW pc \in {"preflight", "call"}, Begin(c, k, force, pc)
      PROVE  ReadBefore'
  <2>1. \A d \in Client :
          client'[d].seen # NoRow =>
            /\ client'[d].key = client[d].key
            /\ client'[d].seen = client[d].seen
            /\ client'[d].life = client[d].life
    BY <1>2 DEF Begin, TypeOK
  <2> QED
    BY <1>2, <2>1 DEF ReadBefore, Live, Begin, runeVars
<1>3. ASSUME NEW c \in Client, Preflight(c) PROVE ReadBefore'
  <2>1. \A d \in Client : /\ client'[d].key = client[d].key
                          /\ client'[d].seen = client[d].seen
                          /\ client'[d].life = client[d].life
    BY <1>3 DEF Preflight, TypeOK
  <2> QED
    BY <1>3, <2>1 DEF ReadBefore, Live, Preflight, runeVars
<1>4. ASSUME NEW c \in Client, RuneStep(c) PROVE ReadBefore'
  BY <1>4, ReadOutlives
  DEF RuneStep, CreateRune, UpdateRune, SetRuneEnabled, RemoveRune
<1>5. ASSUME NEW c \in Client, Refused(c) PROVE ReadBefore'
  <2>1. \A d \in Client : /\ client'[d].key = client[d].key
                          /\ client'[d].seen = client[d].seen
                          /\ client'[d].life = client[d].life
    BY <1>5, DoneKeeps DEF Refused
  <2> QED
    BY <1>5, <2>1 DEF ReadBefore, Live, Refused, runeVars
<1>6. ASSUME NEW k \in MemoryKey, MemoryStep(k) PROVE ReadBefore'
  BY <1>6 DEF MemoryStep, CreateMemory, UpdateMemory, Forget, ReadBefore, Live,
              runeVars
<1>7. CASE UNCHANGED vars
  BY <1>7 DEF vars, ReadBefore, Live
<1> QED
  BY <1>1, <1>2, <1>3, <1>4, <1>5, <1>6, <1>7 DEF Next, ClientStep, RuneStep

-----------------------------------------------------------------------------
LEMMA TrailStep ==
  TypeOK /\ RuneTrailCurrent /\ [Next]_vars => RuneTrailCurrent'
<1> SUFFICES ASSUME TypeOK, RuneTrailCurrent, [Next]_vars
             PROVE  RuneTrailCurrent'
  OBVIOUS
<1> USE DEF TypeOK, RuneTrailCurrent, Live
<1>0. ASSUME NEW c \in Client PROVE client[c].key \in RuneKey
  OBVIOUS
<1>1. ASSUME NEW c \in Client, CreateRune(c) PROVE RuneTrailCurrent'
  BY <1>0, <1>1 DEF CreateRune, NewRune, RuneLog
<1>2. ASSUME NEW c \in Client, NEW expects \in BOOLEAN, UpdateRune(c, expects)
      PROVE  RuneTrailCurrent'
  BY <1>0, <1>2 DEF UpdateRune, RuneLog
<1>3. ASSUME NEW c \in Client, NEW enabled \in BOOLEAN,
             SetRuneEnabled(c, enabled)
      PROVE  RuneTrailCurrent'
  <2> DEFINE k == client[c].key
  <2>1. runes[k] \in Rune
    BY <1>3 DEF SetRuneEnabled
  <2>2. /\ DOMAIN runes' = DOMAIN runes
        /\ runes'[k].revision = runes[k].revision + 1
        /\ runes'[k].enabled = enabled
        /\ \A x \in DOMAIN runes \ {k} : runes'[x] = runes[x]
    BY <1>3, <2>1 DEF SetRuneEnabled, Rune
  <2>3. /\ runeEvent'[k].revision = runes[k].revision + 1
        /\ runeEvent'[k].action = IF enabled THEN "rune.enable" ELSE "rune.disable"
        /\ \A x \in RuneKey \ {k} : runeEvent'[x] = runeEvent[x]
    BY <1>0, <1>3 DEF SetRuneEnabled, RuneLog
  <2> QED
    BY <1>3, <2>2, <2>3 DEF SetRuneEnabled
<1>4. ASSUME NEW c \in Client, RemoveRune(c) PROVE RuneTrailCurrent'
  BY <1>0, <1>4 DEF RemoveRune, RuneLog
<1>5. ASSUME UNCHANGED <<runes, runeEvent>> PROVE RuneTrailCurrent'
  BY <1>5
<1> QED
  BY <1>1, <1>2, <1>3, <1>4, <1>5, ZenonT(40)
  DEF Next, ClientStep, MemoryStep, GetRune, Begin, Preflight, Refused,
      CreateMemory, UpdateMemory, Forget, runeVars, vars

LEMMA MemoryTrailStep ==
  TypeOK /\ MemoryTrailCurrent /\ [Next]_vars => MemoryTrailCurrent'
<1> SUFFICES ASSUME TypeOK, MemoryTrailCurrent, [Next]_vars
             PROVE  MemoryTrailCurrent'
  OBVIOUS
<1> USE DEF TypeOK, MemoryTrailCurrent
<1>1. ASSUME NEW k \in MemoryKey, NEW b \in Body, CreateMemory(k, b)
      PROVE  MemoryTrailCurrent'
  BY <1>1 DEF CreateMemory, MemoryLog
<1>2. ASSUME NEW k \in MemoryKey, NEW b \in Body, UpdateMemory(k, b)
      PROVE  MemoryTrailCurrent'
  <2>1. k \in DOMAIN memories /\ memories[k] \in Memory
    BY <1>2 DEF UpdateMemory
  <2>2. /\ DOMAIN memories' = DOMAIN memories
        /\ memories'[k].revision = memories[k].revision + 1
        /\ memories'[k].body = b
        /\ \A x \in DOMAIN memories \ {k} : memories'[x] = memories[x]
    BY <1>2, <2>1 DEF UpdateMemory, Memory
  <2>3. /\ memoryEvent'[k].revision = memories[k].revision + 1
        /\ memoryEvent'[k].action = "memory.update"
        /\ memoryEvent'[k].body = b
        /\ \A x \in MemoryKey \ {k} : memoryEvent'[x] = memoryEvent[x]
    BY <1>2 DEF UpdateMemory, MemoryLog
  <2> QED
    BY <2>1, <2>2, <2>3
<1>3. ASSUME NEW k \in MemoryKey, Forget(k) PROVE MemoryTrailCurrent'
  BY <1>3 DEF Forget
<1>4. ASSUME UNCHANGED memoryVars PROVE MemoryTrailCurrent'
  BY <1>4 DEF memoryVars
<1>5. ASSUME NEW c \in Client, ClientStep(c) PROVE MemoryTrailCurrent'
  BY <1>4, <1>5
  DEF ClientStep, GetRune, Begin, Preflight, CreateRune, UpdateRune,
      SetRuneEnabled, RemoveRune, Refused
<1>6. ASSUME NEW k \in MemoryKey, MemoryStep(k) PROVE MemoryTrailCurrent'
  BY <1>1, <1>2, <1>3, <1>6 DEF MemoryStep
<1>7. CASE UNCHANGED vars
  BY <1>4, <1>7 DEF vars, memoryVars
<1> QED
  BY <1>5, <1>6, <1>7 DEF Next

-----------------------------------------------------------------------------
(* The types, what readers hold, and the two trails are kept together.      *)
THEOREM EntriesInvariant == Spec => []EntriesInv
<1>1. EntriesInv /\ [Next]_vars => EntriesInv'
  BY TypeStep, ReadStep, TrailStep, MemoryTrailStep DEF EntriesInv
<1> QED
  BY InitInv, <1>1, PTL DEF Spec

(* An update that expects the revision that was read overwrites exactly      *)
(* what was read, whatever other processes did in between, for as long as   *)
(* the rune is not removed and created again.                               *)
THEOREM ReadersAgree == Spec => []RevisionIdentifies
<1>1. EntriesInv => RevisionIdentifies
  BY DEF EntriesInv, ReadBefore, RevisionIdentifies
<1> QED
  BY <1>1, EntriesInvariant, PTL

(* The audit trail of runes tells their present state.                      *)
THEOREM TrailsCurrent == Spec => []RuneTrailCurrent
<1>1. EntriesInv => RuneTrailCurrent
  BY DEF EntriesInv
<1> QED
  BY <1>1, EntriesInvariant, PTL

(* The audit trail of memories tells their present state.                   *)
THEOREM MemoryTrailsCurrent == Spec => []MemoryTrailCurrent
<1>1. EntriesInv => MemoryTrailCurrent
  BY DEF EntriesInv
<1> QED
  BY <1>1, EntriesInvariant, PTL

(* No event number is skipped or used twice in one life of a rune.          *)
THEOREM NumberedEvents == Spec => EventsNumbered
<1> DEFINE Numbered ==
      \A k \in RuneKey :
        runeEvent'[k] # runeEvent[k] /\ lives'[k] = lives[k] =>
          runeEvent'[k].revision = runeEvent[k].revision + 1
<1>1. EntriesInv /\ [Next]_vars => [Numbered]_vars
  <2> SUFFICES ASSUME EntriesInv, Next PROVE Numbered
    BY DEF vars
  <2> USE DEF EntriesInv, TypeOK, RuneTrailCurrent, Live
  <2>0. ASSUME NEW c \in Client PROVE client[c].key \in RuneKey
    OBVIOUS
  <2>1. ASSUME NEW c \in Client, CreateRune(c) PROVE Numbered
    <3>1. lives'[client[c].key] # lives[client[c].key]
      BY <2>0, <2>1, EntriesAssumption DEF CreateRune
    <3> QED
      BY <2>0, <2>1, <3>1 DEF CreateRune, RuneLog
  <2>2. ASSUME NEW c \in Client, NEW expects \in BOOLEAN, UpdateRune(c, expects)
        PROVE  Numbered
    BY <2>0, <2>2 DEF UpdateRune, RuneLog
  <2>3. ASSUME NEW c \in Client, NEW enabled \in BOOLEAN,
               SetRuneEnabled(c, enabled)
        PROVE  Numbered
    BY <2>0, <2>3 DEF SetRuneEnabled, RuneLog
  <2>4. ASSUME NEW c \in Client, RemoveRune(c) PROVE Numbered
    BY <2>0, <2>4 DEF RemoveRune, RuneLog
  <2>5. ASSUME UNCHANGED runeEvent PROVE Numbered
    BY <2>5
  <2> QED
    BY <2>1, <2>2, <2>3, <2>4, <2>5, ZenonT(40)
    DEF Next, ClientStep, MemoryStep, GetRune, Begin, Preflight, Refused,
        CreateMemory, UpdateMemory, Forget, runeVars
<1> QED
  BY <1>1, EntriesInvariant, PTL DEF Spec, EventsNumbered

(* No interleaving changes or removes a protected rune without force, for   *)
(* all that a command looks at the protection before its call.              *)
THEOREM ProtectionHolds == Spec => ProtectedKept
<1> DEFINE Forced ==
      \A k \in DOMAIN runes :
        runes[k].protected /\ (k \notin DOMAIN runes' \/ runes'[k] # runes[k]) =>
          \E c \in Client : /\ client[c].pc = "call" /\ client'[c].pc = "idle"
                            /\ client[c].key = k /\ client[c].force
<1>1. TypeOK /\ [Next]_vars => [Forced]_vars
  <2> SUFFICES ASSUME TypeOK, Next PROVE Forced
    BY DEF vars
  <2> USE DEF TypeOK, Live
  <2>0. ASSUME NEW c \in Client, Done(c) PROVE client'[c].pc = "idle"
    BY <2>0 DEF Done
  <2>1. ASSUME NEW c \in Client, CreateRune(c) PROVE Forced
    BY <2>1 DEF CreateRune
  <2>2. ASSUME NEW c \in Client, NEW expects \in BOOLEAN, UpdateRune(c, expects)
        PROVE  Forced
    BY <2>0, <2>2 DEF UpdateRune, NeedsForce
  <2>3. ASSUME NEW c \in Client, NEW enabled \in BOOLEAN,
               SetRuneEnabled(c, enabled)
        PROVE  Forced
    BY <2>0, <2>3 DEF SetRuneEnabled, NeedsForce
  <2>4. ASSUME NEW c \in Client, RemoveRune(c) PROVE Forced
    BY <2>0, <2>4 DEF RemoveRune, NeedsForce
  <2>5. ASSUME UNCHANGED runes PROVE Forced
    BY <2>5
  <2> QED
    BY <2>1, <2>2, <2>3, <2>4, <2>5, ZenonT(40)
    DEF Next, ClientStep, MemoryStep, GetRune, Begin, Preflight, Refused,
        CreateMemory, UpdateMemory, Forget, runeVars
<1>2. EntriesInv => TypeOK
  BY DEF EntriesInv
<1> QED
  BY <1>1, <1>2, EntriesInvariant, PTL DEF Spec, ProtectedKept

-----------------------------------------------------------------------------
(* Prime.                                                                  *)

(* What the command has read so far holds what was required all along, and  *)
(* what was required all along is required now.                             *)
CarriesStanding ==
  /\ standing.runes \subseteq RequiredNow.runes
  /\ standing.memories \subseteq RequiredNow.memories
  /\ prime.pc \in {"runes", "fetch", "printed"}
       /\ ~prime.pending /\ ~prime.args.noMemories =>
         standing.memories \subseteq RequiredMemories
  /\ prime.pc \in {"fetch", "printed"} /\ ~prime.pending =>
       standing.runes \subseteq prime.listed

PrimeTypeOK ==
  /\ DOMAIN prime = {"pc", "args", "pending", "memories", "listed",
                     "inlined", "shown"}
  /\ prime.pc \in {"idle", "memories", "runes", "fetch", "printed", "failed"}
  /\ DOMAIN standing = {"runes", "memories"}

PrimeInv ==
  PrimeTypeOK /\ CarriesStanding /\ StandingInstructionsPrinted

LEMMA PrimeInitInv == PrimeInit => PrimeInv
  BY DEF PrimeInit, NoPrime, PrimeInv, PrimeTypeOK, CarriesStanding,
         StandingInstructionsPrinted

\* A statement of the command leaves the tables and the ghost alone.
LEMMA StatementKeeps ==
  ASSUME NEW pc, NEW next, Statement(pc, next)
  PROVE  /\ prime.pc = pc /\ prime' = next
         /\ UNCHANGED <<vars, standing>>
         /\ RequiredNow' = RequiredNow
  BY DEF Statement, vars, RequiredNow, Enabled, Designated

\* What another process does can only shorten the list of what was required
\* all along, and it does not touch what the command has read.
LEMMA ChangeKeeps == PrimeInv /\ Change => PrimeInv'
<1> SUFFICES ASSUME PrimeInv, Change PROVE PrimeInv'
  OBVIOUS
<1>1. /\ standing'.runes = standing.runes \cap RequiredNow'.runes
      /\ standing'.memories = standing.memories \cap RequiredNow'.memories
      /\ prime' = prime
  BY DEF Change
<1>2. RequiredMemories' = RequiredMemories
  BY <1>1 DEF RequiredMemories, Designated
<1> QED
  BY <1>1, <1>2 DEF PrimeInv, PrimeTypeOK, CarriesStanding,
                    StandingInstructionsPrinted, Change

LEMMA PrimeStep == PrimeInv /\ [PrimeNext]_primeVars => PrimeInv'
<1> SUFFICES ASSUME PrimeInv, [PrimeNext]_primeVars PROVE PrimeInv'
  OBVIOUS
<1> USE DEF PrimeInv, PrimeTypeOK, CarriesStanding, StandingInstructionsPrinted
<1>1. ASSUME NEW a \in PrimeArgs, NEW pending \in BOOLEAN,
             BeginPrime(a, pending)
      PROVE  PrimeInv'
  BY <1>1 DEF BeginPrime, NoPrime, vars, RequiredNow, Enabled, Designated
<1>2. CASE LoadMemories
  <2>1. /\ prime.pc = "memories"
        /\ prime' = [prime EXCEPT
                       !.pc = "runes",
                       !.memories =
                         IF prime.pending \/ prime.args.noMemories THEN Nothing
                         ELSE memories]
        /\ UNCHANGED standing /\ RequiredNow' = RequiredNow
    BY <1>2, StatementKeeps DEF LoadMemories
  <2>2. /\ prime'.pc = "runes" /\ DOMAIN prime' = DOMAIN prime
        /\ prime'.pending = prime.pending /\ prime'.args = prime.args
        /\ ~prime.pending /\ ~prime.args.noMemories =>
             prime'.memories = memories
    BY <2>1
  <2>3. ~prime.pending /\ ~prime.args.noMemories =>
          RequiredMemories' = RequiredNow.memories
    BY <2>2 DEF RequiredMemories, RequiredNow, Designated
  <2> QED
    BY <2>1, <2>2, <2>3
<1>3. CASE StaleHandle
  BY <1>3, StatementKeeps DEF StaleHandle
<1>4. ASSUME NEW shown \in SUBSET MemoryKey, ListRunes(shown)
      PROVE  PrimeInv'
  <2>1. /\ prime.pc = "runes"
        /\ prime' = [prime EXCEPT
                       !.pc = "fetch", !.shown = shown,
                       !.listed = IF prime.pending THEN {}
                                  ELSE Designated(Enabled, "required")]
        /\ UNCHANGED standing /\ RequiredNow' = RequiredNow
    BY <1>4, StatementKeeps DEF ListRunes
  <2> QED
    BY <2>1 DEF RequiredMemories, RequiredNow, Designated
<1>5. ASSUME NEW k \in RuneKey, FetchRune(k)
      PROVE  PrimeInv'
  <2>1. /\ prime.pc = "fetch" /\ UNCHANGED standing
        /\ RequiredNow' = RequiredNow
        /\ prime' = IF k \in DOMAIN runes
                    THEN [prime EXCEPT
                            !.inlined = [x \in DOMAIN @ \cup {k} |->
                                           IF x = k THEN runes[k] ELSE @[x]]]
                    ELSE [prime EXCEPT !.pc = "failed"]
    <3> DEFINE next == IF k \in DOMAIN runes
                       THEN [prime EXCEPT
                               !.inlined = [x \in DOMAIN @ \cup {k} |->
                                              IF x = k THEN runes[k] ELSE @[x]]]
                       ELSE [prime EXCEPT !.pc = "failed"]
    <3>1. Statement("fetch", next)
      BY ONLY <1>5 DEF FetchRune
    <3> HIDE DEF next
    <3>2. /\ prime.pc = "fetch" /\ prime' = next
          /\ UNCHANGED standing /\ RequiredNow' = RequiredNow
      BY ONLY <3>1, StatementKeeps
    <3> QED
      BY ONLY <3>2 DEF next
  <2>2. /\ DOMAIN prime' = DOMAIN prime /\ prime'.pc \in {"fetch", "failed"}
        /\ prime'.pending = prime.pending /\ prime'.args = prime.args
        /\ prime'.memories = prime.memories /\ prime'.listed = prime.listed
    <3>1. CASE k \in DOMAIN runes
      <4> DEFINE found == [x \in DOMAIN prime.inlined \cup {k} |->
                             IF x = k THEN runes[k] ELSE prime.inlined[x]]
      <4>1. prime' = [prime EXCEPT !.inlined = found]
        BY <2>1, <3>1
      <4> HIDE DEF found
      <4> QED
        BY <2>1, <4>1
    <3>2. CASE k \notin DOMAIN runes
      BY <2>1, <3>2
    <3> QED
      BY <3>1, <3>2
  <2>3. RequiredMemories' = RequiredMemories
    BY <2>2 DEF RequiredMemories, Designated
  <2> QED
    BY <2>1, <2>2, <2>3
<1>6. CASE PrintManifest
  <2>1. /\ DOMAIN prime.inlined = prime.listed
        /\ prime.pc = "fetch" /\ UNCHANGED standing
        /\ RequiredNow' = RequiredNow
        /\ prime' = [prime EXCEPT !.pc = IF TotalBytes <= Budget THEN "printed"
                                                              ELSE "failed"]
    BY <1>6, StatementKeeps DEF PrintManifest
  <2>2. /\ DOMAIN prime' = DOMAIN prime /\ prime'.pc \in {"printed", "failed"}
        /\ prime'.pending = prime.pending /\ prime'.args = prime.args
        /\ prime'.memories = prime.memories /\ prime'.listed = prime.listed
        /\ prime'.inlined = prime.inlined
    BY <2>1
  <2>3. RequiredMemories' = RequiredMemories
    BY <2>2 DEF RequiredMemories, Designated
  <2> QED
    BY <2>1, <2>2, <2>3
<1>7. CASE Change
  BY <1>7, ChangeKeeps
<1>8. CASE UNCHANGED primeVars
  BY <1>8 DEF primeVars, vars, RequiredNow, Enabled, Designated,
              RequiredMemories
<1> QED
  BY <1>1, <1>2, <1>3, <1>4, <1>5, <1>6, <1>7, <1>8 DEF PrimeNext

\* PrimeInv holds of every reachable state: what stands is in what was read.
THEOREM PrimeInvariant == PrimeSpec => []PrimeInv
  BY PrimeInitInv, PrimeStep, PTL DEF PrimeSpec

\* What was required all the while the command ran is printed in full,
\* whatever other processes did between its statements.
THEOREM InstructionsReachTheAgent == PrimeSpec => []StandingInstructionsPrinted
<1>1. PrimeInv => StandingInstructionsPrinted
  BY DEF PrimeInv
<1> QED
  BY <1>1, PrimeInvariant, PTL
=============================================================================
