------------------------------ MODULE Entries ------------------------------
(***************************************************************************)
(* Runes and memories (rune.go, memory.go): entries under a key, with a    *)
(* revision, that several processes read and write.  A library call is one *)
(* transaction; a command of the command line first looks whether the rune *)
(* is protected and then makes the call, and whoever passes an expected    *)
(* revision has read it some time before.                                  *)
(***************************************************************************)
EXTENDS Naturals

CONSTANTS
  Client,      \* processes
  RuneKey,
  MemoryKey,
  Body,        \* contents: of a rune all its texts and its prime designation,
               \* of a memory its body, which is what its events repeat
  NoRow,       \* no row read
  MaxRevision, \* bound: revision of an entry
  MaxLives     \* bound: how often a key is created

ASSUME EntriesAssumption ==
  /\ MaxRevision \in Nat \ {0} /\ MaxLives \in Nat
  /\ NoRow \notin [revision : Nat, body : Body, enabled : BOOLEAN,
                   protected : BOOLEAN]

VARIABLES
  runes,      \* the table: a row for each key in it
  runeEvent,  \* the newest event of each rune key
  lives,      \* how often each rune key was created
  memories,   \* the table of memories
  memoryEvent,\* the newest event of each memory key
  client      \* what each process is doing and what it has read

runeVars == <<runes, runeEvent, lives>>
memoryVars == <<memories, memoryEvent>>
vars == <<runes, runeEvent, lives, memories, memoryEvent, client>>

Rune == [revision : 1..MaxRevision, body : Body, enabled : BOOLEAN,
         protected : BOOLEAN]
Memory == [revision : 1..MaxRevision, body : Body]

RuneAction == {"rune.create", "rune.update", "rune.enable", "rune.disable",
               "rune.remove"}
MemoryAction == {"memory.create", "memory.update", "memory.delete"}
MemoryEvent ==
  [action : MemoryAction \ {"memory.delete"}, revision : 1..MaxRevision,
   body : Body]
    \union [action : {"memory.delete"}, revision : 1..MaxRevision]
None == [action |-> "none", revision |-> 0]

Live(k) == k \in DOMAIN runes

-----------------------------------------------------------------------------
Init ==
  /\ runes = [k \in {} |-> NoRow]
  /\ runeEvent = [k \in RuneKey |-> None]
  /\ lives = [k \in RuneKey |-> 0]
  /\ memories = [k \in {} |-> NoRow]
  /\ memoryEvent = [k \in MemoryKey |-> None]
  /\ client \in [Client -> {[pc |-> "idle", key |-> k, force |-> FALSE,
                             seen |-> NoRow, life |-> 0] : k \in RuneKey}]

-----------------------------------------------------------------------------
(* A client reads a rune, and starts a command or a call. *)

GetRune(c, k) ==
  /\ client[c].pc = "idle" /\ Live(k)
  /\ client' = [client EXCEPT ![c].key = k, ![c].seen = runes[k],
                              ![c].life = lives[k]]
  /\ UNCHANGED <<runeVars, memoryVars>>

\* A command of the command line starts with checkRuneForceRequired; a
\* caller of the library makes the call itself.  What was read of another
\* key is of no use to it.
Begin(c, k, force, pc) ==
  /\ client[c].pc = "idle"
  /\ client' = [client EXCEPT ![c].pc = pc, ![c].key = k, ![c].force = force,
                  ![c].seen = IF k = client[c].key THEN @ ELSE NoRow]
  /\ UNCHANGED <<runeVars, memoryVars>>

Done(c) == client' = [client EXCEPT ![c].pc = "idle"]

\* checkRuneForceRequired: a protected rune ends the command, one that is
\* absent or not protected does not.
NeedsForce(c, k) == Live(k) /\ runes[k].protected /\ ~client[c].force

Preflight(c) ==
  /\ client[c].pc = "preflight"
  /\ client' = [client EXCEPT
       ![c].pc = IF NeedsForce(c, client[c].key) THEN "idle" ELSE "call"]
  /\ UNCHANGED <<runeVars, memoryVars>>

-----------------------------------------------------------------------------
(* The calls on runes. *)

\* MUTANT of RuneLog: the event is written with the revision before.
RuneLogBefore(k, action, revision) ==
  runeEvent' = [runeEvent EXCEPT ![k] = [action |-> action,
                                         revision |-> revision - 1]]

RuneLog(k, action, revision) ==
  runeEvent' = [runeEvent EXCEPT ![k] = [action |-> action,
                                         revision |-> revision]]

NewRune(b, e, p) == [revision |-> 1, body |-> b, enabled |-> e,
                     protected |-> p]

\* PutRune for a key that is free; an expected revision is refused then.
CreateRune(c) ==
  LET k == client[c].key IN
  /\ client[c].pc = "call"
  /\ ~Live(k) /\ lives[k] < MaxLives
  /\ \E b \in Body, e, p \in BOOLEAN :
       runes' = [x \in DOMAIN runes \union {k} |->
                   IF x = k THEN NewRune(b, e, p) ELSE runes[x]]
  /\ RuneLog(k, "rune.create", 1)
  /\ lives' = [lives EXCEPT ![k] = @ + 1]
  /\ Done(c)
  /\ UNCHANGED memoryVars

\* An expected revision, if one is passed, is the one that was read.
AsExpected(c, k, expects) ==
  expects => client[c].seen # NoRow /\ client[c].seen.revision = runes[k].revision

\* PutRune for a key that is taken: any of its fields may be set.
UpdateRune(c, expects) ==
  LET k == client[c].key IN
  /\ client[c].pc = "call"
  /\ Live(k) /\ AsExpected(c, k, expects) /\ ~NeedsForce(c, k)
  /\ runes[k].revision < MaxRevision
  /\ \E b \in Body, e, p \in BOOLEAN :
       runes' = [runes EXCEPT ![k] = [revision |-> runes[k].revision + 1,
                   body |-> b, enabled |-> e, protected |-> p]]
  /\ RuneLog(k, "rune.update", runes[k].revision + 1)
  /\ Done(c)
  /\ UNCHANGED <<lives, memoryVars>>

\* MUTANT of SetRuneEnabled: the revision is left alone.
SetRuneEnabledNoBump(c, enabled) ==
  LET k == client[c].key IN
  /\ client[c].pc = "call"
  /\ Live(k) /\ ~NeedsForce(c, k)
  /\ runes' = [runes EXCEPT ![k].enabled = enabled]
  /\ RuneLog(k, IF enabled THEN "rune.enable" ELSE "rune.disable",
                runes[k].revision)
  /\ Done(c)
  /\ UNCHANGED <<lives, memoryVars>>

SetRuneEnabled(c, enabled) ==
  LET k == client[c].key IN
  /\ client[c].pc = "call"
  /\ Live(k) /\ ~NeedsForce(c, k)
  /\ runes[k].revision < MaxRevision
  /\ runes' = [runes EXCEPT ![k].enabled = enabled, ![k].revision = @ + 1]
  /\ RuneLog(k, IF enabled THEN "rune.enable" ELSE "rune.disable",
                runes[k].revision + 1)
  /\ Done(c)
  /\ UNCHANGED <<lives, memoryVars>>

\* MUTANT of RemoveRune: only the command line looks at the protection.
RemoveRuneUnguarded(c) ==
  LET k == client[c].key IN
  /\ client[c].pc = "call" /\ Live(k)
  /\ runes' = [x \in DOMAIN runes \ {k} |-> runes[x]]
  /\ RuneLog(k, "rune.remove", runes[k].revision + 1)
  /\ Done(c)
  /\ UNCHANGED <<lives, memoryVars>>

\* MUTANT of RemoveRune: the event has the revision the rune had.
RemoveRuneAtRevision(c) ==
  LET k == client[c].key IN
  /\ client[c].pc = "call"
  /\ Live(k) /\ ~NeedsForce(c, k)
  /\ runes' = [x \in DOMAIN runes \ {k} |-> runes[x]]
  /\ RuneLog(k, "rune.remove", runes[k].revision)
  /\ Done(c)
  /\ UNCHANGED <<lives, memoryVars>>

RemoveRune(c) ==
  LET k == client[c].key IN
  /\ client[c].pc = "call"
  /\ Live(k) /\ ~NeedsForce(c, k)
  /\ runes' = [x \in DOMAIN runes \ {k} |-> runes[x]]
  /\ RuneLog(k, "rune.remove", runes[k].revision + 1)
  /\ Done(c)
  /\ UNCHANGED <<lives, memoryVars>>

\* A call that is refused: the key is taken (create only), protected, absent
\* or at another revision than expected, or the database is busy; the last
\* may end a command before its call.
Refused(c) ==
  /\ client[c].pc # "idle"
  /\ Done(c)
  /\ UNCHANGED <<runeVars, memoryVars>>

-----------------------------------------------------------------------------
(* The calls on memories, which are never guarded. *)

MemoryLog(k, action, revision, body) ==
  memoryEvent' = [memoryEvent EXCEPT ![k] =
    [action |-> action, revision |-> revision, body |-> body]]

CreateMemory(k, b) ==
  /\ k \notin DOMAIN memories
  /\ memories' = [x \in DOMAIN memories \union {k} |->
                    IF x = k THEN [revision |-> 1, body |-> b] ELSE memories[x]]
  /\ MemoryLog(k, "memory.create", 1, b)
  /\ UNCHANGED <<runeVars, client>>

\* MUTANT of UpdateMemory: the event has the body it had.
UpdateMemoryLogsOld(k, b) ==
  /\ k \in DOMAIN memories /\ memories[k].revision < MaxRevision
  /\ memories' = [memories EXCEPT ![k] = [revision |-> @.revision + 1,
                                          body |-> b]]
  /\ MemoryLog(k, "memory.update", memories[k].revision + 1, memories[k].body)
  /\ UNCHANGED <<runeVars, client>>

UpdateMemory(k, b) ==
  /\ k \in DOMAIN memories /\ memories[k].revision < MaxRevision
  /\ memories' = [memories EXCEPT ![k] = [revision |-> @.revision + 1,
                                          body |-> b]]
  /\ MemoryLog(k, "memory.update", memories[k].revision + 1, b)
  /\ UNCHANGED <<runeVars, client>>

Forget(k) ==
  /\ k \in DOMAIN memories
  /\ memories' = [x \in DOMAIN memories \ {k} |-> memories[x]]
  /\ memoryEvent' = [memoryEvent EXCEPT ![k] =
       [action |-> "memory.delete", revision |-> memories[k].revision]]
  /\ UNCHANGED <<runeVars, client>>

-----------------------------------------------------------------------------
ClientStep(c) ==
  \/ \E k \in RuneKey : GetRune(c, k)
  \/ \E k \in RuneKey, force \in BOOLEAN, pc \in {"preflight", "call"} :
       Begin(c, k, force, pc)
  \/ Preflight(c)
  \/ CreateRune(c)
  \/ \E expects \in BOOLEAN : UpdateRune(c, expects)
  \/ \E enabled \in BOOLEAN : SetRuneEnabled(c, enabled)
  \/ RemoveRune(c)
  \/ Refused(c)

MemoryStep(k) ==
  \/ \E b \in Body : CreateMemory(k, b) \/ UpdateMemory(k, b)
  \/ Forget(k)

Next == (\E c \in Client : ClientStep(c)) \/ (\E k \in MemoryKey : MemoryStep(k))

Spec == Init /\ [][Next]_vars

-----------------------------------------------------------------------------
TypeOK ==
  /\ DOMAIN runes \subseteq RuneKey /\ runes \in [DOMAIN runes -> Rune]
  /\ runeEvent \in [RuneKey -> [action : RuneAction \union {"none"},
                                revision : 0..MaxRevision + 1]]
  /\ lives \in [RuneKey -> 0..MaxLives]
  /\ DOMAIN memories \subseteq MemoryKey
  /\ memories \in [DOMAIN memories -> Memory]
  /\ memoryEvent \in [MemoryKey -> MemoryEvent \union {None}]
  /\ client \in [Client -> [pc : {"idle", "preflight", "call"}, key : RuneKey,
                            force : BOOLEAN, seen : Rune \union {NoRow},
                            life : 0..MaxLives]]

(* Whoever finds a rune at the revision it has read finds what it has read, *)
(* so that an update with an expected revision overwrites nothing unseen   *)
(* (rune.go:86-90).  A rune removed and created again starts over at        *)
(* revision 1, which the code does not tell apart: the promise is for one   *)
(* life of a key.                                                           *)
RevisionIdentifies ==
  \A c \in Client :
    LET k == client[c].key
        seen == client[c].seen
    IN seen # NoRow /\ Live(k) /\ client[c].life = lives[k]
       /\ seen.revision = runes[k].revision => runes[k] = seen

(* A protected rune is changed or removed by a forced call on its key only,  *)
(* though a command looks at the protection before its call and the rune    *)
(* may become protected in between (rune.go:208, 486, 543).                 *)
ProtectedKept ==
  [][\A k \in DOMAIN runes :
       runes[k].protected /\ (k \notin DOMAIN runes' \/ runes'[k] # runes[k]) =>
         \E c \in Client : /\ client[c].pc = "call" /\ client'[c].pc = "idle"
                           /\ client[c].key = k /\ client[c].force]_vars

(* The newest event of a rune tells whether it is there, at which revision, *)
(* and whether enabled if that is what it changed.                          *)
RuneTrailCurrent ==
  \A k \in RuneKey :
    LET e == runeEvent[k] IN
    /\ Live(k) <=> e.action \notin {"none", "rune.remove"}
    /\ Live(k) => /\ e.revision = runes[k].revision
                  /\ e.action = "rune.enable" => runes[k].enabled
                  /\ e.action = "rune.disable" => ~runes[k].enabled

(* In one life of a rune the events are numbered without gap or repetition, *)
(* the removal included, so that a reader of the trail misses none.         *)
EventsNumbered ==
  [][\A k \in RuneKey :
       runeEvent'[k] # runeEvent[k] /\ lives'[k] = lives[k] =>
         runeEvent'[k].revision = runeEvent[k].revision + 1]_vars

(* A memory can be read off its newest event: whether it is there, its      *)
(* revision and its body (memory.go:336-354).                               *)
MemoryTrailCurrent ==
  \A k \in MemoryKey :
    LET e == memoryEvent[k] IN
    /\ k \in DOMAIN memories <=> e.action \in {"memory.create", "memory.update"}
    /\ k \in DOMAIN memories => /\ e.revision = memories[k].revision
                                /\ e.body = memories[k].body

=============================================================================
