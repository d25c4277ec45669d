-------------------------------- MODULE Prime --------------------------------
(***************************************************************************)
(* bdd prime (internal/cli/prime.go), the command an agent starts with: it *)
(* prints the required runes and memories in full and summarises the rest. *)
(* It reads in several statements, outside a transaction, while other      *)
(* processes change the runes and memories (the steps of Entries).         *)
(*                                                                         *)
(* The fixed parts of the manifest, and prime --full, are left out.        *)
(***************************************************************************)
EXTENDS Entries, FiniteSetsExt

CONSTANTS
  Designation,  \* the prime designation of each content
  Size,         \* and the length of its body
  Budget,       \* primeRequiredBudgetBytes
  PrimeArgs     \* the arguments prime is called with

ASSUME PrimeAssumption ==
  /\ Designation \in [Body -> {"required", "optional", "never"}]
  /\ Size \in [Body -> Nat]
  /\ Budget \in Nat
  /\ PrimeArgs \subseteq [noMemories : BOOLEAN, haveLimit : BOOLEAN, limit : Nat]
  /\ \A a \in PrimeArgs : ~(a.haveLimit /\ a.noMemories)

VARIABLES
  prime,     \* the prime command under way, or the last one
  standing   \* what has been required ever since it began (a ghost)

primeVars == <<vars, prime, standing>>

Designated(table, d) ==
  {k \in DOMAIN table : Designation[table[k].body] = d}

\* ListRunes: the enabled ones only.
Enabled == [k \in {x \in DOMAIN runes : runes[x].enabled} |-> runes[k]]

RequiredNow == [runes |-> Designated(Enabled, "required"),
                memories |-> Designated(memories, "required")]

Nothing == [k \in {} |-> NoRow]

NoPrime ==
  [pc |-> "idle", args |-> NoRow, pending |-> FALSE,
   memories |-> Nothing,   \* the memories loaded
   listed |-> {},          \* the required runes ListRunes named
   inlined |-> Nothing,    \* the runes fetched
   shown |-> {}]           \* the optional memories summarised

PrimeInit ==
  /\ Init
  /\ prime = NoPrime
  /\ standing = [runes |-> {}, memories |-> {}]

-----------------------------------------------------------------------------
(* The statements of the command, in order.                                *)

Statement(pc, next) ==
  /\ prime.pc = pc
  /\ prime' = next
  /\ UNCHANGED <<vars, standing>>

\* SchemaVersions tells whether an upgrade is pending.
BeginPrime(a, pending) ==
  /\ prime.pc \in {"idle", "printed", "failed"}
  /\ prime' = [NoPrime EXCEPT !.pc = "memories", !.args = a,
                              !.pending = pending]
  /\ standing' = RequiredNow
  /\ UNCHANGED vars

\* MUTANT of LoadMemories: the limit is one of the query.
LoadMemoriesUpToLimit ==
  \E K \in SUBSET DOMAIN memories :
    /\ prime.pc = "memories"
    /\ prime.args.haveLimit => Cardinality(K) <= prime.args.limit
    /\ Statement("memories",
         [prime EXCEPT
            !.pc = "runes",
            !.memories = IF prime.pending \/ prime.args.noMemories THEN Nothing
                         ELSE [k \in K |-> memories[k]]])

\* loadPrimeMemories.
LoadMemories ==
  Statement("memories",
    [prime EXCEPT
       !.pc = "runes",
       !.memories = IF prime.pending \/ prime.args.noMemories THEN Nothing
                    ELSE memories])

\* The handle was opened on an old schema, which has been upgraded since.
StaleHandle == Statement("memories", [prime EXCEPT !.pc = "failed"])

\* ListRunes, and the optional memories to show, up to the limit.
ListRunes(shown) ==
  LET optional == DOMAIN prime.memories \ Designated(prime.memories, "required")
  IN
  /\ prime.pc = "runes"
  /\ shown \subseteq optional
  /\ IF prime.args.haveLimit /\ Cardinality(optional) > prime.args.limit
     THEN Cardinality(shown) = prime.args.limit
     ELSE shown = optional
  /\ Statement("runes",
       [prime EXCEPT
          !.pc = "fetch", !.shown = shown,
          !.listed = IF prime.pending THEN {}
                     ELSE Designated(Enabled, "required")])

\* fetchRequiredContext reads each required rune anew, disabled or not, one by
\* one (in which order is left open); one that is gone ends the command.
FetchRune(k) ==
  /\ k \in prime.listed \ DOMAIN prime.inlined
  /\ Statement("fetch",
       IF k \in DOMAIN runes
       THEN [prime EXCEPT !.inlined = [x \in DOMAIN @ \cup {k} |->
                                         IF x = k THEN runes[k] ELSE @[x]]]
       ELSE [prime EXCEPT !.pc = "failed"])

RequiredMemories == Designated(prime.memories, "required")

\* The length of all bodies in a table.
Bytes(table) == MapThenSumSet(LAMBDA k : Size[table[k].body], DOMAIN table)

InFull == [k \in RequiredMemories |-> prime.memories[k]]

TotalBytes == Bytes(prime.inlined) + Bytes(InFull)

\* With all of it fetched: over the budget, the command fails and names it
\* all; nothing is cut off.
PrintManifest ==
  /\ DOMAIN prime.inlined = prime.listed
  /\ Statement("fetch",
       [prime EXCEPT !.pc = IF TotalBytes <= Budget THEN "printed"
                            ELSE "failed"])

\* Another process changes a rune or a memory.
Change ==
  /\ Next
  /\ standing' = [runes |-> standing.runes \cap RequiredNow'.runes,
                  memories |-> standing.memories \cap RequiredNow'.memories]
  /\ UNCHANGED prime

PrimeNext ==
  \/ \E a \in PrimeArgs, pending \in BOOLEAN : BeginPrime(a, pending)
  \/ LoadMemories \/ StaleHandle
  \/ \E shown \in SUBSET MemoryKey : ListRunes(shown)
  \/ \E k \in RuneKey : FetchRune(k)
  \/ PrintManifest
  \/ Change

PrimeSpec == PrimeInit /\ [][PrimeNext]_primeVars

-----------------------------------------------------------------------------
\* A standing instruction reaches the agent: what was required all the while
\* the command ran is printed in full, with no limit on it and whatever else
\* was changed, added, disabled or removed between its statements.
StandingInstructionsPrinted ==
  prime.pc = "printed" /\ ~prime.pending =>
    /\ standing.runes \subseteq DOMAIN prime.inlined
    /\ ~prime.args.noMemories => standing.memories \subseteq RequiredMemories
=============================================================================
