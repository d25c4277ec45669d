-------------------------------- MODULE CardTx --------------------------------
(***************************************************************************)
(* The same calls as CardStore, as the SQLite transactions they are.  A    *)
(* process is a bdd handle: its pool has one connection, so it runs one    *)
(* call at a time, and other handles (usually other bdd processes) run     *)
(* theirs on the same file.                                                *)
(*                                                                         *)
(* BeginTx is deferred.  A call that reads first decides on the snapshot   *)
(* that read takes and must later upgrade to a write: SQLite refuses at    *)
(* once while another connection writes (SQLITE_BUSY) or when the snapshot *)
(* is no longer the newest (SQLITE_BUSY_SNAPSHOT).  A call that writes     *)
(* first waits for the lock, up to busy_timeout, and decides under it.     *)
(* sqlite.Retry runs the whole transaction again after SQLITE_BUSY, a      *)
(* bounded number of times.                                                *)
(***************************************************************************)
EXTENDS CardStore

CONSTANTS
  Proc,         \* the handles open on the database
  Calls,        \* the calls they make
  NoProc,       \* "nobody holds the write lock"
  NoCall,       \* "no call"
  MaxAttempts   \* DefaultRetryConfig().MaxAttempts

\* Every call that writes, with its arguments.
Call ==
  [op : {"create"}, id : CardId, type : Type, labels : SUBSET AllLabel,
   reason : Reasons, parents : SUBSET CardId]     \* reason: its first note
    \cup [op : {"claim"}, id : CardId, actor : Actor]
    \cup [op : {"close", "release", "human"}, id : CardId, reason : Reasons]
    \cup [op : {"reopen", "note", "delete"}, id : CardId]
    \cup [op : {"defer"}, id : CardId, until : BOOLEAN]
    \cup [op : {"update"}, id : CardId, in : UpdateInput, pre : BOOLEAN]
    \cup [op : {"add_edge", "remove_edge"}, parent : CardId, child : CardId]
    \cup [op : {"set_status"}, new : StatusConfigs]
    \cup [op : {"set_types"}, new : SUBSET CustomType]

ASSUME CallsAssumption == Calls \subseteq Call
ASSUME NoProcAssumption == NoProc \notin Proc
ASSUME MaxAttemptsAssumption == MaxAttempts \in Nat \ {0}

VARIABLES
  phase,     \* what each process is doing
  call,      \* the call it runs
  attempt,   \* which attempt of Retry this is
  stale,     \* has another process committed since the snapshot was taken?
  writer,    \* who holds the write lock of the database
  result,    \* what the last call returned
  commits    \* how often the present call has committed (a ghost)

txVars == <<phase, call, attempt, stale, writer, result, commits>>
allVars == <<vars, txVars>>

Phase ==
  {"idle",
   "begun",    \* BeginTx returned: no snapshot, no lock
   "read",     \* the reads are done and the call is to write
   "locked",   \* the write lock is held
   "done",     \* committed, Retry has yet to return
   "busy"}     \* rolled back on SQLITE_BUSY

Result ==
  {"none",
   "ok",         \* returned after its commit
   "answered",   \* a no-op or a typed error: nothing to write
   "locked",     \* "database is locked"
   "cancelled",  \* the context was done
   "lost"}       \* the process died

-----------------------------------------------------------------------------
(* The calls.                                                              *)

\* Calls whose first statement is a SELECT.  An update has one when it is to
\* return the card before it (for hooks), or asks for a status or a claim.
ReadsFirst(c) ==
  \/ c.op \in {"claim", "close", "release", "reopen", "defer", "human",
               "delete", "add_edge", "set_status", "set_types"}
  \/ /\ c.op = "update"
     /\ c.pre \/ c.in.status # Keep \/ c.in.claim # Nobody

\* What a call finds out before it writes, or from its first write: FALSE
\* when it will return without a change.  (ConfigSet of several names looks
\* at some of them under the lock; it finds the same there.)
Allowed(c) ==
  \/ c.op = "create" /\ c.id \notin Live
  \/ c.op = "claim" /\ Writable(c.id) /\ Category(c.id) = "active"
  \/ /\ c.op = "close" /\ Writable(c.id)
     /\ Category(c.id) # "done" \/ c.reason
  \/ c.op = "release" /\ Writable(c.id) /\ Category(c.id) = "wip"
  \/ c.op = "reopen" /\ Writable(c.id) /\ Category(c.id) = "done"
  \/ c.op = "defer" /\ Writable(c.id) /\ Category(c.id) # "done"
  \/ c.op \in {"human", "note"} /\ Writable(c.id)
  \/ c.op = "delete" /\ c.id \in Live
  \/ c.op = "update" /\ UpdateAllowed(c.id, c.in)
  \/ /\ c.op = "add_edge"
     /\ <<c.parent, c.child>> \notin edges
     /\ EdgesAllowed(edges, {<<c.parent, c.child>>})
  \/ c.op = "remove_edge" /\ <<c.parent, c.child>> \in edges
  \/ c.op = "set_status" /\ StatusesReplaceable(c.new)
  \/ c.op = "set_types" /\ TypesReplaceable(c.new)

\* What is checked only between the writes, under the lock.
Checked(c) ==
  /\ c.op = "create" => TypeDefined(c.type) /\ c.parents \subseteq Live
  /\ c.op = "update" => UpdateChecked(c.id, c.in)

\* Both ends of an edge are logged at the revision they have.
LogEnds(p, c) ==
  lastEvent' = [x \in CardId |->
                  IF x \in {p, c} THEN Event("edge", cards[x].revision)
                                  ELSE lastEvent[x]]

\* The row a lifecycle call writes.
RowAfter(c) ==
  CASE c.op = "claim"   -> ClaimedBy(cards[c.id], c.actor)
    [] c.op = "close"   -> IF Category(c.id) # "done" THEN Closed(cards[c.id])
                                                      ELSE Bumped(cards[c.id])
    [] c.op = "release" -> Released(cards[c.id])
    [] c.op = "reopen"  -> Reopened(cards[c.id])
    [] c.op = "defer"   -> Deferred(cards[c.id], c.until)
    [] c.op = "human"   -> Bumped(cards[c.id])

\* What the statements of a call write, on the tables as they are now and
\* whatever was found out before.
Effect(c) ==
  \/ /\ c.op \in {"claim", "close", "release", "reopen", "defer", "human"}
     /\ Write(c.id, RowAfter(c), c.op,
              c.op \in {"close", "release", "human"} /\ c.reason)
     /\ labels' = IF c.op = "human" THEN labels \cup {<<c.id, HumanLabel>>}
                                    ELSE labels
     /\ UNCHANGED <<edges, statusDefs, typeDefs>>
  \/ c.op = "create" /\ CreateCard(c.id, c.type, c.labels, c.reason, c.parents)
  \/ c.op = "note" /\ AddNote(c.id)
  \/ c.op = "delete" /\ DeleteCard(c.id)
  \/ c.op = "update" /\ UpdateWrites(c.id, c.in)
  \/ /\ c.op = "add_edge"
     /\ {c.parent, c.child} \subseteq Live     \* the foreign keys of card_edges
     /\ edges' = edges \cup {<<c.parent, c.child>>}
     /\ LogEnds(c.parent, c.child)
     /\ UNCHANGED <<cards, labels, notes, statusDefs, typeDefs>>
  \/ c.op = "remove_edge" /\ RemoveEdge(c.parent, c.child)
  \/ /\ c.op = "set_status"
     /\ statusDefs' = c.new
     /\ UNCHANGED <<cards, edges, labels, notes, lastEvent, typeDefs>>
  \/ /\ c.op = "set_types"
     /\ typeDefs' = c.new
     /\ UNCHANGED <<cards, edges, labels, notes, lastEvent, statusDefs>>

-----------------------------------------------------------------------------
TxInit ==
  /\ Init
  /\ phase = [p \in Proc |-> "idle"]
  /\ call = [p \in Proc |-> NoCall]
  /\ attempt = [p \in Proc |-> 1]
  /\ stale = [p \in Proc |-> FALSE]
  /\ writer = NoProc
  /\ result = [p \in Proc |-> "none"]
  /\ commits = [p \in Proc |-> 0]

\* A call ends with result r; a transaction that is still open is rolled back.
End(p, r) ==
  /\ phase' = [phase EXCEPT ![p] = "idle"]
  /\ result' = [result EXCEPT ![p] = r]
  /\ stale' = [stale EXCEPT ![p] = FALSE]
  /\ writer' = IF writer = p THEN NoProc ELSE writer
  /\ call' = [call EXCEPT ![p] = NoCall]
  /\ UNCHANGED <<attempt, commits>>

Start(p, c) ==
  /\ phase[p] = "idle"
  /\ phase' = [phase EXCEPT ![p] = "begun"]
  /\ call' = [call EXCEPT ![p] = c]
  /\ attempt' = [attempt EXCEPT ![p] = 1]
  /\ result' = [result EXCEPT ![p] = "none"]
  /\ commits' = [commits EXCEPT ![p] = 0]
  /\ UNCHANGED <<vars, stale, writer>>

\* The first SELECT takes the snapshot and the later ones read from it.
Read(p) ==
  /\ phase[p] = "begun"
  /\ ReadsFirst(call[p])
  /\ UNCHANGED vars
  /\ IF Allowed(call[p])
     THEN /\ phase' = [phase EXCEPT ![p] = "read"]
          /\ stale' = [stale EXCEPT ![p] = FALSE]
          /\ UNCHANGED <<call, attempt, writer, result, commits>>
     ELSE End(p, "answered")

\* Calls about to execute their first writing statement.
Upgrading(p) == phase[p] = "read"

WritingFirst(p) == phase[p] = "begun" /\ ~ReadsFirst(call[p])

Lock(p) ==
  /\ (Upgrading(p) /\ ~stale[p]) \/ WritingFirst(p)
  /\ writer = NoProc
  /\ phase' = [phase EXCEPT ![p] = "locked"]
  /\ writer' = p
  /\ UNCHANGED <<vars, call, attempt, stale, result, commits>>

\* SQLITE_BUSY: at once for a call that has a snapshot, after busy_timeout
\* for one that has none.
Busy(p) ==
  /\ Upgrading(p) \/ WritingFirst(p)
  /\ writer # NoProc
  /\ phase' = [phase EXCEPT ![p] = "busy"]
  /\ stale' = [stale EXCEPT ![p] = FALSE]
  /\ UNCHANGED <<vars, call, attempt, writer, result, commits>>

\* SQLITE_BUSY_SNAPSHOT: an extended code, which IsBusy does not know, so
\* Retry returns it.
StaleSnapshot(p) ==
  /\ Upgrading(p) /\ stale[p]
  /\ writer = NoProc
  /\ UNCHANGED vars
  /\ End(p, "locked")

\* MUTANT of Backoff: the attempts are not counted.
BackoffForever(p) ==
  /\ phase[p] = "busy"
  /\ phase' = [phase EXCEPT ![p] = "begun"]
  /\ UNCHANGED <<vars, call, attempt, stale, writer, result, commits>>

\* MUTANT of Backoff: only the writes are tried again, on the old decision.
BackoffToWrite(p) ==
  /\ phase[p] = "busy"
  /\ UNCHANGED vars
  /\ IF attempt[p] < MaxAttempts
     THEN /\ phase' = [phase EXCEPT
                         ![p] = IF ReadsFirst(call[p]) THEN "read" ELSE "begun"]
          /\ attempt' = [attempt EXCEPT ![p] = @ + 1]
          /\ UNCHANGED <<call, stale, writer, result, commits>>
     ELSE End(p, "locked")

\* Retry sleeps and runs the transaction again, or gives up.
Backoff(p) ==
  /\ phase[p] = "busy"
  /\ UNCHANGED vars
  /\ IF attempt[p] < MaxAttempts
     THEN /\ phase' = [phase EXCEPT ![p] = "begun"]
          /\ attempt' = [attempt EXCEPT ![p] = @ + 1]
          /\ UNCHANGED <<call, stale, writer, result, commits>>
     ELSE End(p, "locked")

\* What a call checks, or finds, under the lock is an error; or it wrote first
\* and finds nothing to change.
Rollback(p) ==
  /\ phase[p] = "locked"
  /\ \/ ~ReadsFirst(call[p]) /\ ~Allowed(call[p])
     \/ ~Checked(call[p])
  /\ UNCHANGED vars
  /\ End(p, "answered")

\* MUTANT of Commit: the transaction ends in SQLITE_BUSY after its commit.
CommitThenBusy(p) ==
  /\ phase[p] = "locked"
  /\ ReadsFirst(call[p]) \/ Allowed(call[p])
  /\ Checked(call[p])
  /\ Effect(call[p])
  /\ \E after \in {"done", "busy"} : phase' = [phase EXCEPT ![p] = after]
  /\ writer' = NoProc
  /\ stale' = [q \in Proc |-> IF phase[q] = "read" THEN TRUE ELSE stale[q]]
  /\ commits' = [commits EXCEPT ![p] = @ + 1]
  /\ UNCHANGED <<call, attempt, result>>

\* The writes of the call and tx.Commit: other connections see all of them
\* or, before this step, none.  Snapshots taken earlier are stale now.
Commit(p) ==
  /\ phase[p] = "locked"
  /\ ReadsFirst(call[p]) \/ Allowed(call[p])
  /\ Checked(call[p])
  /\ Effect(call[p])
  /\ phase' = [phase EXCEPT ![p] = "done"]
  /\ writer' = NoProc
  /\ stale' = [q \in Proc |-> IF phase[q] = "read" THEN TRUE ELSE stale[q]]
  /\ commits' = [commits EXCEPT ![p] = @ + 1]
  /\ UNCHANGED <<call, attempt, result>>

Return(p) ==
  /\ phase[p] = "done"
  /\ UNCHANGED vars
  /\ End(p, "ok")

\* The context is done before the commit: Retry or database/sql notices.
Cancel(p) ==
  /\ phase[p] \in {"begun", "read", "locked", "busy"}
  /\ UNCHANGED vars
  /\ End(p, "cancelled")

\* The process dies, and a new one takes its place.
Crash(p) ==
  /\ phase[p] # "idle"
  /\ UNCHANGED vars
  /\ End(p, "lost")

\* The steps a live process takes by itself once it runs a call.
Step(p) ==
  \/ Read(p)
  \/ Lock(p)
  \/ Busy(p)
  \/ StaleSnapshot(p)
  \/ Backoff(p)
  \/ Rollback(p)
  \/ Commit(p)
  \/ Return(p)

TxNext ==
  \E p \in Proc :
    \/ \E c \in Calls : Start(p, c)
    \/ Step(p)
    \/ Cancel(p)
    \/ Crash(p)

TxSpec == TxInit /\ [][TxNext]_allVars

\* A process in a call keeps executing: no statement blocks for longer than
\* busy_timeout and Retry's timer fires.
FairTxSpec == TxSpec /\ \A p \in Proc : WF_allVars(Step(p))

-----------------------------------------------------------------------------
TxTypeOK ==
  /\ phase \in [Proc -> Phase]
  /\ call \in [Proc -> Calls \cup {NoCall}]
  /\ attempt \in [Proc -> 1 .. MaxAttempts]
  /\ stale \in [Proc -> BOOLEAN]
  /\ writer \in Proc \cup {NoProc}
  /\ result \in [Proc -> Result]
  /\ commits \in [Proc -> Nat]

\* Concurrent handles behave as if each call were one atomic step: whatever
\* a call read before it got the write lock still holds when it writes.  This
\* carries every invariant of CardStore over to the transactions, against
\* two claims of one card or two edges that close a cycle together.
AtomicCalls == Spec

\* A caller can rely on the answer: a call that reports success committed
\* exactly once, whatever Retry repeated, and one that reports anything else
\* changed nothing.  Only a crash leaves it open, and even then the call has
\* not been applied twice.
Answers ==
  \A p \in Proc :
    /\ phase[p] = "done" \/ result[p] = "ok" => commits[p] = 1
    /\ phase[p] \in {"begun", "read", "locked", "busy"}
         \/ result[p] \in {"answered", "locked", "cancelled"} => commits[p] = 0
    /\ commits[p] <= 1

\* No call hangs: the write lock is always given back and Retry gives up.
CallsReturn == \A p \in Proc : phase[p] # "idle" ~> phase[p] = "idle"
=============================================================================
