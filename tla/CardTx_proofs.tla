----------------------------- MODULE CardTx_proofs -----------------------------
(***************************************************************************)
(* Theorems of CardTx, for any number of handles, any calls and any retry  *)
(* budget: the transactions implement the atomic calls of CardStore, and   *)
(* what a call answers is what happened.                                   *)
(***************************************************************************)
EXTENDS CardTx, CardStore_proofs

\* The write lock belongs to the one process that is in its writing phase.
LockHeld == \A p \in Proc : phase[p] = "locked" <=> writer = p

\* What a call found out is still true while its snapshot is fresh, and for as
\* long as it holds the write lock.
DecisionHolds ==
  \A p \in Proc :
    /\ phase[p] = "read" => ReadsFirst(call[p])
    /\ phase[p] = "read" /\ ~stale[p] => Allowed(call[p])
    /\ phase[p] = "locked" /\ ReadsFirst(call[p]) => Allowed(call[p])

\* A process that runs a call knows which, and has no result yet.
CallKnown ==
  \A p \in Proc : phase[p] # "idle" => call[p] \in Calls /\ result[p] = "none"

TxInv == TxTypeOK /\ LockHeld /\ DecisionHolds /\ CallKnown /\ Answers

\* The steps that leave the database alone.
Quiet(p) ==
  \/ \E c \in Calls : Start(p, c)
  \/ Read(p) \/ Lock(p) \/ Busy(p) \/ StaleSnapshot(p) \/ Backoff(p)
  \/ Rollback(p) \/ Return(p) \/ Cancel(p) \/ Crash(p)

\* They do.
LEMMA QuietKeepsStore == ASSUME NEW p \in Proc, Quiet(p) PROVE UNCHANGED vars
  BY DEF Quiet, Start, Read, Lock, Busy, StaleSnapshot, Backoff, Rollback,
         Return, Cancel, Crash

\* What a call may do depends on the database only.
LEMMA SameStoreSameDecision ==
  ASSUME UNCHANGED vars, NEW c \in Calls
  PROVE  Allowed(c)' <=> Allowed(c)
<1> USE DEF vars, Live, Writable, Category, Allowed
<1>1. CASE c.op = "update"
  BY <1>1 DEF UpdateAllowed, Claiming
<1>2. CASE c.op \in {"add_edge", "remove_edge"}
  BY <1>2 DEF EdgesAllowed
<1>3. CASE c.op \in {"set_status", "set_types"}
  BY <1>3 DEF StatusesReplaceable, TypesReplaceable, StatusInUse, TypeInUse
<1>4. CASE c.op \notin {"update", "add_edge", "remove_edge", "set_status",
                        "set_types"}
  BY <1>4
<1> QED
  BY <1>1, <1>2, <1>3, <1>4

-----------------------------------------------------------------------------
(* The invariant.                                                          *)

\* The initial state has no call, no lock and no result.
LEMMA TxInitInv == TxInit => TxInv
  BY NoProcAssumption, MaxAttemptsAssumption
  DEF TxInit, TxInv, TxTypeOK, LockHeld, DecisionHolds, CallKnown, Answers,
      Phase, Result

\* Ending a call keeps the invariant, when the result fits what was committed.
LEMMA EndInv ==
  ASSUME TxInv, NEW p \in Proc, NEW r \in Result, End(p, r), UNCHANGED vars,
         r = "ok" => commits[p] = 1,
         r \in {"answered", "locked", "cancelled"} => commits[p] = 0
  PROVE  TxInv'
<1> USE NoProcAssumption DEF TxInv
<1>1. TxTypeOK'
  BY DEF TxTypeOK, End, Phase
<1>2. \A q \in Proc : q # p => /\ phase'[q] = phase[q]
                               /\ call'[q] = call[q]
                               /\ stale'[q] = stale[q]
                               /\ result'[q] = result[q]
                               /\ commits'[q] = commits[q]
  BY DEF TxTypeOK, End
<1>3. phase'[p] = "idle" /\ result'[p] = r /\ commits' = commits
  BY DEF TxTypeOK, End
<1>4. LockHeld'
  BY <1>2, <1>3 DEF LockHeld, End
<1>5. DecisionHolds'
  <2> SUFFICES ASSUME NEW q \in Proc, phase'[q] \in {"read", "locked"}
               PROVE  /\ phase'[q] = "read" => ReadsFirst(call'[q])
                      /\ phase'[q] = "read" /\ ~stale'[q] => Allowed(call[q])'
                      /\ phase'[q] = "locked" /\ ReadsFirst(call'[q])
                           => Allowed(call[q])'
    BY DEF DecisionHolds
  <2>1. q # p
    BY <1>3
  <2>2. call[q] \in Calls
    BY <1>2, <2>1 DEF CallKnown
  <2>3. Allowed(call'[q]) <=> Allowed(call[q])
    BY <1>2, <2>1
  <2> QED
    BY <1>2, <2>1, <2>2, SameStoreSameDecision DEF DecisionHolds
<1>6. CallKnown'
  BY <1>2, <1>3 DEF CallKnown
<1>7. Answers'
  BY <1>2, <1>3 DEF Answers
<1> QED
  BY <1>1, <1>4, <1>5, <1>6, <1>7

\* A step of one process that leaves the database alone and moves it from one
\* phase of a call to another, with the lock and the decision that go with it.
LEMMA MoveInv ==
  ASSUME TxInv, UNCHANGED <<vars, result>>, NEW p \in Proc, NEW ph \in Phase,
         phase' = [phase EXCEPT ![p] = ph], ph \in {"begun", "read", "locked", "busy"},
         phase[p] \in {"begun", "read", "busy"},
         UNCHANGED <<call, commits>>,
         attempt' \in [Proc -> 1 .. MaxAttempts],
         stale' \in [Proc -> BOOLEAN],
         \A q \in Proc : q # p => stale'[q] = stale[q],
         IF ph = "locked" THEN writer = NoProc /\ writer' = p
                          ELSE writer' = writer,
         ph = "read" => ReadsFirst(call[p]) /\ (~stale'[p] => Allowed(call[p])),
         ph = "locked" /\ ReadsFirst(call[p]) => Allowed(call[p])
  PROVE  TxInv'
<1> USE NoProcAssumption DEF TxInv
<1>1. TxTypeOK'
  BY DEF TxTypeOK
<1>2. phase'[p] = ph /\ \A q \in Proc : q # p => phase'[q] = phase[q]
  BY DEF TxTypeOK
<1>3. LockHeld'
  BY <1>2 DEF LockHeld
<1>4. DecisionHolds'
  <2> SUFFICES ASSUME NEW q \in Proc, phase'[q] \in {"read", "locked"}
               PROVE  /\ phase'[q] = "read" => ReadsFirst(call'[q])
                      /\ phase'[q] = "read" /\ ~stale'[q] => Allowed(call[q])'
                      /\ phase'[q] = "locked" /\ ReadsFirst(call'[q])
                           => Allowed(call[q])'
    BY DEF DecisionHolds
  <2>1. call[q] \in Calls /\ call'[q] = call[q]
    BY <1>2 DEF CallKnown
  <2>2. Allowed(call[q])' <=> Allowed(call[q])
    BY <2>1, SameStoreSameDecision
  <2>3. CASE q = p
    BY <1>2, <2>1, <2>2, <2>3
  <2>4. CASE q # p
    BY <1>2, <2>1, <2>2, <2>4 DEF DecisionHolds
  <2> QED
    BY <2>3, <2>4
<1>5. CallKnown' /\ Answers'
  BY <1>2 DEF CallKnown, Answers
<1> QED
  BY <1>1, <1>3, <1>4, <1>5

\* Starting a call keeps the invariant.
LEMMA StartInv ==
  ASSUME TxInv, NEW p \in Proc, NEW c \in Calls, Start(p, c)
  PROVE  TxInv'
<1> USE NoProcAssumption, MaxAttemptsAssumption DEF TxInv, Start
<1>1. TxTypeOK'
  BY DEF TxTypeOK, Phase, Result
<1>2. /\ phase'[p] = "begun" /\ call'[p] = c
      /\ result'[p] = "none" /\ commits'[p] = 0
      /\ \A q \in Proc : q # p => /\ phase'[q] = phase[q]
                                  /\ call'[q] = call[q]
                                  /\ result'[q] = result[q]
                                  /\ commits'[q] = commits[q]
  BY DEF TxTypeOK
<1>3. LockHeld'
  BY <1>2 DEF LockHeld
<1>4. DecisionHolds'
  <2> SUFFICES ASSUME NEW q \in Proc, phase'[q] \in {"read", "locked"}
               PROVE  /\ phase'[q] = "read" => ReadsFirst(call'[q])
                      /\ phase'[q] = "read" /\ ~stale'[q] => Allowed(call[q])'
                      /\ phase'[q] = "locked" /\ ReadsFirst(call'[q])
                           => Allowed(call[q])'
    BY DEF DecisionHolds
  <2>1. q # p /\ call[q] \in Calls /\ call'[q] = call[q]
    BY <1>2 DEF CallKnown
  <2>2. Allowed(call[q])' <=> Allowed(call[q])
    BY <2>1, SameStoreSameDecision
  <2> QED
    BY <1>2, <2>1, <2>2 DEF DecisionHolds
<1>5. CallKnown' /\ Answers'
  BY <1>2 DEF CallKnown, Answers
<1> QED
  BY <1>1, <1>3, <1>4, <1>5

\* So does each step that leaves the database alone.
LEMMA QuietInv == ASSUME TxInv, NEW p \in Proc, Quiet(p) PROVE TxInv'
<1> USE DEF TxInv
<1>1. CASE \E c \in Calls : Start(p, c)
  BY <1>1, StartInv
<1>2. CASE Read(p)
  <2>1. phase[p] = "begun" /\ ReadsFirst(call[p]) /\ UNCHANGED vars
    BY <1>2 DEF Read
  <2>2. commits[p] = 0
    BY <2>1 DEF Answers
  <2>3. CASE Allowed(call[p])
    <3>1. /\ phase' = [phase EXCEPT ![p] = "read"]
          /\ stale' = [stale EXCEPT ![p] = FALSE]
          /\ UNCHANGED <<call, attempt, writer, result, commits>>
      BY <1>2, <2>3 DEF Read
    <3> QED
      BY <2>1, <2>3, <3>1, MoveInv DEF TxTypeOK, Phase
  <2>4. CASE ~Allowed(call[p])
    BY <1>2, <2>1, <2>2, <2>4, EndInv DEF Read, Result
  <2> QED
    BY <2>3, <2>4
<1>3. CASE Lock(p)
  <2>1. /\ phase' = [phase EXCEPT ![p] = "locked"]
        /\ phase[p] \in {"begun", "read"}
        /\ writer = NoProc /\ writer' = p
        /\ UNCHANGED <<vars, call, attempt, stale, result, commits>>
    BY <1>3 DEF Lock, Upgrading, WritingFirst
  <2>2. ReadsFirst(call[p]) => Allowed(call[p])
    BY <1>3 DEF Lock, Upgrading, WritingFirst, DecisionHolds
  <2> QED
    BY <2>1, <2>2, MoveInv DEF TxTypeOK, Phase
<1>4. CASE Busy(p)
  <2>1. /\ phase' = [phase EXCEPT ![p] = "busy"]
        /\ phase[p] \in {"begun", "read"}
        /\ stale' = [stale EXCEPT ![p] = FALSE]
        /\ UNCHANGED <<vars, call, attempt, writer, result, commits>>
    BY <1>4 DEF Busy, Upgrading, WritingFirst
  <2> QED
    BY <2>1, MoveInv DEF TxTypeOK, Phase
<1>5. CASE StaleSnapshot(p)
  BY <1>5, EndInv DEF StaleSnapshot, Upgrading, Answers, Result
<1>6. CASE Backoff(p)
  <2>1. phase[p] = "busy" /\ UNCHANGED vars
    BY <1>6 DEF Backoff
  <2>2. commits[p] = 0
    BY <2>1 DEF Answers
  <2>3. CASE attempt[p] < MaxAttempts
    <3>1. /\ phase' = [phase EXCEPT ![p] = "begun"]
          /\ attempt' = [attempt EXCEPT ![p] = @ + 1]
          /\ UNCHANGED <<call, stale, writer, result, commits>>
      BY <1>6, <2>3 DEF Backoff
    <3>2. attempt' \in [Proc -> 1 .. MaxAttempts]
      BY <2>3, <3>1, MaxAttemptsAssumption DEF TxTypeOK
    <3> QED
      BY <2>1, <3>1, <3>2, MoveInv DEF TxTypeOK, Phase
  <2>4. CASE ~(attempt[p] < MaxAttempts)
    BY <1>6, <2>1, <2>2, <2>4, EndInv DEF Backoff, Result
  <2> QED
    BY <2>3, <2>4
<1>7. CASE Rollback(p)
  BY <1>7, EndInv DEF Rollback, Answers, Result
<1>8. CASE Return(p)
  BY <1>8, EndInv DEF Return, Answers, Result
<1>9. CASE Cancel(p)
  BY <1>9, EndInv DEF Cancel, Answers, Result
<1>10. CASE Crash(p)
  BY <1>10, EndInv DEF Crash, Result
<1> QED
  BY <1>1, <1>2, <1>3, <1>4, <1>5, <1>6, <1>7, <1>8, <1>9, <1>10 DEF Quiet

\* A commit makes every snapshot stale, so no decision outlives it but the
\* one that was just carried out.
LEMMA CommitInv == ASSUME TxInv, NEW p \in Proc, Commit(p) PROVE TxInv'
<1> USE NoProcAssumption DEF TxInv
<1>1. /\ phase[p] = "locked"
      /\ phase' = [phase EXCEPT ![p] = "done"]
      /\ writer' = NoProc
      /\ stale' = [q \in Proc |-> IF phase[q] = "read" THEN TRUE ELSE stale[q]]
      /\ commits' = [commits EXCEPT ![p] = @ + 1]
      /\ UNCHANGED <<call, attempt, result>>
  BY DEF Commit
<1>2. TxTypeOK'
  <2>1. stale' \in [Proc -> BOOLEAN]
    BY <1>1 DEF TxTypeOK
  <2>2. phase' \in [Proc -> Phase]
    BY <1>1 DEF TxTypeOK, Phase
  <2>3. commits' \in [Proc -> Nat]
    BY <1>1 DEF TxTypeOK
  <2> QED
    BY <1>1, <2>1, <2>2, <2>3 DEF TxTypeOK
<1>3. /\ phase'[p] = "done" /\ commits'[p] = commits[p] + 1
      /\ \A q \in Proc : q # p => /\ phase'[q] = phase[q]
                                  /\ commits'[q] = commits[q]
  BY <1>1 DEF TxTypeOK
<1>4. \A q \in Proc : phase'[q] # "locked"
  BY <1>1, <1>3 DEF LockHeld
<1>5. LockHeld'
  BY <1>1, <1>4 DEF LockHeld
<1>6. DecisionHolds'
  <2>1. \A q \in Proc : phase'[q] = "read" => phase[q] = "read" /\ stale'[q]
    BY <1>1, <1>3
  <2> QED
    BY <1>1, <1>4, <2>1 DEF DecisionHolds
<1>7. CallKnown'
  BY <1>1, <1>3 DEF CallKnown
<1>8. Answers'
  <2>1. commits[p] = 0 /\ result[p] = "none"
    BY <1>1 DEF Answers, CallKnown
  <2> QED
    BY <1>1, <1>3, <2>1 DEF Answers
<1> QED
  BY <1>2, <1>5, <1>6, <1>7, <1>8

\* Every step of TxNext is quiet or a commit.
LEMMA TxNextSteps ==
  TxNext <=> \E p \in Proc : Quiet(p) \/ Commit(p)
  BY DEF TxNext, Step, Quiet

\* The invariant holds of every reachable state.
THEOREM TxInvariant == TxSpec => []TxInv
<1>1. TxInv /\ [TxNext]_allVars => TxInv'
  <2> SUFFICES ASSUME TxInv, [TxNext]_allVars PROVE TxInv'
    OBVIOUS
  <2>1. CASE TxNext
    BY <2>1, TxNextSteps, QuietInv, CommitInv
  <2>2. CASE UNCHANGED allVars
    <3>1. UNCHANGED <<vars, txVars>>
      BY <2>2 DEF allVars
    <3>2. \A q \in Proc : call[q] \in Calls => (Allowed(call[q])' <=> Allowed(call[q]))
      BY <3>1, SameStoreSameDecision DEF txVars
    <3>3. DecisionHolds'
      BY <3>1, <3>2 DEF txVars, TxInv, DecisionHolds, CallKnown
    <3> QED
      BY <3>1, <3>3 DEF txVars, TxInv, TxTypeOK, LockHeld, CallKnown, Answers
  <2> QED
    BY <2>1, <2>2
<1> QED
  BY <1>1, TxInitInv, PTL DEF TxSpec

\* A call that reports success has committed once, one that reports anything
\* else but a crash has changed nothing, whatever was retried.
THEOREM AnswersHold == TxSpec => []Answers
<1>1. TxInv => Answers
  BY DEF TxInv
<1> QED
  BY <1>1, TxInvariant, PTL

-----------------------------------------------------------------------------
(* The refinement.                                                         *)

\* What a lifecycle call writes, when it was allowed to, is its atomic call.
LEMMA RowCallIsACall ==
  ASSUME NEW c \in Calls, Allowed(c), Effect(c),
         c.op \in {"claim", "close", "release", "reopen", "defer", "human"}
  PROVE  Next
<1>1. c \in Call
  BY CallsAssumption
<1>2. /\ Write(c.id, RowAfter(c), c.op,
               c.op \in {"close", "release", "human"} /\ c.reason)
      /\ labels' = IF c.op = "human" THEN labels \cup {<<c.id, HumanLabel>>}
                                     ELSE labels
      /\ UNCHANGED <<edges, statusDefs, typeDefs>>
  BY DEF Effect
<1>3. CASE c.op = "claim"
  <2>1. c.id \in CardId /\ c.actor \in Actor
    BY <1>1, <1>3 DEF Call
  <2>2. ClaimCard(c.id, c.actor)
    BY <1>2, <1>3 DEF Allowed, RowAfter, ClaimCard
  <2> QED
    BY <2>1, <2>2 DEF Next
<1>4. CASE c.op = "close"
  <2>1. c.id \in CardId /\ c.reason \in Reasons
    BY <1>1, <1>4 DEF Call
  <2>2. CloseCard(c.id, c.reason)
    BY <1>2, <1>4, <2>1, ReasonsAssumption DEF Allowed, RowAfter, CloseCard
  <2> QED
    BY <2>1, <2>2 DEF Next
<1>5. CASE c.op = "release"
  <2>1. c.id \in CardId /\ c.reason \in Reasons
    BY <1>1, <1>5 DEF Call
  <2>2. ReleaseCard(c.id, c.reason)
    BY <1>2, <1>5, <2>1, ReasonsAssumption DEF Allowed, RowAfter, ReleaseCard
  <2> QED
    BY <2>1, <2>2 DEF Next
<1>6. CASE c.op = "reopen"
  <2>1. c.id \in CardId
    BY <1>1, <1>6 DEF Call
  <2>2. ReopenCard(c.id)
    BY <1>2, <1>6 DEF Allowed, RowAfter, ReopenCard
  <2> QED
    BY <2>1, <2>2 DEF Next
<1>7. CASE c.op = "defer"
  <2>1. c.id \in CardId /\ c.until \in BOOLEAN
    BY <1>1, <1>7 DEF Call
  <2>2. DeferCard(c.id, c.until)
    BY <1>2, <1>7 DEF Allowed, RowAfter, DeferCard
  <2> QED
    BY <2>1, <2>2 DEF Next
<1>8. CASE c.op = "human"
  <2>1. c.id \in CardId /\ c.reason \in Reasons
    BY <1>1, <1>8 DEF Call
  <2>2. HumanCard(c.id, c.reason)
    BY <1>2, <1>8, <2>1, ReasonsAssumption DEF Allowed, RowAfter, HumanCard
  <2> QED
    BY <2>1, <2>2 DEF Next
<1> QED
  BY <1>3, <1>4, <1>5, <1>6, <1>7, <1>8

\* What any call writes, when it was allowed to and its checks passed, is what
\* the atomic call of CardStore does.
LEMMA EffectIsACall ==
  ASSUME NEW c \in Calls, Allowed(c), Checked(c), Effect(c)
  PROVE  Next
<1>1. c \in Call
  BY CallsAssumption
<1>2. CASE c.op \in {"claim", "close", "release", "reopen", "defer", "human"}
  BY <1>2, RowCallIsACall
<1>3. CASE c.op = "create"
  <2>1. CreateCard(c.id, c.type, c.labels, c.reason, c.parents)
    BY <1>3 DEF Effect
  <2>2. /\ c.id \in CardId /\ c.type \in Type /\ c.labels \in SUBSET AllLabel
        /\ c.reason \in Reasons /\ c.parents \in SUBSET CardId
    BY <1>1, <1>3 DEF Call
  <2> QED
    BY <2>1, <2>2 DEF Next
<1>4. CASE c.op = "note"
  <2>1. AddNote(c.id) /\ c.id \in CardId
    BY <1>1, <1>4 DEF Effect, Call
  <2> QED
    BY <2>1 DEF Next
<1>5. CASE c.op = "delete"
  <2>1. DeleteCard(c.id) /\ c.id \in CardId
    BY <1>1, <1>5 DEF Effect, Call
  <2> QED
    BY <2>1 DEF Next
<1>6. CASE c.op = "update"
  <2>1. c.id \in CardId /\ c.in \in UpdateInput
    BY <1>1, <1>6 DEF Call
  <2>2. UpdateCard(c.id, c.in)
    BY <1>6 DEF Allowed, Checked, Effect, UpdateCard
  <2> QED
    BY <2>1, <2>2 DEF Next
<1>7. CASE c.op = "add_edge"
  <2>1. c.parent \in CardId /\ c.child \in CardId
    BY <1>1, <1>7 DEF Call
  <2>2. AddEdge(c.parent, c.child)
    BY <1>7 DEF Allowed, Effect, AddEdge, LogEnds
  <2> QED
    BY <2>1, <2>2 DEF Next
<1>8. CASE c.op = "remove_edge"
  <2>1. RemoveEdge(c.parent, c.child) /\ c.parent \in CardId /\ c.child \in CardId
    BY <1>1, <1>8 DEF Effect, Call
  <2> QED
    BY <2>1 DEF Next
<1>9. CASE c.op = "set_status"
  <2>1. c.new \in StatusConfigs
    BY <1>1, <1>9 DEF Call
  <2>2. ConfigSetStatus(c.new)
    BY <1>9 DEF Allowed, Effect, ConfigSetStatus
  <2> QED
    BY <2>1, <2>2 DEF Next
<1>10. CASE c.op = "set_types"
  <2>1. c.new \in SUBSET CustomType
    BY <1>1, <1>10 DEF Call
  <2>2. ConfigSetTypes(c.new)
    BY <1>10 DEF Allowed, Effect, ConfigSetTypes
  <2> QED
    BY <2>1, <2>2 DEF Next
<1> QED
  BY <1>2, <1>3, <1>4, <1>5, <1>6, <1>7, <1>8, <1>9, <1>10 DEF Effect

\* The transactions implement the atomic calls, under any interleaving of the
\* handles, with any of them dying or giving up at any point.
THEOREM TransactionsAreAtomic == TxSpec => AtomicCalls
<1>1. TxInit => Init
  BY DEF TxInit
<1>2. TxInv /\ [TxNext]_allVars => [Next]_vars
  <2> SUFFICES ASSUME TxInv, [TxNext]_allVars PROVE [Next]_vars
    OBVIOUS
  <2>1. CASE UNCHANGED allVars
    BY <2>1 DEF allVars
  <2>2. CASE \E p \in Proc : Quiet(p)
    BY <2>2, QuietKeepsStore
  <2>3. ASSUME NEW p \in Proc, Commit(p) PROVE Next
    <3>1. /\ phase[p] = "locked" /\ Checked(call[p]) /\ Effect(call[p])
          /\ ReadsFirst(call[p]) \/ Allowed(call[p])
      BY <2>3 DEF Commit
    <3>2. Allowed(call[p]) /\ call[p] \in Calls
      BY <3>1 DEF TxInv, DecisionHolds, CallKnown
    <3> QED
      BY <3>1, <3>2, EffectIsACall
  <2> QED
    BY <2>1, <2>2, <2>3, TxNextSteps
<1> QED
  BY <1>1, <1>2, TxInvariant, PTL DEF TxSpec, Spec, AtomicCalls

\* So no interleaving of concurrent handles makes a card block itself.
THEOREM TxNeverCyclic == TxSpec => []BlockingGraphAcyclic
  BY TransactionsAreAtomic, NeverCyclic, PTL DEF AtomicCalls

\* Nor does one leave the workspace without a card to work on.
THEOREM TxNeverGridlocked == TxSpec => []NoGridlock
  BY TransactionsAreAtomic, NeverGridlocked, PTL DEF AtomicCalls
=============================================================================
