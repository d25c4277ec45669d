-------------------------------- MODULE Hooks --------------------------------
(***************************************************************************)
(* The commands of the command line that change a card, and the hooks they *)
(* fire (hooks.go, internal/cli/hookdispatch.go).  A command loads its     *)
(* hooks, makes one library call, which is one atomic step of CardStore,   *)
(* compares the card before and after it as its transaction saw them, and  *)
(* runs every matching hook before it returns.  Between these steps other  *)
(* commands run, and every process may die.                                *)
(*                                                                         *)
(* A handler (the process a hook starts) is what docs/hooks.md asks for:   *)
(* it takes the event as a wake signal, reads the card, and may run a      *)
(* command of its own.  It may also fail, or hang until its timeout.       *)
(***************************************************************************)
EXTENDS CardStore, Sequences, FiniteSets

CONSTANTS
  Proc,        \* the shells that run commands
  Commands,    \* the commands they run
  HandlerCommands, \* the commands handlers run
  HookFiles,   \* the contents of hooks.yaml
  NoView,      \* no such card, or not read yet
  NoCommand

HookEvent == {"status-change", "label-change"}

\* An entry of hooks.yaml.  A filter that is left out is empty.
RawHook ==
  [event : HookEvent \cup {"other"}, types : SUBSET Type,
   from : SUBSET (Status \cup {""}), to : SUBSET Status,
   added : SUBSET AllLabel, removed : SUBSET AllLabel,
   command : BOOLEAN]     \* is there a command?

ASSUME HookFilesAssumption == HookFiles \subseteq Seq(RawHook)

Command ==
  [op : {"create", "update", "label", "close", "reopen", "defer", "human",
         "delete"},
   id : CardId,
   in : UpdateInput,      \* what update, label and create pass
   noHooks : BOOLEAN]     \* --no-hooks

\* label add and label remove pass labels only; no command here gives a reason.
ASSUME CommandsAssumption ==
  /\ Commands \cup HandlerCommands \subseteq Command
  /\ \A c \in Commands \cup HandlerCommands :
       c.op = "label" => c.in.status = Keep /\ c.in.claim = Nobody
  /\ FALSE \in Reasons

\* What a command sees of a card, and what hooks are about.
CardView ==
  [status : Status, type : Type, labels : SUBSET AllLabel, revision : Nat]
CardGist == [status : Status, labels : SUBSET AllLabel]

ASSUME NoViewAssumption == NoView \notin CardView \cup CardGist

VARIABLES
  enabled,   \* the config key hooks.enabled
  file,      \* hooks.yaml
  run,       \* the command each process runs
  heard,     \* per card, what the last handler that read it saw (a ghost)
  missed     \* per card, the kinds of changes no handler was told of (a ghost)

hookVars == <<enabled, file, run, heard, missed>>
allVars == <<vars, hookVars>>

\* In the rows and the labels a command reads.
ViewIn(rows, lbls, id) ==
  IF id \in DOMAIN rows
  THEN [status |-> rows[id].status, type |-> rows[id].type,
        labels |-> {l \in AllLabel : <<id, l>> \in lbls},
        revision |-> rows[id].revision]
  ELSE NoView

View(id) == ViewIn(cards, labels, id)
Gist(v) == IF v = NoView THEN NoView ELSE [status |-> v.status, labels |-> v.labels]
ViewAfter(id) == ViewIn(cards', labels', id)

-----------------------------------------------------------------------------
(* Loading hooks.                                                          *)

\* parseHook: the filters of one event are not valid for the other.
ValidHook(h) ==
  /\ h.event \in HookEvent
  /\ h.event = "label-change" => h.from = {} /\ h.to = {}
  /\ h.event = "status-change" => h.added = {} /\ h.removed = {}
  /\ h.command

\* One bad entry is an error, and no hook is loaded.  No file, no hooks.
LoadHooksFile(f) == IF \A i \in DOMAIN f : ValidHook(f[i]) THEN f ELSE <<>>

\* A process started by a hook has depth 1.
HooksActive(depth, noHooks) == enabled /\ ~noHooks /\ depth = 0

\* MUTANT of Candidates: creating a card is not a change of status.
CandidatesWithoutCreate(c) ==
  CASE c.op \in {"close", "reopen", "defer"} -> {"status-change"}
    [] c.op = "update" ->
         {e \in HookEvent :
            \/ e = "status-change" /\ (c.in.status # Keep \/ c.in.claim # Nobody)
            \/ e = "label-change" /\ c.in.addLabels \cup c.in.removeLabels # {}}
    [] c.op = "label" -> {"label-change"}
    [] OTHER -> {}

\* The events a command may cause; without one it loads no hooks.
Candidates(c) ==
  CASE c.op \in {"create", "close", "reopen", "defer"} -> {"status-change"}
    [] c.op = "update" ->
         {e \in HookEvent :
            \/ e = "status-change" /\ (c.in.status # Keep \/ c.in.claim # Nobody)
            \/ e = "label-change" /\ c.in.addLabels \cup c.in.removeLabels # {}}
    [] c.op = "label" -> {"label-change"}
    [] OTHER -> {}

loadHookSource(c, depth) ==
  LET hooks == LoadHooksFile(file) IN
  IF /\ HooksActive(depth, c.noHooks)
     /\ \E i \in DOMAIN hooks : hooks[i].event \in Candidates(c)
  THEN hooks ELSE <<>>

-----------------------------------------------------------------------------
(* Deriving and matching events.                                           *)

matchesOne(filter, value) == filter = {} \/ value \in filter
matchesAny(filter, values) == filter = {} \/ filter \cap values # {}

StatusEvent(pre, post) ==
  [event |-> "status-change", type |-> post.type, revision |-> post.revision,
   from |-> IF pre = NoView THEN "" ELSE pre.status, to |-> post.status,
   added |-> {}, removed |-> {}]

LabelEvent(pre, post) ==
  [event |-> "label-change", type |-> post.type, revision |-> post.revision,
   from |-> "", to |-> "", added |-> post.labels \ pre.labels,
   removed |-> pre.labels \ post.labels]

hookMatches(h, ev) ==
  /\ h.event = ev.event
  /\ matchesOne(h.types, ev.type)
  /\ ev.event = "status-change" =>
       matchesOne(h.from, ev.from) /\ matchesOne(h.to, ev.to)
  /\ ev.event = "label-change" =>
       matchesAny(h.added, ev.added) /\ matchesAny(h.removed, ev.removed)

\* The hooks to run for one event, in file order; entry is the place in the file.
MatchHooks(hooks, ev) ==
  LET matching == {i \in DOMAIN hooks : hookMatches(hooks[i], ev)}
      inOrder == CHOOSE s \in [1..Cardinality(matching) -> matching] :
                   \A i, j \in DOMAIN s : i < j => s[i] < s[j]
  IN  [i \in DOMAIN inOrder |->
         [entry |-> inOrder[i], hook |-> hooks[inOrder[i]], event |-> ev]]

\* MUTANT of Fired: the change of status is reported, and the labels are not
\* looked at any more.
FiredStatusElseLabels(c, hooks, pre, post) ==
  IF c.op # "label" /\ (pre = NoView \/ pre.status # post.status)
  THEN MatchHooks(hooks, StatusEvent(pre, post))
  ELSE IF c.op \in {"update", "label"} /\ pre.labels # post.labels
       THEN MatchHooks(hooks, LabelEvent(pre, post)) ELSE <<>>

\* What a command fires: a status that changed, and then, if it is one that
\* sets labels, labels that did.
Fired(c, hooks, pre, post) ==
  (IF c.op # "label" /\ (pre = NoView \/ pre.status # post.status)
   THEN MatchHooks(hooks, StatusEvent(pre, post)) ELSE <<>>)
  \o
  (IF c.op \in {"update", "label"} /\ pre.labels # post.labels
   THEN MatchHooks(hooks, LabelEvent(pre, post)) ELSE <<>>)

-----------------------------------------------------------------------------
(* What a change of a card asks for, whoever makes it: the yardstick the   *)
(* commands are measured with.                                             *)

\* h asks to be run for a change of a card from pre to post.
Concerns(h, pre, post) ==
  \/ /\ h.event = "status-change"
     /\ pre = NoView \/ pre.status # post.status
     /\ hookMatches(h, StatusEvent(pre, post))
  \/ /\ h.event = "label-change"
     /\ pre # NoView /\ pre.labels # post.labels
     /\ hookMatches(h, LabelEvent(pre, post))

\* The places of the entries that do.
Concerned(hooks, pre, post) ==
  {n \in DOMAIN hooks : Concerns(hooks[n], pre, post)}

\* What a handler that is not told would not know.
Kinds(pre, post) ==
  CASE post = NoView -> {}
    [] pre = NoView -> HookEvent
    [] OTHER -> {e \in HookEvent :
                   \/ e = "status-change" /\ pre.status # post.status
                   \/ e = "label-change" /\ pre.labels # post.labels}

\* The commands docs/hooks.md names.
HookedOps == {"create", "update", "label", "close", "reopen", "defer"}

-----------------------------------------------------------------------------
Idle ==
  [pc |-> "idle", command |-> NoCommand, hooks |-> <<>>, active |-> <<>>,
   pre |-> NoView, from |-> NoView, to |-> NoView, todo |-> <<>>, ran |-> <<>>]

HooksInit ==
  /\ Init
  /\ enabled = FALSE
  /\ file \in HookFiles
  /\ run = [p \in Proc |-> Idle]
  /\ heard = [c \in CardId |-> NoView]
  /\ missed = [c \in CardId |-> {}]

InFlight(p) == run[p].pc # "idle"

Begin(p, c) ==
  /\ ~InFlight(p)
  /\ run' = [run EXCEPT ![p].pc = "opened", ![p].command = c]
  /\ UNCHANGED <<vars, enabled, file, heard, missed>>

\* The hooks that are in force for a command as it loads its own.
ActiveHooks(c) ==
  IF c.op \in HookedOps /\ HooksActive(0, c.noHooks)
  THEN LoadHooksFile(file) ELSE <<>>

\* A change that no hook in force asks about goes unheard.
Unheard(c, active, pre, post) ==
  IF Concerned(active, pre, post) = {}
  THEN [missed EXCEPT ![c.id] = @ \cup Kinds(pre, post)]
  ELSE missed

\* Every command but create loads its hooks before its call.
Load(p) ==
  LET c == run[p].command IN
  /\ run[p].pc = "opened" /\ c.op # "create"
  /\ run' = [run EXCEPT ![p].pc = "loaded",
                        ![p].hooks = loadHookSource(c, 0),
                        ![p].active = ActiveHooks(c)]
  /\ UNCHANGED <<vars, enabled, file, heard, missed>>

\* The library call of a command.
Apply(c) ==
  \/ /\ c.op = "create"
     /\ CreateCard(c.id, BuiltinType, c.in.addLabels, FALSE, {})
  \/ c.op \in {"update", "label"} /\ UpdateCard(c.id, c.in)
  \/ c.op = "close" /\ CloseCard(c.id, FALSE)
  \/ c.op = "reopen" /\ ReopenCard(c.id)
  \/ c.op = "defer" /\ DeferCard(c.id, FALSE)
  \/ c.op = "human" /\ HumanCard(c.id, FALSE)
  \/ c.op = "delete" /\ DeleteCard(c.id)

\* MUTANT of Captured: the first attempt of Retry reads it, once.
CapturedOnce(p, id) == IF run[p].pre # NoView THEN run[p].pre ELSE View(id)

\* The card before the call, read in the transaction that changes it.
Captured(p, id) == View(id)

\* An attempt that ends in SQLITE_BUSY and is repeated.  Without hooks the
\* card is not read.
BusyAttempt(p) ==
  /\ run[p].pc = "loaded" /\ run[p].hooks # <<>>
  /\ run' = [run EXCEPT ![p].pre = View(run[p].command.id)]
  /\ UNCHANGED <<vars, enabled, file, heard, missed>>

\* The attempt that commits, of a command that has loaded its hooks.
Call(p) ==
  LET c == run[p].command
      pre == Captured(p, c.id)
      hooks == run[p].hooks
  IN
  /\ run[p].pc = "loaded"
  /\ Apply(c)
  /\ run' = [run EXCEPT ![p].pc = "firing", ![p].from = View(c.id),
                        ![p].to = ViewAfter(c.id),
                        ![p].pre = NoView, ![p].hooks = <<>>,
                        ![p].todo = IF hooks = <<>> THEN <<>>
                                    ELSE Fired(c, hooks, pre, ViewAfter(c.id))]
  /\ missed' = Unheard(c, run[p].active, View(c.id), ViewAfter(c.id))
  /\ UNCHANGED <<enabled, file, heard>>

\* create commits and then loads the hooks.
Create(p) ==
  LET c == run[p].command IN
  /\ run[p].pc = "opened" /\ c.op = "create"
  /\ Apply(c)
  /\ run' = [run EXCEPT ![p].pc = "created", ![p].to = ViewAfter(c.id)]
  /\ UNCHANGED <<enabled, file, heard, missed>>

LoadAfterCreate(p) ==
  LET c == run[p].command
      hooks == loadHookSource(c, 0)
  IN
  /\ run[p].pc = "created"
  /\ run' = [run EXCEPT ![p].pc = "firing", ![p].active = ActiveHooks(c),
                        ![p].todo = Fired(c, hooks, NoView, run[p].to)]
  /\ missed' = Unheard(c, ActiveHooks(c), NoView, run[p].to)
  /\ UNCHANGED <<vars, enabled, file, heard>>

\* The call fails, or finds that there is nothing to change.
Refused(p) ==
  /\ run[p].pc \in {"opened", "loaded"}
  /\ run' = [run EXCEPT ![p] = Idle]
  /\ UNCHANGED <<vars, enabled, file, heard, missed>>

-----------------------------------------------------------------------------
(* Running hooks, one after the other.                                     *)

StartHook(p) ==
  /\ run[p].pc = "firing" /\ run[p].todo # <<>>
  /\ run' = [run EXCEPT ![p].pc = "handler"]
  /\ UNCHANGED <<vars, enabled, file, heard, missed>>

\* The handler reads the card the event is about.
HandlerRead(p) ==
  LET id == run[p].command.id IN
  /\ run[p].pc = "handler"
  /\ run' = [run EXCEPT ![p].pc = "woken"]
  /\ heard' = [heard EXCEPT ![id] = Gist(View(id))]
  /\ missed' = [missed EXCEPT ![id] = {}]
  /\ UNCHANGED <<vars, enabled, file>>

\* The handler runs a command of its own, with BDD_HOOK_DEPTH set; whatever
\* hooks that fires run before the handler goes on.
HandlerCommand(p, c) ==
  LET hooks == loadHookSource(c, 1)
      fired == IF hooks = <<>> THEN <<>>
               ELSE Fired(c, hooks, View(c.id), ViewAfter(c.id))
  IN
  /\ run[p].pc = "woken"
  /\ Apply(c)
  /\ run' = [run EXCEPT ![p].todo = <<Head(@)>> \o fired \o Tail(@)]
  /\ missed' = Unheard(c, <<>>, View(c.id), ViewAfter(c.id))
  /\ UNCHANGED <<enabled, file, heard>>

\* A hook ends: the next one is run, however this one ended.
EndHook(p) ==
  run' = [run EXCEPT ![p].pc = "firing", ![p].todo = Tail(@),
                     ![p].ran = Append(@, Head(run[p].todo))]

HandlerExit(p) ==
  /\ run[p].pc = "woken"
  /\ EndHook(p)
  /\ UNCHANGED <<vars, enabled, file, heard, missed>>

\* MUTANT of HookFails: a handler that hangs is waited for.
HookFailsAtOnce(p) ==
  /\ run[p].pc = "firing" /\ run[p].todo # <<>>
  /\ EndHook(p)
  /\ missed' = [missed EXCEPT ![run[p].command.id] = HookEvent]
  /\ UNCHANGED <<vars, enabled, file, heard>>

\* It cannot be started, fails, or is killed at its timeout.
HookFails(p) ==
  /\ run[p].pc \in {"handler", "woken"}
  /\ EndHook(p)
  /\ missed' = IF run[p].pc = "handler"
               THEN [missed EXCEPT ![run[p].command.id] = HookEvent]
               ELSE missed
  /\ UNCHANGED <<vars, enabled, file, heard>>

Return(p) ==
  /\ run[p].pc = "firing" /\ run[p].todo = <<>>
  /\ run' = [run EXCEPT ![p] = Idle]
  /\ UNCHANGED <<vars, enabled, file, heard, missed>>

\* The process dies; what it had still to fire is lost.
Crash(p) ==
  /\ InFlight(p)
  /\ run' = [run EXCEPT ![p] = Idle]
  /\ missed' = IF run[p].pc = "created" \/ run[p].todo # <<>>
               THEN [missed EXCEPT ![run[p].command.id] = HookEvent]
               ELSE missed
  /\ UNCHANGED <<vars, enabled, file, heard>>

-----------------------------------------------------------------------------
(* What goes on besides commands.                                          *)

Configure ==
  /\ enabled' \in BOOLEAN
  /\ file' \in HookFiles
  /\ <<enabled, file>>' # <<enabled, file>>
  /\ UNCHANGED <<vars, run, heard, missed>>

\* A Go program that uses the library fires nothing.
LibraryCall(id) ==
  /\ ReleaseCard(id, FALSE)
  /\ missed' = [missed EXCEPT ![id] = @ \cup {"status-change"}]
  /\ UNCHANGED <<enabled, file, run, heard>>

\* The steps a process takes by itself, and those of the operating system,
\* which ends a hook at its timeout.
Step(p) ==
  \/ Load(p) \/ Call(p) \/ Create(p) \/ LoadAfterCreate(p) \/ Refused(p)
  \/ StartHook(p) \/ HookFails(p) \/ Return(p)

HooksNext ==
  \/ \E p \in Proc :
       \/ \E c \in Commands : Begin(p, c)
       \/ Step(p)
       \/ BusyAttempt(p)
       \/ HandlerRead(p)
       \/ \E c \in HandlerCommands : HandlerCommand(p, c)
       \/ HandlerExit(p)
       \/ Crash(p)
  \/ Configure
  \/ \E id \in CardId : LibraryCall(id)

HooksSpec == HooksInit /\ [][HooksNext]_allVars

\* A command keeps executing; nothing is asked of a handler, which may hang.
FairHooksSpec == HooksSpec /\ \A p \in Proc : WF_allVars(Step(p))

-----------------------------------------------------------------------------
\* An event reports what its own command did to the card, no more and no
\* less: not what another process committed between two attempts, and not
\* what a handler did with a command of its own.
EventsAreOwnChanges ==
  \A p \in Proc : \A i \in DOMAIN run[p].todo :
    LET ev == run[p].todo[i].event
        from == run[p].from
        to == run[p].to
    IN  \/ /\ ev = StatusEvent(from, to)
           /\ from = NoView \/ from.status # to.status
        \/ /\ from # NoView /\ from.labels # to.labels
           /\ ev = LabelEvent(from, to)

\* docs/hooks.md: "the CLI command doesn't return until every matching hook
\* has run (or timed out)".  A command about to return has run each entry of
\* the file it loaded that asks for its change, and no other: those for the
\* status first and then those for the labels, each in the order of the file,
\* so each once, and twice what the file lists twice.
SynchronousDelivery ==
  \A p \in Proc :
    run[p].pc = "firing" /\ run[p].todo = <<>> =>
      LET ran == run[p].ran
          active == run[p].active
      IN
      /\ {ran[i].entry : i \in DOMAIN ran}
           = Concerned(active, run[p].from, run[p].to)
      /\ \A i \in DOMAIN ran : ran[i].hook = active[ran[i].entry]
      /\ \A i, j \in DOMAIN ran : i < j =>
           \/ /\ ran[i].event.event = ran[j].event.event
              /\ ran[i].entry < ran[j].entry
           \/ /\ ran[i].event.event = "status-change"
              /\ ran[j].event.event = "label-change"

\* The wake signal is enough for a handler that reads the card again,
\* although two commands may commit in one order and fire in the other:
\* once no command on a card is in flight, the handlers have seen its status
\* and its labels, unless the last one to change them fired nothing (hooks
\* off, no hook that asks, a handler's own command, the library) or lost it
\* (a crash, a failed handler).
WakeSignal ==
  \A c \in Live :
    (\A p \in Proc : InFlight(p) => run[p].command.id # c) =>
      /\ "status-change" \notin missed[c] =>
           heard[c] # NoView /\ heard[c].status = cards[c].status
      /\ "label-change" \notin missed[c] =>
           heard[c] # NoView /\ heard[c].labels = View(c).labels

\* A command returns, however long its handlers take.
CommandsReturn == \A p \in Proc : InFlight(p) ~> ~InFlight(p)
=============================================================================
