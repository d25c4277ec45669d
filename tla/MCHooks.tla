------------------------------- MODULE MCHooks -------------------------------
(***************************************************************************)
(* Two shells and one card: commands with and without hooks, a handler     *)
(* that answers every event with a command of its own, and a hooks.yaml    *)
(* that is edited and broken.                                              *)
(***************************************************************************)
EXTENDS Hooks

Nothing ==
  [status |-> Keep, type |-> Keep, claim |-> Nobody, fields |-> FALSE,
   addLabels |-> {}, removeLabels |-> {}, addParents |-> {},
   removeParents |-> {}, addChildren |-> {}, removeChildren |-> {}]

Cmd(op, id, in) == [op |-> op, id |-> id, in |-> in, noHooks |-> FALSE]

ClaimAndLabel(a) == [Nothing EXCEPT !.claim = a, !.addLabels = {"merge"}]

MCCommands ==
  UNION {
    {Cmd("create", id, Nothing),
     [Cmd("human", id, Nothing) EXCEPT !.noHooks = TRUE],
     Cmd("label", id, [Nothing EXCEPT !.removeLabels = {"merge"}])}
    \cup {Cmd("update", id, ClaimAndLabel(a)) : a \in Actor}
    : id \in CardId}

MCHandlerCommands ==
  {Cmd("update", id, [Nothing EXCEPT !.status = "awaiting_review"]) :
     id \in CardId}

MCUpdateInput == {c.in : c \in MCCommands \cup MCHandlerCommands}

AnyHook ==
  [event |-> "status-change", types |-> {}, from |-> {}, to |-> {},
   added |-> {}, removed |-> {}, command |-> TRUE]

\* Chosen changes, labels listed first and one entry twice; and the same with
\* a bad entry.
Chosen ==
  <<[AnyHook EXCEPT !.event = "label-change", !.added = {"merge"}],
    [AnyHook EXCEPT !.to = {"open", "in_progress", "awaiting_review"}],
    [AnyHook EXCEPT !.types = {"spike"}],
    [AnyHook EXCEPT !.event = "label-change", !.added = {"merge"}]>>

MCHookFiles == {Chosen, Append(Chosen, [AnyHook EXCEPT !.command = FALSE])}
=============================================================================
