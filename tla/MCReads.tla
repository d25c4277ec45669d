------------------------------- MODULE MCReads -------------------------------
(***************************************************************************)
(* One reader of two cards, one custom status, and everything that commits *)
(* between its statements.                                                 *)
(***************************************************************************)
EXTENDS Reads, TLC

Nothing ==
  [status |-> Keep, type |-> Keep, claim |-> Nobody, fields |-> FALSE,
   addLabels |-> {}, removeLabels |-> {}, addParents |-> {},
   removeParents |-> {}, addChildren |-> {}, removeChildren |-> {}]

\* One update that lifts the human label and claims; moves into and out of
\* the custom status.
MCUpdateInput ==
  {[Nothing EXCEPT !.claim = a, !.removeLabels = {HumanLabel}] : a \in Actor}
    \cup {[Nothing EXCEPT !.status = s] : s \in CustomStatus \cup {"open"}}

MCPageOptions ==
  {OnlyLabels({}), [OnlyLabels({}) EXCEPT !.statuses = CustomStatus]}

\* No property below is about the audit trail.
WithoutTrail == <<cards, edges, labels, notes, statusDefs, reader>>

Symmetry == Permutations(CardId)
=============================================================================
