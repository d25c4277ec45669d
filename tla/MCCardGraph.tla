----------------------------- MODULE MCCardGraph -----------------------------
(***************************************************************************)
(* Three cards and every graph on them, with deleted ids coming back: the  *)
(* UpdateCard calls are those that change several edges at once.           *)
(***************************************************************************)
EXTENDS CardStore, TLC

Nothing ==
  [status |-> Keep, type |-> Keep, claim |-> Nobody, fields |-> FALSE,
   addLabels |-> {}, removeLabels |-> {}, addParents |-> {},
   removeParents |-> {}, addChildren |-> {}, removeChildren |-> {}]

\* Parents and children added by one call, and the same with a parent or a
\* child removed again by it.
MCUpdateInput ==
  {[Nothing EXCEPT !.addParents = ps, !.addChildren = cs] :
     ps \in SUBSET CardId, cs \in SUBSET CardId}
  \cup {[Nothing EXCEPT !.addParents = {p}, !.removeParents = {p},
                        !.addChildren = {c}] : p \in CardId, c \in CardId}
  \cup {[Nothing EXCEPT !.status = "closed", !.removeChildren = {c}] :
          c \in CardId}

\* The ids are interchangeable: no constant or action names one of them.
CardSymmetry == Permutations(CardId)
=============================================================================
