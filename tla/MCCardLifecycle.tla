--------------------------- MODULE MCCardLifecycle ---------------------------
(***************************************************************************)
(* One card through every status and category, with the configuration      *)
(* changing under them: the UpdateCard calls are those that touch one      *)
(* field at a time, and a claim combined with another field.               *)
(***************************************************************************)
EXTENDS CardStore

Nothing ==
  [status |-> Keep, type |-> Keep, claim |-> Nobody, fields |-> FALSE,
   addLabels |-> {}, removeLabels |-> {}, addParents |-> {},
   removeParents |-> {}, addChildren |-> {}, removeChildren |-> {}]

MCUpdateInput ==
  {[Nothing EXCEPT !.status = s] :
     s \in {"in_progress", "open", "closed"} \cup CustomStatus}
  \cup {[Nothing EXCEPT !.claim = a, !.fields = f] :
          a \in Actor, f \in BOOLEAN}
  \cup {[Nothing EXCEPT !.type = t] : t \in Type}
  \cup {[Nothing EXCEPT !.removeLabels = {"human"}]}
=============================================================================
