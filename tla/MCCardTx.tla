------------------------------- MODULE MCCardTx -------------------------------
(***************************************************************************)
(* Two handles on one database: calls that compete for the row of a card,  *)
(* for the edges between two, and for a custom status one of them uses.    *)
(***************************************************************************)
EXTENDS CardTx

Nothing ==
  [status |-> Keep, type |-> Keep, claim |-> Nobody, fields |-> FALSE,
   addLabels |-> {}, removeLabels |-> {}, addParents |-> {},
   removeParents |-> {}, addChildren |-> {}, removeChildren |-> {}]

ToReview == [Nothing EXCEPT !.status = "review"]
ClaimAndWait ==
  {[Nothing EXCEPT !.claim = a, !.addParents = {"c2"}] : a \in Actor}

MCUpdateInput == {ToReview} \cup ClaimAndWait

\* The row of card c1, which may be deleted and made anew.
RowCalls ==
  [op : {"create"}, id : {"c1"}, type : {BuiltinType}, labels : {{}},
   reason : {FALSE}, parents : {{}}]
    \cup [op : {"claim"}, id : {"c1"}, actor : Actor]
    \cup [op : {"delete"}, id : {"c1"}]

\* The edges between c1 and c2, one of which can be taken back.
EdgeCalls ==
  [op : {"create"}, id : {"c2"}, type : {BuiltinType}, labels : {{}},
   reason : {FALSE}, parents : {{}}]
    \cup [op : {"add_edge"}, parent : {"c1"}, child : {"c2"}]
    \cup [op : {"remove_edge"}, parent : {"c2"}, child : {"c1"}]
    \cup [op : {"update"}, id : {"c1"}, in : ClaimAndWait, pre : {FALSE}]

\* A status that is taken away while a card gets it.
ConfigCalls ==
  [op : {"update"}, id : {"c1"}, in : {ToReview}, pre : {FALSE}]
    \cup [op : {"set_status"},
          new : {[s \in {} |-> "active"], [s \in {"review"} |-> "wip"]}]

TwoCardCalls == RowCalls \cup EdgeCalls \cup ConfigCalls
=============================================================================
