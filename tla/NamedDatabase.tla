--------------------------- MODULE NamedDatabase ---------------------------
(***************************************************************************)
(* What the path of a workspace database promises to whoever opens it:     *)
(* one set of pages, made empty, changed by committing a transaction, or   *)
(* replaced as a whole by one that was complete before.  Restore is shown  *)
(* to implement it.                                                        *)
(***************************************************************************)
EXTENDS Naturals

CONSTANT Pages

VARIABLES
  rows,      \* the pages an opener reads, each the commits it holds
  last,      \* the number of the last acknowledged commit
  restores,  \* how many snapshots were installed
  past       \* every content there has been, of the path or of a snapshot

vars == <<rows, last, restores, past>>

Init ==
  /\ last = 0 /\ restores = 0
  /\ rows \in past

Create ==
  /\ DOMAIN rows = {} /\ rows' = [p \in Pages |-> {}]
  /\ past' = past \union {rows'}
  /\ UNCHANGED <<last, restores>>

Commit == \E p \in Pages :
  /\ rows' = [rows EXCEPT ![p] = @ \union {last + 1}]
  /\ last' = last + 1
  /\ past' = past \union {rows'}
  /\ UNCHANGED restores

Replace ==
  /\ rows' \in past
  /\ restores' = restores + 1
  /\ UNCHANGED <<last, past>>

Next == Create \/ Commit \/ Replace

Spec == Init /\ [][Next]_vars

=============================================================================
