----------------------------- MODULE MCRestore -----------------------------
(* Small instances of Restore: a database of two pages. *)
EXTENDS Restore, TLC

CONSTANTS h1, h2, r1, p1, p2

TwoHandles == {h1, h2}
OneHandle == {h1}
OneRestorer == {r1}
TwoPages == {p1, p2}

=============================================================================
