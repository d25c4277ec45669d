----------------------------- MODULE MCEntries -----------------------------
(* Small instances of Entries. *)
EXTENDS Entries, TLC

EntriesSymmetry == Permutations(Client) \cup Permutations(Body)

=============================================================================
