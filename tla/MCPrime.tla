------------------------------- MODULE MCPrime -------------------------------
(* One process that changes two runes and two memories, and prime. *)
EXTENDS Prime, TLC

\* A required content fills half of the budget, an optional one is short.
MCDesignation == [b \in Body |-> IF b = "short" THEN "optional" ELSE "required"]
MCSize == [b \in Body |-> IF b = "short" THEN 1 ELSE 2]

MCPrimeArgs ==
  {[noMemories |-> TRUE, haveLimit |-> FALSE, limit |-> 0],
   [noMemories |-> FALSE, haveLimit |-> TRUE, limit |-> 0]}

\* The audit trail, and what the other process has read or done before, is
\* of no interest.
WithoutTrail ==
  <<runes, lives, memories, prime, standing,
    [c \in Client |-> IF client[c].pc = "idle" THEN <<"idle">>
                      ELSE <<client[c].pc, client[c].key, client[c].force>>]>>

Symmetry == Permutations(RuneKey)
=============================================================================
