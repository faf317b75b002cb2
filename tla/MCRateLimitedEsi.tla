-------------------------- MODULE MCRateLimitedEsi --------------------------
(***************************************************************************)
(* Small instances of RateLimitedEsi for TLC: calls of one operation, on   *)
(* one bucket.                                                             *)
(***************************************************************************)
EXTENDS RateLimitedEsi, TLC

CONSTANTS
  assets, charA, MaxTokens, Window,
  Declares    \* the maximum that the spec declares

MCGranted == charA :> [max_tokens |-> MaxTokens, window |-> Window]

MCOperationOf == [r \in Requests |-> assets]

MCSpecLimit ==
  assets :> [group |-> charA, max_tokens |-> Declares, window |-> Window]

MCSymmetry == Permutations(Requests)
=============================================================================
