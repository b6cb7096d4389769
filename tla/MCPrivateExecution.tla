------------------------- MODULE MCPrivateExecution -------------------------
(* Two commands executing proposals of one account at the same time.        *)
EXTENDS PrivateExecution, TLC

CONSTANTS s1, s2, s3, k1, k2, k3, i1

MCProposal ==
  { [op |-> "add", signer |-> s3, key |-> k3, deadline |-> 1],
    [op |-> "remove", signer |-> s2, deadline |-> 1],
    [op |-> "threshold", threshold |-> 2, deadline |-> 1],
    [op |-> "intent", intent |-> i1, deadline |-> 1] }

\* One signer with room for another, and a full house.
MCFounding ==
  { [keys |-> s1 :> k1, threshold |-> 1],
    [keys |-> s1 :> k1 @@ s2 :> k2, threshold |-> 1],
    [keys |-> s1 :> k1 @@ s2 :> k2, threshold |-> 2] }
=============================================================================
