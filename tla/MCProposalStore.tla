-------------------------- MODULE MCProposalStore --------------------------
(* Two processes of the CLI and two signers, one of whom leaves and comes    *)
(* back, and can sign in between.                                          *)
EXTENDS ProposalStore

CONSTANTS s1, s2, k1, k2, i1

MCKeyOf == s1 :> k1 @@ s2 :> k2

MCProposal ==
  { [op |-> "add", signer |-> s2, key |-> k2, deadline |-> 1],
    [op |-> "remove", signer |-> s2, deadline |-> 1],
    [op |-> "threshold", threshold |-> 2, deadline |-> 1],
    [op |-> "intent", intent |-> i1, deadline |-> 1] }

\* A 1-of-2 account: proposals of every kind are possible at once.
MCFounding == { [keys |-> s1 :> k1 @@ s2 :> k2, threshold |-> 1] }

ProcessSymmetry == Permutations(Command)
=============================================================================
