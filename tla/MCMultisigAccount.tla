------------------------- MODULE MCMultisigAccount -------------------------
(* MultisigAccount on three addresses and three keys, with a signature slot  *)
(* for each of three signers.                                              *)
EXTENDS MultisigAccount, TLC

CONSTANTS s1, s2, s3, k1, k2, k3, i1

\* One message of each kind for whom it is interesting: an address that joins
\* and leaves, possibly under a new key, a threshold up and down, an intent.
MCProposal ==
  { [op |-> "add", signer |-> s3, key |-> k3, deadline |-> 1],
    [op |-> "add", signer |-> s1, key |-> k2, deadline |-> 1],
    [op |-> "remove", signer |-> s1, deadline |-> 1],
    [op |-> "threshold", threshold |-> 3, deadline |-> 1],
    [op |-> "threshold", threshold |-> 1, deadline |-> 1],
    [op |-> "intent", intent |-> i1, deadline |-> 1] }

Pair == s1 :> k1 @@ s2 :> k2
Trio == s1 :> k1 @@ s2 :> k2 @@ s3 :> k3

\* Two signers with room for a third, and a full house, under every threshold
\* that the constructor is called with, refused ones included.
MCFounding == [keys : {Pair, Trio}, threshold : 0..4]

\* The 1-of-2 and 2-of-3 accounts that the CLI creates (create-multisig asks
\* for a threshold of at least one).
MCUsualFounding ==
  { [keys |-> Pair, threshold |-> 1], [keys |-> Trio, threshold |-> 2] }

\* A 2-of-3 account, two of whose signers may leave; one may come back.
MCTwoOfThree == { [keys |-> Trio, threshold |-> 2] }

MCRemovals ==
  { [op |-> "remove", signer |-> s1, deadline |-> 1],
    [op |-> "remove", signer |-> s2, deadline |-> 1],
    [op |-> "add", signer |-> s1, key |-> k2, deadline |-> 1] }
=============================================================================
