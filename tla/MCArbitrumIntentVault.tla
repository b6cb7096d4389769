------------------------ MODULE MCArbitrumIntentVault ------------------------
(* One vault, two recipients, and the VAAs that differ in what it looks at.  *)
EXTENDS ArbitrumIntentVault

CONSTANTS t1, t2, e1, e2, alice, bob

Transfer(e, t, amount, recipient) ==
  [chain |-> 56, emitter |-> e, valid |-> TRUE, txId |-> t, long |-> TRUE,
   targetChain |-> EvmChainId, targetContract |-> ThisVault,
   intentType |-> TRANSFER, amount |-> amount, recipient |-> recipient]

\* Three transfers, two of them under one transaction id; then one of no known
\* type, one of type NONE and those that the vault refuses.
MCVm ==
  { Transfer(e1, t1, 1, alice),
    Transfer(e1, t2, 2, alice),
    Transfer(e2, t1, 3, bob),
    [Transfer(e1, t2, 2, bob) EXCEPT !.intentType = NONE],
    [Transfer(e1, t2, 2, bob) EXCEPT !.intentType = 2],
    [Transfer(e1, t1, 4, bob) EXCEPT !.targetContract = "another"],
    [Transfer(e1, t1, 5, bob) EXCEPT !.valid = FALSE],
    [Transfer(e1, t1, 6, bob) EXCEPT !.long = FALSE],
    Transfer(e1, t1, 0, bob),
    Transfer(e1, t1, 7, NoAccount) }
=============================================================================
