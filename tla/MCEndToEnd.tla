----------------------------- MODULE MCEndToEnd -----------------------------
(* A two-of-two account and two intents: a transfer to this vault, which has  *)
(* two transactions it could be executed in, and one to another vault; and a *)
(* VAA of another emitter, a transfer to this vault under the id of the      *)
(* account's.                                                                *)
EXTENDS EndToEnd, TLC

CONSTANTS s1, s2, k1, k2, e1, e2, here, there

Bytes(n) == [i \in 0..31 |-> IF i < 29 THEN 0 ELSE (n \div 256^(31 - i)) % 256]

Transfer(contract, amount, recipient) ==
  [f \in Field |-> CASE f = "target_chain"    -> Bytes(EvmChainId)
                     [] f = "target_contract" -> Bytes(contract)
                     [] f = "intent_type"     -> Bytes(1)
                     [] f = "amount"          -> Bytes(amount)
                     [] f = "recipient"       -> Bytes(recipient)]

MCFieldsOf == here :> Transfer(ThisVault, 300, 258) @@ there :> Transfer(ThisVault + 1, 5, 259)

MCProposal ==
  { [op |-> "intent", intent |-> here, deadline |-> 1],
    [op |-> "intent", intent |-> there, deadline |-> 1] }

MCFounding == [keys : {s1 :> k1 @@ s2 :> k2}, threshold : {2}]

MCPublication == [t \in TxId |-> MCFieldsOf[IF t = "there" THEN there ELSE here]]

MCTxIdOf == [v \in Vaa |-> IF v = "there1" THEN "there" ELSE "here"]

MCEmitterOf == [v \in Vaa |-> IF v = "foreign" THEN e2 ELSE e1]

MCPayloadOf == [v \in Vaa |-> IF v = "foreign" THEN Transfer(ThisVault, 7, 259)
                                               ELSE MCPublication[MCTxIdOf[v]]]

MCRoute == [v \in Vaa |-> "arbitrum"]
=============================================================================
