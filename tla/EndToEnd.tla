------------------------------ MODULE EndToEnd ------------------------------
(***************************************************************************)
(* The whole way, from the signatures of the owners to the payment: the    *)
(* account (MultisigAccount) and the bridge (Bridge) composed.  The Aztec  *)
(* transaction that executes a cross-chain intent is the one that publishes *)
(* it, with the fields that were signed, if it was told the address of      *)
(* Wormhole; no other step concerns both.                                  *)
(***************************************************************************)
EXTENDS MultisigAccount, Bridge

CONSTANT FieldsOf   \* the bytes of the five fields of each intent

ASSUME FieldsOfAssumption == FieldsOf \in [Intent -> IntentBytes]

\* The same as numbers.
Says == [i \in Intent |-> [f \in Field |-> Value(FieldsOf[i][f], 32)]]

VARIABLE
  approval   \* history: what the transactions that published executed, who had
             \* signed it, and the threshold at that moment

endToEndVars == <<vars, bridgeVars, approval>>

EndToEndInit ==
  /\ Init
  /\ BridgeInit
  /\ approval = [t \in {} |-> {}]

\* execute_cross_chain_intent: the hash that was signed is over the fields that
\* go into the payload.
ExecuteAndPublish(m, t) ==
  /\ ExecuteCrossChainIntent(m, Wormhole)
  /\ Publication[t] = FieldsOf[m.intent]
  /\ Publish(t)
  /\ approval' = [u \in published' |->
                    IF u = t THEN [message |-> m, backers |-> Backers(m), threshold |-> threshold]
                             ELSE approval[u]]

\* The message goes to a contract that is not Wormhole: nobody signs a VAA of it.
ExecuteAstray(m) ==
  \E wormhole_address \in WormholeAddress \ {Wormhole} :
    ExecuteCrossChainIntent(m, wormhole_address)

AccountStep ==
  /\ \/ \E k \in Key, m \in Proposal : Sign(k, m)
     \/ \E m \in Proposal : \/ AddSigner(m) \/ RemoveSigner(m) \/ ChangeThreshold(m)
                            \/ ExecuteAstray(m)
  /\ UNCHANGED <<bridgeVars, approval>>

BridgeStep ==
  /\ \/ \E v \in Vaa : Deliver(v) \/ SubmitOutside(v)
     \/ \E w \in Worker : Send(w)
     \/ RelayerStep
     \/ Mine
  /\ UNCHANGED <<vars, approval>>

EndToEndNext ==
  \/ \E m \in Proposal, t \in TxId : ExecuteAndPublish(m, t)
  \/ AccountStep
  \/ BridgeStep

EndToEndSpec ==
  EndToEndInit /\ [][EndToEndNext]_endToEndVars /\ WF_bridgeVars(Mine)

-----------------------------------------------------------------------------
(* Properties *)

Approves(t, m) ==
  /\ approval[t].message = m
  /\ approval[t].backers # {}
  /\ Cardinality(approval[t].backers) >= approval[t].threshold
  /\ \A s \in approval[t].backers : \E k \in Key : <<k, m>> \in signed

\* Nobody has tokens of the vault through the account's own VAAs but by the word of
\* the signers: for whoever has, there is an intent to this vault, with this
\* recipient and no larger amount, that a threshold of members, as it was then,
\* had signed when it was executed, and it was published in one transaction only.
\* (Of the tokens that VAAs of other emitters bring, no signer knows: the vault
\* does not compare the emitter.)
OwnPaymentsAreBacked ==
  \A a \in Account : ownPaid[a] > 0 =>
    \E m \in Proposal, t \in published :
      /\ m.op = "intent"
      /\ Says[m.intent]["target_chain"] = blockChainId
      /\ Says[m.intent]["target_contract"] = ThisVault
      /\ Says[m.intent]["recipient"] = a
      /\ Says[m.intent]["amount"] <= ownPaid[a]
      /\ Approves(t, m)
      /\ \A u \in published : approval[u].message = m => u = t
=============================================================================
