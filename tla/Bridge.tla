------------------------------- MODULE Bridge -------------------------------
(***************************************************************************)
(* An intent's way from the account on Aztec to the payment on Arbitrum:   *)
(* the account publishes it (MultisigAccount), the guardians sign VAAs of  *)
(* it, the spy hands them to the relayer (Relayer), whose transactions the  *)
(* node takes and mines in the order of their nonces, and the vault        *)
(* (ArbitrumIntentVault) executes them, or reverts.                        *)
(*                                                                         *)
(* Neither the relayer nor the vault looks at a VAA's emitter, so there are *)
(* VAAs of others too: the guardians sign whatever an emitter publishes,    *)
(* and anyone may submit any VAA to the vault.                             *)
(***************************************************************************)
EXTENDS Relayer, Sequences, IntentPayload

CONSTANTS
  Owner, Other, Chain, Emitter, NoEmitter, EvmChain, EvmChainId, Account,
  NoAccount, ThisVault,   \* of the vault; addresses are numbers
  TxId,         \* the ids of the transactions that publish
  Publication,  \* what they publish: TxId -> IntentBytes
  AccountEmitter,  \* the account, as the emitter of its publications
  EmitterOf,    \* who published a VAA's payload: Vaa -> Emitter
  TxIdOf,       \* what a VAA carries: Vaa -> TxId
  PayloadOf,    \* ... and its fields: Vaa -> IntentBytes
  MaxOutside    \* bound: the calls of verify by others than the relayer

OfAccount(v) == EmitterOf[v] = AccountEmitter

\* The payload of any other emitter is whatever it likes, the id included.
ASSUME PublicationAssumption ==
  /\ Publication \in [TxId -> IntentBytes]
  /\ \A t \in TxId : Fits(Publication[t])
  /\ TxIdOf \in [Vaa -> TxId]
  /\ PayloadOf \in [Vaa -> IntentBytes]
  /\ \A v \in Vaa : OfAccount(v) => PayloadOf[v] = Publication[TxIdOf[v]]
ASSUME MaxOutsideAssumption == MaxOutside \in Nat

VARIABLES
  published,  \* the transactions that published so far
  mempool,    \* the VAAs of the transactions the node accepted and did not mine yet
  outside,    \* calls of verify by others
  registeredEmitters, arbitrumMessages, blockChainId, paid,
  intentAmounts, intentTypes, intentTargets, calls,
  taken,      \* history: the VAAs that the vault executed
  ownPaid     \* history: of "paid", what the account's own VAAs paid

vaultVars  == <<registeredEmitters, arbitrumMessages, blockChainId, paid,
                intentAmounts, intentTypes, intentTargets, calls>>
ledger     == <<vaultVars, taken, ownPaid>>
bridgeVars == <<relayerVars, published, mempool, outside, ledger>>

\* What the vault decodes of each VAA.  A transaction id is only compared.
Vm ==
  [v \in Vaa |->
     LET d == Decoded(Payload([i \in 0..31 |-> 0], PayloadOf[v]))
     IN  [chain |-> 56, emitter |-> EmitterOf[v], valid |-> TRUE, long |-> TRUE,
          txId |-> TxIdOf[v],
          targetChain |-> Value(d.targetChain, 31),
          targetContract |-> Value(d.targetContract, 20),
          intentType |-> Value(d.intentType, 30),
          amount |-> Value(d.amount, 31),
          recipient |-> Value(d.recipient, 20)]]

\* Account is every address but the zero address.
ASSUME RecipientAssumption ==
  \A v \in Vaa : Vm[v].recipient \in Account \cup {NoAccount}

\* What the account meant.
Meant == [t \in TxId |-> [f \in Field |-> Value(Publication[t][f], 32)]]

V == INSTANCE ArbitrumIntentVault WITH
       Vm <- {Vm[v] : v \in Vaa}, MaxCalls <- MaxDeliveries + MaxOutside

BridgeTypeOK ==
  /\ RelayerTypeOK
  /\ V!IntentTypeOK
  /\ published \subseteq TxId
  /\ mempool \in Seq(Vaa)
  /\ Len(mempool) <= pendingNonce
  /\ outside \in 0..MaxOutside
  /\ taken \subseteq Vaa
  /\ DOMAIN ownPaid = Account
  /\ \A a \in Account : ownPaid[a] \in 0..paid[a]

BridgeInit ==
  /\ RelayerInit
  /\ V!IntentInit
  /\ published = {}
  /\ mempool = <<>>
  /\ outside = 0
  /\ taken = {}
  /\ ownPaid = [a \in Account |-> 0]

Publish(t) ==
  /\ t \notin published
  /\ published' = published \cup {t}
  /\ UNCHANGED <<relayerVars, mempool, outside, ledger>>

\* The guardians sign what was published, by whomever.
Signed(v) == OfAccount(v) => TxIdOf[v] \in published

Deliver(v) ==
  /\ Signed(v)
  /\ DropProcessed(v) \/ DropInflight(v) \/ \E w \in Worker : Accept(v, w)
  /\ UNCHANGED <<published, mempool, outside, ledger>>

\* The node keeps what it accepted.
Send(w) ==
  /\ SendTransaction(w)
  /\ mempool' = Append(mempool, worker[w].vaa)
  /\ UNCHANGED <<published, outside, ledger>>

RelayerStep ==
  /\ \/ \E w \in Worker : \/ Dispatch(w) \/ GetNonce(w) \/ RpcError(w)
                          \/ NonceTaken(w) \/ Finish(w)
     \/ StreamError \/ Resubscribe \/ Shutdown \/ Stop \/ Crash \/ Restart \/ Tick
  /\ UNCHANGED <<published, mempool, outside, ledger>>

\* A call of verify that returns.
Take(v) ==
  /\ V!Verify(Vm[v])
  /\ taken' = taken \cup {v}
  /\ ownPaid' = IF OfAccount(v) THEN [a \in Account |-> ownPaid[a] + paid'[a] - paid[a]]
                                ELSE ownPaid

\* The vault executes the VAA, or the transaction reverts: nobody is told.
Mine ==
  /\ mempool # <<>>
  /\ mempool' = Tail(mempool)
  /\ IF V!Accepts(Vm[Head(mempool)]) THEN Take(Head(mempool)) ELSE UNCHANGED ledger
  /\ UNCHANGED <<relayerVars, published, outside>>

SubmitOutside(v) ==
  /\ Signed(v)
  /\ outside < MaxOutside
  /\ outside' = outside + 1
  /\ Take(v)
  /\ UNCHANGED <<relayerVars, published, mempool>>

BridgeNext ==
  \/ \E t \in TxId : Publish(t)
  \/ \E v \in Vaa : Deliver(v) \/ SubmitOutside(v)
  \/ \E w \in Worker : Send(w)
  \/ RelayerStep
  \/ Mine

\* Accepted transactions are mined.
BridgeSpec == BridgeInit /\ [][BridgeNext]_bridgeVars /\ WF_bridgeVars(Mine)

-----------------------------------------------------------------------------
(* Properties *)

\* As long as the vault took no VAA of another emitter with that transaction id,
\* what it has on record under it is the intent that the account published in the
\* transaction, field by field: the bytes that the contract cuts and those that
\* the vault reads agree.  (A VAA of another emitter overwrites the record: _verify
\* does not call verifyAuthorizedEmitter, although README.md says that the emitter
\* is checked.)
OwnRecordsArePublished ==
  \A t \in TxId :
    arbitrumMessages[t] > 0 /\ (\A v \in taken : TxIdOf[v] = t => OfAccount(v)) =>
    /\ t \in published
    /\ Meant[t]["target_chain"] = blockChainId
    /\ Meant[t]["target_contract"] = ThisVault
    /\ intentTypes[t] = Meant[t]["intent_type"]
    /\ intentAmounts[t] = Meant[t]["amount"]
    /\ intentTargets[t] = Meant[t]["recipient"]

\* The account's own VAAs pay nobody whom the account did not mean to pay: who has
\* tokens through them is the recipient of a transfer that the account published
\* for this vault and chain, has at least its amount through them, and something
\* is on record for it.  Whatever else somebody has, a VAA of another emitter names
\* him: the vault takes those as well.
OwnVaasPayAsMeant ==
  \A a \in Account :
    /\ ownPaid[a] > 0 =>
         \E t \in published :
           /\ Meant[t]["target_chain"] = blockChainId
           /\ Meant[t]["target_contract"] = ThisVault
           /\ Meant[t]["intent_type"] = V!TRANSFER
           /\ Meant[t]["recipient"] = a
           /\ Meant[t]["amount"] <= ownPaid[a]
           /\ arbitrumMessages[t] > 0
    /\ paid[a] # ownPaid[a] =>
         \E v \in taken :
           ~OfAccount(v) /\ Vm[v].intentType = V!TRANSFER /\ Vm[v].recipient = a

\* The vault pays any VAA as often as it gets it, so what bounds the payments is
\* the relayer: one transaction for a delivery, whatever fails, is late or is
\* restarted.
PaidPerDelivery == calls <= deliveries + outside

\* What the relayer calls processed is not lost: as long as it drops redeliveries
\* of a VAA that the vault takes, the VAA's transaction waits at the node or the
\* vault has taken it, whatever nonce, restart or timeout came between.
Waits(v) == \E i \in DOMAIN mempool : mempool[i] = v

AcknowledgedIsSubmitted ==
  \A v \in Vaa :
    lastSuccess[v] # Never /\ Route[v] = "arbitrum" /\ V!Accepts(Vm[v]) =>
      v \in taken \/ Waits(v)

\* A VAA that the relayer calls processed, and whose redeliveries it therefore
\* suppresses, is executed in the end if the vault takes it at all.
AcknowledgedIsPaid ==
  \A v \in Vaa :
    lastSuccess[v] # Never /\ Route[v] = "arbitrum" /\ V!Accepts(Vm[v]) ~> v \in taken
=============================================================================
