# Aztec cross-chain multisig: models, checks and proofs

TLA+ modules for the parts of this repository that have state worth reasoning
about, TLC configurations that check them on small instances, and TLAPS proofs
about them. Paths below are relative to the repository (`src/`).

    tlasany MultisigAccount.tla
    tlc -workers 2 -config MCMultisigAccount.cfg MCMultisigAccount
    tlapm MultisigAccount_proofs.tla

## 1. The system and its parts

A group of signers owns a multisig account, a contract on Aztec. They propose,
sign and execute operations with a CLI. One of the operations publishes a
*cross-chain intent* through Wormhole; a relayer picks the signed message (VAA)
up and submits it to a vault on Arbitrum, which pays.

    CLI processes --- JSON files (proposals, signatures, multisigs, signers)
        |  execute-*  (every signer holds the shared master account)
        v
    PXE of the caller --- proved transaction ---> MultisigAccount (Aztec)
                                                     | publish
                                                     v
                                        Wormhole guardians and spy (external)
                                                     | VAA, at least once
                                                     v
                                                  relayer
                                  ________________/       \_______________
                                 v                                        v
           ArbitrumIntentVault / Vault                 verification service, else PXE
                                 |                                        |
                        Donation token                              Aztec contract

| Part | State | Operations | What makes it correct |
|---|---|---|---|
| Multisig account, `aztec-contracts/src/main.nr` | threshold, signer count, `is_signer`, key coordinates, executed hashes: private notes | constructor, `add_signer`, `remove_signer`, `change_threshold`, `execute_cross_chain_intent` | no change without a threshold of different members behind it at that moment; nothing takes effect twice; the threshold stays reachable; a key is bound to a membership |
| Private execution of it (PXE, kernel, sequencer) | proved transactions under way | prove, include, drop | transactions proved at the same time against the same notes behave as if they ran one after the other |
| CLI proposals, `cli/index.ts`, `cli/src/proposal-manager.ts` | `pending-proposals.json`, `pending-signatures.json`, the entry in `multisigs.json` | `propose-*`, `sign-proposal`, four `execute-*`, `clean` | the files say nothing that did not happen; a signature that was reported is kept; no shortcut past the account |
| Relayer, `relayer/relayer.go` | `inflightVAAs`, `processedVAAs`, goroutines, the subscription, the account's nonce | receive, deduplicate, submit to Arbitrum or Aztec, time out, shut down | one goroutine for a VAA at a time, no repeat within the TTL, nothing suppressed that was not submitted, shutdown ends |
| VAA verification service, `relayer/aztec-vaa-service` | none between requests | `POST /verify` | modelled as what the relayer sees of it |
| Intent vault, `arbitrum-contracts/src/ArbitrumIntentVault.sol` | registered emitters, records by transaction id | `registerEmitter`, `verify` | what is recorded is paid; the account's own VAAs pay what it published (VAAs of other emitters are believed as well: section 3) |
| Older vault, `Vault.sol` | registered emitters, recorded amounts | `registerEmitter`, `verify` | pays exactly what is recorded, once |
| Creation of multisigs and signers, `create_multisig.ts`, `signer-manager.ts`, `arbitrum-deployer.ts` | `signers.json`, `multisigs.json`, `arbitrum-proxies.json`, `global-state.json`, deployed contracts, registered emitters | `create-signer`, `create-multisig`, `use-*`, `clean` | what is saved is complete: deployed, with the signers it names, its keys handed to all, and a proxy of its own |
| WebRTC exchange, `webrtc-signaling.ts`, `webrtc-client.ts`, `signaling-server.ts` | the loop, sockets by name, messages under way, peer connections, channels | join, offer, answer, candidate, wait, send, close | every recipient is handed the shared account, or the creator learns that one was not; it ends and leaves nothing open |
| Portal, PXE set-up, deployment scripts | little or none | one-off calls | not modelled, see section 8 |
| Wormhole | guardians, spy, core contracts | external | VAAs are inputs, delivered in any order and number |

The behaviours that are hard here: several holders of one master account that
execute at once against notes that may be stale; CLI processes that share files
without locks and hold what they read across an `await`; commands that end
between the chain's step and the file's; a relayer with at-least-once input, a
clock, time-outs that race late answers and memory that a restart loses; and
vaults called by anybody, in any order, again; a destination of intents that the
signers do not sign; and a creation of ten awaited steps,
with a WebRTC exchange in the middle, of which any may fail. `PROJECT.json` lists each hazard
with its line and the properties aimed at it.

## 2. The modules

| Module | Models | How |
|---|---|---|
| `MultisigAccount` | the contract | one atomic action per function, guards in the order of the assertions, plus `Sign` for the holders of keys |
| `PrivateExecution` | the same calls as Aztec runs them | `Prove*` (reading notes), `Include` (nullifiers, new notes), `Drop`; refines `MultisigAccount` |
| `ProposalStore` | CLI commands, their files, and the account | extends `MultisigAccount`; a command is a process with a step and what it has read |
| `Registry` | the commands that create signers and multisigs, their files, and what they deploy | one action per awaited step, `Abort` between any two |
| `Exchange` | the exchange of the shared account over WebRTC | loop, server, handlers and the external library; refines `SharedStateExchange` |
| `SharedStateExchange` | what `createMultisig` relies on when it awaits the exchange | three actions: hand, return, throw |
| `Relayer` | `relayer.go` with the two chains and the service as it sees them | receive loop, one state machine per goroutine, clock |
| `VaultState` | what both vaults inherit, and the Donation token | shared state and helpers |
| `Vault`, `ArbitrumIntentVault` | the two vaults | `verify` and `registerEmitter` of each; the names of the older one begin with `Vault`, so that `Vaults_proofs` can extend both |
| `IntentPayload` | the bytes of an intent, as the contract cuts and the vault reads them | operators on words of 32 bytes |
| `Bridge` | publication, VAAs, relayer, mempool, vault | extends `Relayer`, instantiates `ArbitrumIntentVault`, decodes with `IntentPayload` |
| `EndToEnd` | the account and the bridge together | extends `MultisigAccount` and `Bridge`; one joint action, `ExecuteAndPublish` |
| `*_proofs` | | the theorems about each, with their proofs |
| `MC*` | | instances for TLC |

**MultisigAccount.** The variables `threshold`, `signerCount`, `members`,
`pubkey`, `executed` are the contract's storage (`members` and `pubkey` stand
for the three maps that the code always writes together). `signed` is the set of
signatures that exist and `applied` a history variable. A call quantifies over
every array of signature slots its caller could build from the signatures that
exist (`Submissions`): the same signature in two slots, under another's name,
fewer than the threshold, are all there, and `AssertValidSignatures` is the
contract's own loop. A slot over another message is left out of `Submissions`,
since no owner's key verifies it. `remove_signer` is modelled with what it does
not do: it checks a decremented copy of the count and stores the old one, and
neither it nor `change_threshold` records its hash. `ExecuteCrossChainIntent` takes
`wormhole_address` from its caller, as the code does: the signed hash does not cover it, so
that the hash may be used up by a call that publishes nothing. `applied` counts an intent
when it is published at `Wormhole`.

**PrivateExecution.** Whoever executes runs the private function against the
notes their PXE knows and gets a transaction; a block includes it if none of the
notes it nullified was nullified meanwhile. The constrained reads (`get_note`,
which nullifies and re-emits) and the unconstrained ones (`is_message_initialized`,
`is_address_signer`) are told apart: only the former enter the transaction. The
transaction carries the note values it computed when it was proved, and `Include`
writes those, not what the operation would compute now. The refinement is
therefore not by construction: it says that these old values and old checks are
always still right when the nullifiers are fresh.

**ProposalStore.** What a command does between two awaits is one step. `StartSigning`
and `FinishSigning` are the two sides of `await signMessage`, `StartProposing` and
`FinishProposing` those of `await poseidon2Hash`. Each of the four
`execute-*` commands has a `Start*` of its own (`execute-add-signer` is the one that
does not look at the type of the proposal), a `Submit*`, and a `Save*` where it
writes `multisigs.json`; all end in `RemoveSignatures` and `MarkExecuted`, the two writes of
`cleanupExecutedProposal`, with room for other processes between them. `Abort` ends a command anywhere,
and `Clean` removes the files while commands run. The account is called with the very
slots that the command cut from the file, so that everything the file can contain
(entries of past members, the overshoot of two commands at once) reaches
`AssertValidSignatures`.

**Registry.** `create-multisig` is a sequence of ten steps between awaits
(`StartMultisig` to `RegisterElsewhere`), and a failure is either the end of the
command (`Abort`: the answer of a deployment may be lost as well) or, where the code
catches it, a warning: `RegisterEmitter` may leave the emitter as it is, and
`RegisterElsewhere` may register nowhere. `create-signer` keeps the list it read
before it deployed and writes that back. Addresses are numbers in the order of deployment,
on both chains. The contract's `assert_valid_initialization` is the guard of
`DeployContract`. The one step `Exchange` is justified by the module of that name:
it happens when the exchange returns, and `Abort` is its throwing.

**Exchange.** All clients are in the creator's process, on sockets to a server in the
same process. A socket is a FIFO queue in either direction (`toServer`, `toClient`),
`Send` drops what is sent while it is not open, `Forward` what is addressed to someone
who has not joined. A handler is one action up to its first await, and what comes after
is another (`HandleOffer`, `SendAnswer`). `HandlerRejects` and `PortTaken` are
the errors nobody listens to: they end the process. `Finish` is the `finally` block with
every `close`. Timers may fire at any time, early included. A message on its way to a
client outlives the exchange, as it does in the code, where `ws.close()` waits for the
other side.

**Relayer.** `Accept`, `DropInflight` and `DropProcessed` are the three outcomes of
`beginProcessingVAA`, with the deletions each makes. The route of a VAA says what `Dispatch`
does with it: a chain to submit to, none (`other`, a success), or a failure to parse
(`unparsable`). A goroutine goes through
`check`, then `nonce`, `send` or `service`, `pxe`, then `finish`. `RpcError`
covers every failure before something is sent; an answer that comes after the
60 s of the context is `inTime = FALSE` after the transaction was accepted.
`Shutdown`, `Stop`, `Crash` and `Restart` are the ends and beginnings of the
process; memory is lost, what the chains accepted is not.

**The vaults.** A call that reverts changes nothing and is no action. VAAs carry
the fields the vault decodes. `Vault` keeps the first byte only of the amount
section, as `shr(248, ...)` does; `ArbitrumIntentVault` neither looks at the
emitter nor at whether the transaction id is known.

**Bridge.** The actions of `Relayer` are used as they are; `Send` adds that the node
keeps the transaction, `Mine` runs the vault on the oldest or lets it revert,
`SubmitOutside` is anybody else's call. `EmitterOf` says whose publication a VAA carries: one of
the account exists once it is published (`Signed`), one of another emitter at any time, with any
payload and transaction id, and may come by the relayer or by an outside call. The history
variables `taken` and `ownPaid` are the VAAs that the vault executed and what those of the
account paid. What the vault decodes of a VAA is computed
from the bytes of the publication (`Vm`), so that an offset off by one in
`IntentPayload` is another amount or recipient in the records.

**EndToEnd.** The transaction that executes an intent is the one that publishes it, with
the fields that were signed, if it was told the address of Wormhole; with another
(`ExecuteAstray`) it is a step of the account alone, as every other step is one of the account or one of the bridge.
`FieldsOf` are the bytes of an intent, which is a value of its own in the account. The history variable `approval` keeps who had signed, and the threshold, when it was
executed, since signers and threshold may be others by the time the vault pays. That the
two can be put together is why the operators of `Relayer` and `Bridge` have names of their own.

## 3. What the runs check

| Run | Instance | States | Question, and answer |
|---|---|---|---|
| `account` | 3 addresses, 3 keys, 3 slots, 6 messages, 4 signatures, founding accounts of two and three signers with threshold 0 to 4, Wormhole and one other contract | 86,464 | Do the counts cover the members, can the members reach the threshold until one is removed, does every change have a quorum of distinct members at that moment, do additions and intents take effect once, do keys follow memberships? They do. |
| `account_reach` | a 2-of-3 account, the removals of two of its signers, the addition of one | | Can the signers left over always reach the threshold? **No**: after both removals one signer is left under a threshold of two. |
| `account_replay` | that of `account`, with 1-of-2 and 2-of-3 accounts | | Does a message hash take effect once only? **No**: a removal takes effect again after the address was added again. |
| `private` | 2 callers, 3 addresses, 2 slots, 4 messages | 81,472 | Does private execution implement the atomic account, and can two executions from one state both succeed? It does; they cannot. |
| `proposals` | 2 processes, 2 signers, 2 proposals, every kind of operation | 1,005,087 | Is what the files call executed done, is there one entry per signer? Yes. (That what the commands do to the account is backed and happens once is proved: they implement the account, section 6.) |
| `proposals_lost` | the same | | Does a signature stay until its proposal is executed? **No.** |
| `registry` | 2 processes, 2 signer names, 1 multisig name, 7 deployments, lists with and without a repeated name | 2,902,205 | Is what the files list unique, complete and with a proxy of its own, whatever fails or is cleaned? Yes. |
| `exchange` | 2 recipients | 112,171 | Does the exchange implement what its caller relies on, does a message find its connection, does every step of its loop bring it nearer to its end and nothing set it back, does it end, and is nothing left when it succeeds? Yes. |
| `relayer` | 5 VAAs (two for Arbitrum, one that does not parse), 2 goroutines, 3 ticks, TTL 2, 3 deliveries | 263,392 | Deduplication within a process, suppression only of what was accepted, quiet after stopping, every step of a goroutine leaves it fewer, shutdown ends. Holds. |
| `vault` | 2 chains, 3 emitters, 3 ids, 10 VAAs | 149 | Is what was minted what is on record? Yes. |
| `intent_vault` | 10 VAAs, 4 calls | 294 | Is every recorded transfer paid? Yes. |
| `end_to_end` | 2 signers, threshold 2, 2 intents for different recipients, one of them for another vault, 3 transactions to publish in, 2 VAAs of the account and one of another emitter under the id of the first, 2 goroutines, 2 deliveries, 1 outside call | 275,050 | Of the account's own VAAs: is what the vault has on record what the account published (as long as no other emitter's VAA was taken under that id), do they pay nobody else, nobody but by a quorum, and in one execution? Of all VAAs: does a delivery pay at most once, does what the relayer calls processed, if the vault takes it, wait at the node or was it executed, and is it executed in the end? Yes. The run does not ask whether *only* the account's VAAs pay: they are not the only ones, see below. |

### Where the code and what is said of it part

1. `remove_signer` (`main.nr:198-204`): the comment says the threshold is checked
   after the removal; the decremented count is not stored, so the next removal checks the
   same number again. In the run a 2-of-3 account removes s1, then s2, and s3 is left under a
   threshold of two: nothing is possible afterwards. (Run `account_reach`.)
2. `remove_signer` and `change_threshold` assert "Message hash already
   executed" (`main.nr:192`, `248`) and never record the hash. In the run s1 is removed, added
   again with another key, and removed again by the signatures of the first removal.
   A threshold change can be repeated in the same way once the threshold was
   changed back. (Run `account_replay`.)
3. `sign-proposal` "appends" (`README.md:74`): it overwrites what another command
   appended while it awaited the signature. (Run `proposals_lost`.)

Known from reading, with no run of their own because a single missing step
decides them:

- `README.md:89` says the intent vault checks the emitter registration:
  `verifyAuthorizedEmitter` (`ArbitrumIntentVault.sol:205-213`) is never called, and
  `_verify` (70-81) takes a guardian-signed VAA of any emitter. Such a VAA pays, and under the
  transaction id of the account it overwrites the account's record. `Bridge` has such VAAs, and its
  properties are about the account's own (`OwnRecordsArePublished`, `OwnVaasPayAsMeant`,
  `OwnPaymentsAreBacked`): of the vault's payments as a whole they are false. Besides, what the creation of a multisig
  registers is registered for chain 52 (`arbitrum-deployer.ts:114`) while the vault is
  deployed for chain 56 (`DeployMultisigProxy.s.sol:15`).
- `wormhole_address` (`main.nr:289`) is not in the signed hash (299-306): whoever holds the
  master account can execute an approved intent at another contract, which uses its hash up and
  publishes nothing. No document promises otherwise; `applied` counts publications only.
- `README.md:22` says the relayer handles retries: a goroutine makes one attempt, and
  only the subscription is retried.
- `relayer.go:563` promises protection against duplicate deliveries: within a process
  and the TTL. A restart, the TTL, a late answer, or the PXE fallback submit a VAA
  again, and the vault does not refuse a repeat. `PaidPerDelivery` is the bound that is left.
- `createSigner` loses a signer that another command created meanwhile, as
  `sign-proposal` loses a signature.
- The keys are handed to channels of clients in the creator's own process, and
  `receiveSharedState` is never called: what the other signers use is what
  `create-multisig` registered in their PXE stores and what `multisigs.json` holds.

## 4. Bounds

| Bound | Why it is enough |
|---|---|
| `MaxSignatures` 4 (`account`) | An operation of a 2-of-n account takes two; four allow two operations in a row by different quorums. Replay, a removal followed by an addition under another key, and the change of a threshold both ways appear within it. |
| `MaxSigners` 3 or 2 instead of 8 | The limit is met and refused in the run (a full house is a founding account). The proofs are for any limit. |
| `EnoughSigned` 2, `MaxSignatures` 3, `MaxProposals` 2 (`proposals`) | Two proposals under one hash or two that undo one another; a proposal under way when the file is full is not written. No command starts to sign once `EnoughSigned` signatures exist; one that overlaps with it may still finish, and `MaxSignatures` has room for it: it cuts nothing off. |
| two processes, callers, goroutines | every hazard listed is between two actors. A third one of the relayer's goroutines would only wait for a slot of the model: the code has no limit on them, and `Accept` with no idle `Worker` is a delivery that comes later. |
| `MaxDeployments` 7 (`registry`) | one founding signer, and two `create-multisig` of three deployments each, interleaved in every way; or fewer of them and further signers. |
| `N` 2 recipients (`exchange`) | the loop has a first and a last, and one channel can be lost while the other is awaited. One candidate a side is enough for a channel to open or not. |
| `MaxTime` 3 with `TTL` 2 | an entry can be younger than the TTL, exactly as old (kept in the map and no longer suppressing), and older. |
| `MaxDeliveries` 3 | a first delivery, a repeat, and another VAA in between. |
| `MaxDeliveries` 2, `MaxTime` 1, `MaxOutside` 1 (`end_to_end`) | the same VAA twice, or the account's and another emitter's, with a tick that makes the first forgotten, and an outside call before, between or after. |
| one foreign VAA, one chain id (`end_to_end`) | it has the transaction id of the account's transfer, a payload of its own, and may be delivered or submitted before or after that; a second encoding of one message differs for the relayer as another VAA does. A fork (`blockChainId`) is in `vault` and `intent_vault`. |
| `MaxSignatures` 4, threshold 2 (`end_to_end`) | every signature there can be: neither intent, either or both get their quorum, before or after anything else happens. Signers and thresholds that change are in `account`; the theorem has both. |
| `MaxCalls` 4 (intent vault) | records are overwritten in both directions under one id. The older vault needs no bound: it has finitely many states. |

Symmetry is used in `proposals` and `registry` only, over the CLI processes, which no
property names; those runs have no liveness property. `CHECK_DEADLOCK FALSE` is set
where the bounds on signatures, proposals, deployments, deliveries or calls use up all steps, where an account
that lost its quorum stops, and for the exchange, which ends. The relayer never stops: it can always crash or
restart.

## 5. Fairness

Four specifications state fairness, the last as its part.

- `Relayer`: weak fairness of the steps of each goroutine (all its remote calls run
  under a context of 60 s and end in an answer or an error) and of `Stop` (`wg.Wait`
  returns when the goroutines are done). Nothing is assumed of the spy, the
  clock, the stream, signals or crashes. `ShutdownCompletes` holds under exactly this.
- `Exchange`: weak fairness of `LoopStep`, the steps of
  `exchangeSharedStateViaWebRTC`: its timers fire and what it awaits settles. The
  wait for a channel and the sending have a time-out of 30 s each, and the rest are timers, with one exception:
  `createOffer` and `setLocalDescription` (`webrtc-client.ts:119-120`) have no time-out in
  the code, and that they settle is an assumption on the WebRTC library. Nothing is assumed of sockets,
  server, handlers or channels. `ExchangeEnds` holds under this: the wait for a
  channel that never opens ends by its 30 s.
- `Bridge`: weak fairness of `Mine`: the node mines what it accepted.
  This is an assumption on the node.
  `AcknowledgedIsPaid` needs nothing else: the relayer has done its part when it calls a VAA
  processed. `EndToEnd` has the same fairness and no more.

## 6. Refinement

| Detailed | Abstract | What it says |
|---|---|---|
| `PrivateExecution` | `MultisigAccount` (`ImplementsAccount`) | proved at any time, included when fresh, a call does what it would do at that moment |
| `Exchange` | `SharedStateExchange` (`ImplementsPromise`), with `outcome` computed from `pc` and `handed <- sent` | the call returns only when all were handed the keys, hands out nothing once it is over, and does not change its mind: a crash after it returned would be a step from "succeeded" to "failed" |

| `ProposalStore` | `MultisigAccount` (theorem `StoreImplementsAccount`) | whatever the files say, the commands do to the account what its operations and the signers do |
| `Bridge` | `Relayer` (in `BridgeKeepsRelayer`), `ArbitrumIntentVault` (`BridgeImplementsVault`) | calls of the vault in between do not disturb the relayer, and the vault sees only calls its own specification has |
| `EndToEnd` | `MultisigAccount`, `Bridge` (`EndToEndKeepsAccount`, `EndToEndKeepsBridge`) | every theorem of either holds of the whole |

The first two are checked by TLC and proved; the others, where the detailed module
extends the abstract one or instantiates it with its own variables, are proved: every initial
state is one of the abstract specification's, every step one of its steps or none, and for
`EndToEnd` the fairness is the bridge's own.

## 7. What is proved

TLAPS checks these theorems for every value of the constants: any sets of
addresses, names, keys, intents, proposals, callers, commands, VAAs and goroutines, any
number of recipients, any limit, number of slots and TTL.

| Module | Theorem | Statement |
|---|---|---|
| `MultisigAccount_proofs` | `TypeCorrect` | `Spec => []TypeOK` |
| | `SignerCountAlwaysCovers` | `Spec => []SignerCountCovers` |
| | `AdditionsAndIntentsOnce` | `Spec => []AppliedAtMostOnce` |
| | `ChangesAreBacked` | `Spec => EveryChangeIsBacked` |
| | `KeysAreFollowed` | `Spec => KeysFollowMembership` |
| | `OnlyRemovalsLockOut` | `Spec => []ReachableUntilRemoved` |
| `PrivateExecution_proofs` | `PrivateTypeCorrect` | `PrivateSpec => []PrivateTypeOK` |
| | `PrivateImplementsAccount` | `PrivateSpec => ImplementsAccount` |
| | `InclusionsAreBacked` | `PrivateSpec => EveryChangeIsBacked` |
| | `OneTransactionWins` | `PrivateSpec => OneWinner` |
| `ProposalStore_proofs` | `ExecutedProposalsTookEffect` | `StoreSpec => []ExecutedTookEffect` |
| | `StoreTypeCorrect` | `StoreSpec => []StoreTypeOK` |
| | `EntriesStaySingle` | `StoreSpec => []OneEntryPerSigner` |
| | `StoreAppliesOnce` | `StoreSpec => []AppliedAtMostOnce` |
| | `StoreChangesAreBacked` | `StoreSpec => EveryChangeIsBacked` |
| | `StoreImplementsAccount` | `StoreSpec => Spec` of the account |
| | `StoreOnlyRemovalsLockOut` | `StoreSpec => []ReachableUntilRemoved` |
| `Registry_proofs` | `RegistryTypeCorrect` | `RegistrySpec => []RegistryTypeOK` |
| | `NamesStayUnique` | `RegistrySpec => []NamesAreUnique` |
| | `SavedStaysComplete` | `RegistrySpec => []SavedIsComplete` |
| | `ProxyStaysItsOwn` | `RegistrySpec => []ProxyIsItsOwn` |
| `Exchange_proofs` | `ExchangeTypeCorrect` | `Spec => []TypeOK` |
| | `NothingIsLeftAfterSuccess` | `Spec => []NothingLeftAfterSuccess` |
| | `MessagesFindTheirPeer` | `Spec => []FindsItsPeer` |
| | `ExchangeImplementsPromise` | `Spec => ImplementsPromise` |
| | `LoopOnlyAdvances` | `Spec => LoopAdvances` |
| `Relayer_proofs` | `RelayerTypeCorrect` | `RelayerSpec => []RelayerTypeOK` |
| | `NoTwoGoroutinesPerVaa` | `RelayerSpec => []OneGoroutinePerVaa` |
| | `SuppressionIsJustified` | `RelayerSpec => []SuppressedWasAccepted` |
| | `StoppedRelayerIsQuiet` | `RelayerSpec => []StoppedIsQuiet` |
| | `RepeatsWait` | `RelayerSpec => NoRepeatWithinTTL` |
| | `ShutdownRunsOut` | `RelayerSpec => AttemptsRunOut` |
| `Bridge_proofs` | `BridgeTypeCorrect` | `BridgeSpec => []BridgeTypeOK` |
| | `OwnRecordsStayPublished` | `BridgeSpec => []OwnRecordsArePublished` |
| | `OnePaymentPerDelivery` | `BridgeSpec => []PaidPerDelivery` |
| | `OwnVaasPayOnlyMeant` | `BridgeSpec => []OwnVaasPayAsMeant` |
| | `AcknowledgedIsNotLost` | `BridgeSpec => []AcknowledgedIsSubmitted` |
| | `BridgeKeepsRelayer` | `BridgeSpec =>` the relayer's invariants and `NoRepeatWithinTTL` |
| | `BridgeImplementsVault` | `BridgeSpec => V!IntentSpec` |
| | `EndToEndKeepsAccount` | `EndToEndSpec => Spec` of the account |
| | `EndToEndKeepsBridge` | `EndToEndSpec => BridgeSpec` |
| | `OwnPaymentsHaveAQuorum` | `EndToEndSpec => []OwnPaymentsAreBacked` |
| | `FieldsArrive` | what is decoded of a message is the id and the low bytes of each field of the intent |
| | `FittingIntentsDiffer` | intents that lose nothing to the cut and decode alike are equal |
| `Vaults_proofs` | `IntentTypeCorrect` | `IntentSpec => []IntentTypeOK` |
| | `RecordsStayPaid` | `IntentSpec => []RecordsArePaid` |
| | `DonationTypeCorrect` | `VaultSpec => []VaultTypeOK` |
| | `DonationsAreRecorded` | `VaultSpec => []MintedIsRecorded` |

The assumptions are the ones the modules state for their constants, and TLC
evaluates them in the runs. For the account: the addresses are finitely many; the
zero key, and the empty slot, are told apart from the others; there is at least
one slot; the constructor gets keys for addresses and a natural number;
proposals are messages; Wormhole is one of the contracts an intent can be sent to. For the registry: lists of names are not empty, and the signers
there were before have names of their own. For the exchange: there is a recipient. For the relayer: finitely
many goroutines at a time, a route for every VAA, a positive TTL, natural bounds.
For the vaults: transaction ids are finitely many (they are `bytes32`), the fields
of VAAs are amounts, ids and addresses, the older vault's receiver is an address.
For the bridge: what is published are intents that fit their fields, which
`OwnRecordsArePublished` needs and `PaidPerDelivery` does not, that a VAA of the account carries what the account published in
its transaction (of the VAAs of others nothing but that their fields are bytes), and that every recipient is an address;
`EndToEnd` needs nothing besides.

**The account.** The inductive invariant `IInv` is `TypeOK /\ SignerCountCovers /\
EffectRecorded /\ KeysOfMembers`. `SignerCountCovers` is needed for its own sake
and for typing: the decremented count that `remove_signer` tests is a natural
number only because the count covers the member that leaves. `EffectRecorded` (an
addition or intent that took effect is in `executed`) strengthens
`AppliedAtMostOnce`, which says nothing about `executed` and is not inductive.
`KeysOfMembers` (the registered key is nonzero exactly for members) is what makes
`KeysFollowMembership` hold across an addition. `TypeOK` is more than typing: that
`signerCount` stays at most `MaxSigners` makes the members fit the slots.

The central lemma is `SlotsCountBackers`: the contract counts filled *slots*, the
property speaks of different *members*. From distinct owners and verified
signatures the lemma builds an injection from the slots to the backers, and
compares cardinalities. `ChangesAreBacked` then looks at each operation: only
it can have changed what changed, and its quorum is the lemma's.

`ReachableUntilRemoved` is the positive half of the finding of run `account_reach`. `SignerCountCovers`
bounds the count from below, which is the wrong side for it; what makes it inductive is
`CountExactUntilRemoved`: until a removal takes effect the count is the number of members.

**Private execution.** The invariant adds to the account's types and
`MembersHaveKeys` that of the transactions under way, `PendingInv`: each one has
touched the threshold note, and a *fresh* one (none of its nullifiers is spent)
is what its caller would prove now. The second conjunct is what the refinement
needs. The first makes it inductive: whatever is included touches the threshold
note, so the nullifier of that note makes every other transaction stale, and
nothing remains to be shown about it. `OneTransactionWins` is the same argument
as a property.

**The CLI.** `StoreInv` is the account's `IInv` (every command either leaves the
account alone or does one of its steps) and that a command past `tx.wait()`, and an
entry marked executed, belongs to an operation that took effect. `ListsInv` is about
what a command holds across an `await`. A signing command writes back the list it read, so
that `OneEntryPerSigner` does not depend on what others wrote meanwhile: the list it read
had one entry per signer, and none of the signer it is about to append
(`SignaturesInv`). `ThresholdsInv` says that a threshold that took effect was in range, and
so is what the files hold of it, and `SlotsInv` that what a command submits are signatures,
or empty slots.

**The registry.** `RegistryInv` gives each command a `Progress`: by its step, what it
deployed is among the contracts, was exchanged, and its proxy has no emitter yet or
its own. `Apart` says that no two commands, and no command and an entry, share an
address or a proxy, and `FiledIsDeployed` that files name only what was deployed; the
next deployment's number is therefore new to all of them. `NamesAreUnique` needs of a
command that creates a signer that the list it read has unique names, none of them its
own: not that the list is what the file holds now.

**The exchange.** `ExchangeInv` follows one offer: `OneOffer` says that a recipient's offer
is on its way in at most one place, and in none once the recipient has answered it;
`MessagesGoTheirWay` that queues hold only what their owners send or get;
`NotYetOffered` that the loop has left those ahead of it alone; `Channels` that an open
channel belongs to two stable connections; `SentIsStable` that who was handed the data had
an open channel. At success all were handed the data, so all connections were stable,
so every offer had been consumed: that is `NothingLeftAfterSuccess`, and with it
that no handler can reject any more, which is the hard step of the refinement.
`FindsItsPeer` needs the order in the queues besides: `OfferFirst` says that a
candidate of the creator is behind the offer, if the offer is still in one of the two queues it
passes, and `SilentBefore` that a recipient has sent nothing but its "join" before it
handles the offer. With `ClosedAtTheEnd` (only `Finish` closes connections) a
message finds a connection, or its offer has been lost. `LoopOnlyAdvances` needs types only: it
measures the loop by `StepsLeft`, from 2N + 5 down, and everything that happens around the loop,
a channel that opens as it is waited for included, leaves the measure alone or lowers it.

**The relayer.** `RInv` adds three facts to the checked properties.
`NoncesCovered` counts: the transactions Arbitrum accepted and the attempts that
can still send one together are at most the deliveries; without it the type of
the nonce is not inductive. `OkWasAccepted` says that a goroutine that will record
a success had its VAA accepted. `EntriesRemain` says that an entry of
`processedVAAs` differs from the true time of completion only once it is too old
to suppress; `RepeatsWait` is this fact at the moment a VAA is taken on. `ShutdownRunsOut`
measures a goroutine by the steps it has left (`Left`): each step shortens it, no other
goroutine's step changes it, and only a running process starts one.

**The bridge.** Every step is one of the relayer or leaves it alone, so that `RInv`
holds. `CallsCovered` carries the count on: calls of the vault and waiting transactions
together are at most the accepted nonces and the outside calls. `DeliveryInv` adds that
only VAAs the guardians signed reach the mempool (`SignedOnly`) and that each record is
empty, or taken from another emitter's VAA, or what one publication says (`RecordsInv`); that the vault's reading of a publication
is what the account meant is arithmetic on bytes, in `FieldsArrive`.

`OwnVaasPayOnlyMeant` (`PaymentInv`) looks at the balances. What the account's VAAs paid is kept apart
(`ownPaid`): an execution of one adds what its publication says (`OwnTakePays`), for the VAAs of
one transaction decode alike, and any execution leaves the earlier justifications standing, as it writes positive
amounts over records only (`TakeKeepsRecords`). The rest of a balance grows only when another
emitter's VAA that names the recipient is executed (`DifferenceIsTaken`).
`AcknowledgedIsNotLost` needs the moment before `processedVAAs` is written: `AckInv` is the
property for a goroutine that knows of its success as well (`Acknowledged`). A waiting transaction
is mined, whether the vault takes a VAA is settled at its deployment, and what was
executed stays executed.

**End to end.** Every step of `EndToEnd` is one of the account or none of its, and one of the bridge
or none of its, so that the theorems of both hold of the whole. `ApprovalInv` is what has to
be shown besides: what was published had been signed by a quorum (`SlotsCountBackers` at the moment of
execution; signatures are not taken back), it is marked executed for good, and therefore no second
transaction published it. `OwnPaymentsHaveAQuorum` joins it with `OwnVaasPayOnlyMeant`.

**The vaults.** Both properties compare with a sum over transaction ids. `SumChanges`
says what happens to the sum when one summand changes, and after it each step is
arithmetic. The sum is a recursive function, and the induction on it is done without an
induction theorem: among the sets that refute the claim there is a minimal one (strict
inclusion is well-founded on the subsets of a finite set), and unfolding the function
there once gives a contradiction. `ProposalStore_proofs` reasons about `Filter`, with
which the code removes entries of a proposal, in the same way, with a least length.

Every invariant and action property of the passing runs is proved. Only
model-checked are the three violations, and liveness, which the prover does not do:
`ShutdownCompletes`, `ExchangeEnds`, `AcknowledgedIsPaid`. Of each of these the safety half is
proved: a measure that every step of the fair action lowers and no other raises
(`AttemptsRunOut`, `LoopAdvances`), and that what has to be executed is at the node or has been executed
(`AcknowledgedIsSubmitted`). What is left to TLC is that the fair action stays enabled and is
therefore taken.

## 8. Abstractions

- A message is the record of the fields that the code hashes, and the hash is
  taken to be injective, on one shape and between the shapes. A signature is the pair
  of the key and the message, made only by the key's holder.
- The contract's master-account check is the caller of every action; who holds
  the master account is every signer.
- A VAA of another emitter has a payload of the full length, and its emitter chain, which the vault
  never reads, is that of the account.
- The intent is one value in the account, a record of decoded fields in the
  vault, and bytes in `IntentPayload`. Where Wormhole puts the published fields in its message is
  not in the repository's code: the offsets are those of the sample message in
  `ArbitrumIntentVault.t.sol`.
- A call of a contract that is not Wormhole succeeds or is no step; what that contract does is left out.
- A deadline is hashed and never compared with anything, in the code and here.
- Files are read and written whole in one step between two awaits; a file
  caught in the middle of a write is left out (it is listed as a hazard). So is what can
  happen between the read and the write of `saveMultisig`, which are not separated by
  anything that waits.
- One multisig in `ProposalStore`. `execute-cross-chain` passes no signatures and
  computes a new deadline, so that the account refuses it; as the refused call changes
  nothing, it is no action.
- In `Registry` which contracts and accounts a PXE store knows is left out, and the store of a
  signer is its name: `pxe-manager.ts:31` lower-cases it, so that two names that differ in
  case share a store.
- In `Exchange` the "ready" broadcast, which no client acts on, and rooms, of which there is
  one, are left out; a side finds one candidate.
- The `donate` of people other than the vaults is left out; `paid` is what the
  vaults minted.
- A transaction that the relayer's node accepts counts as submitted, as in the
  code, which does not wait for a receipt; that it is mined, or reverts, is in `Bridge`.

## 9. Not modelled

- `Portal.sol`: forwards to the Arbitrum inbox and keeps the parameters of a
  transfer; nothing in the repository calls it.
- PXE and wallet set-up: opens stores and registers what it is told.
- Deployment scripts: straight lines of one run each; what two of them do on chain is in
  `Registry` and `VaultState`.
- Commands that only list or print (`list-*`, `status`, `proposal-status`).
- Logging, configuration, the start-up, `/health` and `/test` of the verification service, and
  the measuring code in `utils.mjs`.
- `WebRTCClient.receiveSharedState`, which nothing calls.
- Wormhole: external. Publications become VAAs that are delivered in any order and number.

## 10. Plan

Built, in this order: `MultisigAccount` and its proofs, `PrivateExecution`,
`Relayer`, `ProposalStore`, `VaultState` with `Vault` and `ArbitrumIntentVault`, the
proofs of the second, third and fourth, then `Registry`, `Exchange` with
`SharedStateExchange`, `IntentPayload` and `Bridge` with the proofs of each, and `EndToEnd`.

What could follow: a PXE that lags behind under `ProposalStore` (its commands call the
account of `MultisigAccount`, as if each read the newest notes; `PrivateExecution` shows why
that is sound for the account, not what the CLI then reports), two multisigs in one set
of files, and a verification service of its own under `Relayer`.
