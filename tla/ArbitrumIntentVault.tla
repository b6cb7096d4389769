------------------------ MODULE ArbitrumIntentVault ------------------------
(***************************************************************************)
(* ArbitrumIntentVault.sol: one per multisig account, it decodes the        *)
(* cross-chain intent that the account published, records it under its      *)
(* transaction id and executes it.                                         *)
(***************************************************************************)
EXTENDS VaultState

CONSTANTS
  Vm,          \* the VAAs in circulation: [chain, emitter, valid, txId, long,
               \* targetChain, targetContract, intentType, amount, recipient]
  ThisVault,   \* address(this)
  NoAccount,   \* address(0)
  MaxCalls     \* bound: how many calls of verify return

ASSUME NoAccountAssumption == NoAccount \notin Account
ASSUME IntentVmAssumption ==
  \A vm \in Vm : /\ vm.txId \in TxId
                 /\ vm.amount \in Nat
                 /\ vm.recipient \in Account \cup {NoAccount}

VARIABLES
  intentAmounts, intentTypes, intentTargets,   \* by transaction id
  calls         \* number of calls of verify so far

intentVars == <<registeredEmitters, arbitrumMessages, blockChainId, paid,
                intentAmounts, intentTypes, intentTargets, calls>>

NONE == 0
TRANSFER == 1
IntentType == {NONE, TRANSFER}

IntentTypeOK ==
  /\ StateTypeOK
  /\ intentAmounts \in [TxId -> Nat]
  /\ intentTypes \in [TxId -> IntentType]
  /\ intentTargets \in [TxId -> Account \cup {NoAccount}]

IntentInit ==
  /\ StateInit
  /\ intentAmounts = [t \in TxId |-> 0]
  /\ intentTypes = [t \in TxId |-> NONE]
  /\ intentTargets = [t \in TxId |-> NoAccount]
  /\ calls = 0

-----------------------------------------------------------------------------
(* verify *)

\* _verify: signed by the guardians.  verifyAuthorizedEmitter is not called.
Verified(vm) == vm.valid

\* (for the mutant: any vault of the chain)
ContractUnchecked(vm) == vm.targetChain = blockChainId

\* The checks of _processIntentPayload, the conversion to the enum included.
AddressedHere(vm) == vm.targetChain = blockChainId /\ vm.targetContract = ThisVault
UnknownTypeTaken(vm) == vm.long /\ vm.amount > 0 /\ vm.recipient # NoAccount  \* (mutant)
WellFormed(vm) ==
  /\ vm.long
  /\ vm.intentType \in IntentType
  /\ vm.amount > 0
  /\ vm.recipient # NoAccount

\* (for the mutant: a payment skipped where the record is overwritten)
ExecuteIfNew(vm) ==
  IF vm.intentType = TRANSFER /\ arbitrumMessages[vm.txId] = 0
    THEN Donate(vm.amount, vm.recipient)
    ELSE UNCHANGED paid

\* _executeIntent and _handleTransfer
ExecuteIntent(vm) ==
  IF vm.intentType = TRANSFER
    THEN Donate(vm.amount, vm.recipient)
    ELSE UNCHANGED paid

\* Nothing is required of a transaction id that is already on record.
Accepts(vm) == Verified(vm) /\ ~IsFork /\ WellFormed(vm) /\ AddressedHere(vm)

Verify(vm) ==
  /\ calls < MaxCalls
  /\ Accepts(vm)
  /\ arbitrumMessages' = [arbitrumMessages EXCEPT ![vm.txId] = vm.amount]
  /\ intentAmounts' = [intentAmounts EXCEPT ![vm.txId] = vm.amount]
  /\ intentTypes' = [intentTypes EXCEPT ![vm.txId] = vm.intentType]
  /\ intentTargets' = [intentTargets EXCEPT ![vm.txId] = vm.recipient]
  /\ ExecuteIntent(vm)
  /\ calls' = calls + 1
  /\ UNCHANGED <<registeredEmitters, blockChainId>>

Register(caller, chain, emitter) ==
  /\ RegisterEmitter(caller, chain, emitter)
  /\ UNCHANGED <<arbitrumMessages, blockChainId, paid,
                 intentAmounts, intentTypes, intentTargets, calls>>

IntentNext ==
  \/ \E vm \in Vm : Verify(vm)
  \/ \E caller \in {Owner, Other}, chain \in Chain, emitter \in Emitter \cup {NoEmitter} :
       Register(caller, chain, emitter)

IntentSpec == IntentInit /\ [][IntentNext]_intentVars

-----------------------------------------------------------------------------
(* Properties *)

\* Whatever is on record as a transfer has been paid, in full and to the
\* recipient on record, also when several messages for one recipient, or
\* several messages with one transaction id, come in any order.
RecordsArePaid ==
  \A a \in Account :
    paid[a] >= MapThenSumSet(LAMBDA t : intentAmounts[t],
                 {t \in TxId : intentTypes[t] = TRANSFER /\ intentTargets[t] = a})
=============================================================================
