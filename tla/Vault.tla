------------------------------- MODULE Vault -------------------------------
(***************************************************************************)
(* Vault.sol: the first vault, which pays one fixed receiver the amount in  *)
(* a VAA of the emitter registered for its chain, once per transaction id.  *)
(***************************************************************************)
EXTENDS VaultState, Sequences

CONSTANTS
  VaultVm,   \* the VAAs in circulation: [chain, emitter, valid, txId, amount],
             \* amount being the bytes of its 32-byte section (a payload too
             \* short for it has none)
  Receiver   \* donationContract().receiver()

ASSUME ReceiverAssumption == Receiver \in Account
ASSUME VaultVmAssumption == \A vm \in VaultVm : vm.amount \in Seq(0..255)

VaultInit == StateInit

\* _verify: signed by the guardians, from the registered emitter.
VaultVerified(vm) == vm.valid /\ AuthorizedEmitter(vm)

WholeAmount(vm) == 256 * vm.amount[1] + vm.amount[2]   \* (mutant)

\* shr(248, amountData): the first byte only.
ExtractedAmount(vm) == Head(vm.amount)

UncheckedTxId(vm) == vm.txId \in TxId   \* (mutant)
NotProcessed(vm)  == vm.txId \in TxId /\ arbitrumMessages[vm.txId] = 0

\* verify, with _processPayload: an amount of zero is stored, as if nothing
\* had been, and not donated.
VaultVerify(vm) ==
  /\ VaultVerified(vm)
  /\ ~IsFork
  /\ vm.amount # <<>>
  /\ NotProcessed(vm)
  /\ arbitrumMessages' = [arbitrumMessages EXCEPT ![vm.txId] = ExtractedAmount(vm)]
  /\ IF ExtractedAmount(vm) > 0
       THEN Donate(ExtractedAmount(vm), Receiver)
       ELSE UNCHANGED paid
  /\ UNCHANGED <<registeredEmitters, blockChainId>>

VaultRegister(caller, chain, emitter) ==
  /\ RegisterEmitter(caller, chain, emitter)
  /\ UNCHANGED <<arbitrumMessages, blockChainId, paid>>

VaultNext ==
  \/ \E vm \in VaultVm : VaultVerify(vm)
  \/ \E caller \in {Owner, Other}, chain \in Chain, emitter \in Emitter \cup {NoEmitter} :
       VaultRegister(caller, chain, emitter)

VaultSpec == VaultInit /\ [][VaultNext]_stateVars

-----------------------------------------------------------------------------
(* Properties *)

\* The amounts on record are bytes.
VaultTypeOK == StateTypeOK /\ \A t \in TxId : arbitrumMessages[t] \in 0..255

\* The tokens minted are, to the unit, the amounts on record: no message is
\* paid twice however often it is submitted, although a message of amount zero
\* counts as "not processed" and may be replaced, and the receiver alone is paid.
MintedIsRecorded ==
  \A a \in Account :
    paid[a] = IF a = Receiver
                THEN MapThenSumSet(LAMBDA t : arbitrumMessages[t], TxId)
                ELSE 0
=============================================================================
