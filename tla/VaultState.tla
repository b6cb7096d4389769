----------------------------- MODULE VaultState -----------------------------
(***************************************************************************)
(* What the two vaults on Arbitrum share: VaultState.sol and               *)
(* VaultGetters.sol (the owner, the emitters it registered, the chain the  *)
(* vault was deployed for, the recorded amounts) and the Donation token     *)
(* that the vaults have minted.                                            *)
(*                                                                         *)
(* A call that reverts changes nothing, so only the calls that return are  *)
(* actions.  VAAs are calls' inputs: those the guardians signed, which      *)
(* anyone may submit, again and in any order.                              *)
(***************************************************************************)
EXTENDS Integers, FiniteSets, FiniteSetsExt

CONSTANTS
  Owner,        \* who deployed the vault
  Other,        \* anyone else
  Chain,        \* Wormhole chain ids
  Emitter,      \* nonzero emitter addresses
  NoEmitter,    \* bytes32(0)
  TxId,         \* nonzero transaction ids
  EvmChain,     \* EIP-155 chain ids
  EvmChainId,   \* the one the vault is deployed for
  Account       \* nonzero addresses that can be paid

ASSUME EmitterAssumption == NoEmitter \notin Emitter
ASSUME ChainAssumption   == EvmChainId \in EvmChain
ASSUME TxIdAssumption    == IsFiniteSet(TxId)   \* bytes32

VARIABLES
  registeredEmitters,   \* _state.registeredEmitters
  arbitrumMessages,     \* _state.arbitrumMessages
  blockChainId,         \* block.chainid: another one on a fork
  paid                  \* the tokens that donate() minted for the vault

stateVars == <<registeredEmitters, arbitrumMessages, blockChainId, paid>>

StateTypeOK ==
  /\ registeredEmitters \in [Chain -> Emitter \cup {NoEmitter}]
  /\ arbitrumMessages \in [TxId -> Nat]
  /\ blockChainId \in EvmChain
  /\ paid \in [Account -> Nat]

StateInit ==
  /\ registeredEmitters = [c \in Chain |-> NoEmitter]
  /\ arbitrumMessages = [t \in TxId |-> 0]
  /\ blockChainId \in EvmChain
  /\ paid = [a \in Account |-> 0]

\* onlyOwner; the zero address is refused.
RegisterEmitter(caller, chain, emitter) ==
  /\ caller = Owner
  /\ emitter # NoEmitter
  /\ registeredEmitters' = [registeredEmitters EXCEPT ![chain] = emitter]

IsFork == EvmChainId # blockChainId

\* verifyAuthorizedEmitter, of either vault.
AuthorizedEmitter(vm) == registeredEmitters[vm.chain] = vm.emitter

\* Donation.donate: mints, and refuses an amount of zero.
Donate(amount, receiver) ==
  /\ amount > 0
  /\ paid' = [paid EXCEPT ![receiver] = @ + amount]
=============================================================================
