CONSTANTS
  t1 = t1
  t2 = t2
  t3 = t3
  aztec = aztec
  solana = solana
  e1 = e1
  e2 = e2
  e3 = e3
  Owner = owner
  Other = other
  Chain = {aztec, solana}
  Emitter = {e1, e2, e3}
  NoEmitter = NoEmitter
  TxId = {t1, t2, t3}
  EvmChain = {421614, 1}
  EvmChainId = 421614
  Account = {receiver, someone}
  Receiver = receiver
  VaultVm <- MCVm
SPECIFICATION VaultSpec
CHECK_DEADLOCK FALSE
INVARIANTS VaultTypeOK MintedIsRecorded
