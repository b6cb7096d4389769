CONSTANTS
  t1 = t1
  t2 = t2
  e1 = e1
  e2 = e2
  alice = alice
  bob = bob
  Owner = owner
  Other = other
  Chain = {56}
  Emitter = {e1, e2}
  NoEmitter = NoEmitter
  TxId = {t1, t2}
  EvmChain = {421614, 1}
  EvmChainId = 421614
  Account = {alice, bob}
  NoAccount = NoAccount
  ThisVault = ThisVault
  MaxCalls = 4
  Vm <- MCVm
SPECIFICATION IntentSpec
CHECK_DEADLOCK FALSE
INVARIANTS IntentTypeOK RecordsArePaid
