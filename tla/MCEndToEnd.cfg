CONSTANTS
  s1 = s1
  s2 = s2
  k1 = k1
  k2 = k2
  Signer = {s1, s2}
  Key = {k1, k2}
  NoKey = NoKey
  Empty = Empty
  here = here
  there = there
  Intent = {here, there}
  FieldsOf <- MCFieldsOf
  Deadline = {1}
  WormholeAddress = {wormhole, elsewhere}
  Wormhole = wormhole
  MaxSigners = 2
  Founding <- MCFounding
  Proposal <- MCProposal
  MaxSignatures = 4
  Vaa = {"here1", "there1", "foreign"}
  Route <- MCRoute
  Worker = {w1, w2}
  Idle = Idle
  TTL = 1
  MaxTime = 1
  MaxDeliveries = 2
  MaxOutside = 1
  Owner = owner
  Other = other
  Chain = {56}
  e1 = e1
  e2 = e2
  Emitter = {e1, e2}
  AccountEmitter = e1
  EmitterOf <- MCEmitterOf
  PayloadOf <- MCPayloadOf
  NoEmitter = NoEmitter
  EvmChain = {421614}
  EvmChainId = 421614
  Account = {258, 259}
  NoAccount = 0
  ThisVault = 70000
  TxId = {"here", "again", "there"}
  Publication <- MCPublication
  TxIdOf <- MCTxIdOf
SPECIFICATION EndToEndSpec
CHECK_DEADLOCK FALSE
INVARIANTS BridgeTypeOK OwnRecordsArePublished OwnVaasPayAsMeant PaidPerDelivery AcknowledgedIsSubmitted OwnPaymentsAreBacked
PROPERTY AcknowledgedIsPaid
