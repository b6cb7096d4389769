CONSTANTS
  s1 = s1
  s2 = s2
  k1 = k1
  k2 = k2
  i1 = i1
  Signer = {s1, s2}
  Key = {k1, k2}
  NoKey = NoKey
  Empty = Empty
  Intent = {i1}
  Deadline = {1}
  WormholeAddress = {wormhole, elsewhere}
  Wormhole = wormhole
  MaxSigners = 3
  Founding <- MCFounding
  Proposal <- MCProposal
  MaxSignatures = 3
  Command = {p1, p2}
  Idle = Idle
  NoMultisig = NoMultisig
  KeyOf <- MCKeyOf
  MaxProposals = 2
  EnoughSigned = 2
SPECIFICATION StoreSpec
SYMMETRY ProcessSymmetry
CHECK_DEADLOCK FALSE
INVARIANTS StoreTypeOK ExecutedTookEffect OneEntryPerSigner
