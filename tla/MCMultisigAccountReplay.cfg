CONSTANTS
  s1 = s1
  s2 = s2
  s3 = s3
  k1 = k1
  k2 = k2
  k3 = k3
  i1 = i1
  Signer = {s1, s2, s3}
  Key = {k1, k2, k3}
  NoKey = NoKey
  Empty = Empty
  Intent = {i1}
  Deadline = {1}
  WormholeAddress = {wormhole, elsewhere}
  Wormhole = wormhole
  MaxSigners = 3
  Founding <- MCUsualFounding
  Proposal <- MCProposal
  MaxSignatures = 4
SPECIFICATION Spec
CHECK_DEADLOCK FALSE
INVARIANT NoReplay
