CONSTANTS
  SignerName = {"alice", "bob"}
  MultisigName = {"treasury"}
  NoName = "nobody"
  SignerList <- MCSignerList
  MaxSigners = 2
  Command = {p1, p2}
  Idle = Idle
  MaxDeployments = 7
  Founding <- MCFounding
SPECIFICATION RegistrySpec
SYMMETRY ProcessSymmetry
CHECK_DEADLOCK FALSE
INVARIANTS RegistryTypeOK NamesAreUnique SavedIsComplete ProxyIsItsOwn
