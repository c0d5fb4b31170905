SPECIFICATION Spec
CONSTANTS
  alice = alice
  bob = bob
  carol = carol
  w1 = w1
  w2 = w2
  Keep = Keep
  Users <- MCPair
  Superusers = {}
  Creator = alice
  MaxRequests = 1
  Workers <- MCWorkers
  Endpoints <- Roles
  Patches <- MCPatches
SYMMETRY Symmetry
PROPERTIES EntryIsEarned  KeepsLedger
