SPECIFICATION Spec
CONSTANTS
  alice = alice
  bob = bob
  carol = carol
  w1 = w1
  w2 = w2
  Keep = Keep
  Users <- MCUsers
  Superusers = {}
  Creator = alice
  MaxRequests = 1
  Workers <- MCWorkers
  Endpoints <- Moderation
  Patches = {}
SYMMETRY Symmetry
INVARIANTS TypeOK NoGhostRows
PROPERTIES DecisionsStand KeepsLedger
