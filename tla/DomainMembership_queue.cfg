SPECIFICATION FairSpec
CONSTANTS
  alice = alice
  bob = bob
  carol = carol
  w1 = w1
  w2 = w2
  Keep = Keep
  Users <- MCPair
  Superusers = {}
  Creator = alice
  MaxRequests = 2
  Workers <- MCWorkers
  Endpoints <- Queue
  Patches <- MCOpening
INVARIANTS OnePendingPerUser
PROPERTIES PendingIsDecided
