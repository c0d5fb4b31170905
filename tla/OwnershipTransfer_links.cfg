SPECIFICATION TransferSpec
CONSTANTS
  alice = alice
  bob = bob
  carol = carol
  w1 = w1
  w2 = w2
  Keep = Keep
  Users <- MCUsers
  Superusers <- MCSuper
  Creator = alice
  MaxRequests = 0
  Workers <- MCOne
  Desks <- MCWorkers
  Endpoints = {"role", "leave", "edit"}
  Patches <- MCRename
  MaxOffers = 2
SYMMETRY Symmetry
INVARIANTS TransferTypeOK OfferTakenOnce
PROPERTIES KeepsSlot OwnerChangesHands OwnerStaysInside
