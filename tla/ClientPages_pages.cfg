SPECIFICATION PagesSpec
CONSTANTS
  Count = 2
  Multiple <- MCMultiple
  PageSize = 1
  save1 = save1
  save2 = save2
  Slots <- MCSaves
  lesson1 = lesson1
  lesson2 = lesson2
  Nowhere = Nowhere
  Lessons <- MCLessons
  MaxPuts = 2
  block1 = block1
  block2 = block2
  host1 = host1
  host2 = host2
  NoHost = NoHost
  Blocks <- MCBlocks
  Hosts <- MCHosts
  MaxFlight = 2
  question1 = question1
  question2 = question2
  chain1 = chain1
  Library <- MCLibrary
  Chains <- MCChains
  MaxTemplates = 1
  MaxRows = 2
INVARIANTS PagesTypeOK NeverClosesEarly
PROPERTIES SelectionsStay TimeUpCloses  DraftsAccounted SavedStays
  SavedAsListed  NothingLeftOver
SYMMETRY Symmetry
