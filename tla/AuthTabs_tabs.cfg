SPECIFICATION Spec
CONSTANTS
  tab1 = tab1
  tab2 = tab2
  Tabs <- TwoTabs
  MaxRequests = 3
  MaxTokens = 3
  MaxSignIns = 1
INVARIANTS TypeOK RefreshesNeverClash  KeepsLiveSession
SYMMETRY Symmetry
