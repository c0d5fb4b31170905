SPECIFICATION Spec
CONSTANTS
  worker1 = worker1
  worker2 = worker2
  web1 = web1
  web2 = web2
  None = None
  MaxEmails = 2
  Workers <- TwoWorkers
  Web <- OneWeb
  Retries = 1
  Limit = 2
  Events = {"refusal", "crash", "database", "broker", "operator", "purge"}
  MaxMishaps = 3
SYMMETRY Symmetry
INVARIANTS TypeOK CopiesAccounted SentWasAccepted
PROPERTIES SentForGood
