SPECIFICATION FairSpec
CONSTANTS
  worker1 = worker1
  worker2 = worker2
  web1 = web1
  web2 = web2
  None = None
  MaxEmails = 3
  Workers <- OneWorker
  Web <- TwoWeb
  Retries = 1
  Limit = 1
  Events = {"broker"}
  MaxMishaps = 0
INVARIANT NothingStranded
PROPERTIES QueuedIsSent
CHECK_DEADLOCK FALSE
