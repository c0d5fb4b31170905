SPECIFICATION FairSpec
CONSTANTS
  worker1 = worker1
  worker2 = worker2
  web1 = web1
  web2 = web2
  None = None
  MaxEmails = 1
  Workers <- OneWorker
  Web <- OneWeb
  Retries = 1
  Limit = 1
  Events = {"refusal"}
  MaxMishaps = 1
PROPERTIES QueuedIsSent
CHECK_DEADLOCK FALSE
