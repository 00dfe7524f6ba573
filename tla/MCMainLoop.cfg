SPECIFICATION FairSpec
CONSTANTS
  s1 = s1 s2 = s2 s3 = s3
  None = None
  Peers = {s1, s2, s3}
  Watched = {s1}
  Sends <- MCSends
  Requests <- MCRequests
  MaxPerRound = 1
  PeriodicEvery = 2
  MaxInactive = 2
  TicksInRound = 1
  QueueBound = 1
  RequestBound = 1
INVARIANTS TypeOK
PROPERTIES OnlySilentKilled PeriodicWorkGoesOn HellosAnswered EverySubscriberPolled
