SPECIFICATION Spec
CONSTANTS
  p1 = p1 p2 = p2
  None = None Other = Other
  Procs = {p1, p2}
  FirstPort = 7770
  MaxRetries = 3
INVARIANTS TypeOK AdvertisedBound AddressesDiffer AloneComesUp NobodyAborts
