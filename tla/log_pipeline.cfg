\* Two clients coming and going, three messages of two lengths.
CONSTANTS
  Clients = {c1, c2}
  CharCounts = {1, 2}
  RateLimit = 2
  BundlePeriod = 1
  PrunePeriod = 1
  KeepAlive = 1
  MaxLogged = 3
SPECIFICATION LiveSpec
INVARIANT PopFindsBundle
INVARIANT LostOnlyToPrune
PROPERTY ImplementsFifo
PROPERTY EverythingSent
