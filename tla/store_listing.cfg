CONSTANTS
  c1 = c1
  Clients = {c1}
  Keys = {1, 2, 3, 4}
  PageLimit = 2
SPECIFICATION FairSpec
INVARIANTS
  TypeOK
  ListingSound
PROPERTIES
  ListingEnds
