SPECIFICATION FairSpec
CONSTANTS
  order = order
  packet = packet
  text = text
  n1 = n1
  n2 = n2
  n3 = n3
  Files = {order, packet, text}
  Names = {n1, n2, n3}
  Arrivals <- MCArrivals
  Kind <- MCKind
  Pages = 2
  Claims <- MCClaims
  Recombined <- MCRecombined
  Uploads = {order}
  Splitting = {TRUE, FALSE}
  MaxDrops = 2
  MaxFaults = 1
  None = None
INVARIANTS
  TypeOK
  NothingVanishes
  SplitIsComplete
PROPERTIES
  AttachedStays
  OneRowPerContent
  NoFileWaitsForever
