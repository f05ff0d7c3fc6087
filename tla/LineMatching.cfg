SPECIFICATION MatchingSpec
CONSTANTS
  bolt = bolt
  bolts = bolts
  stud = stud
  nut = nut
  Descriptions = {bolt, bolts, stud, nut}
  Similar <- MCSimilar
  Threshold = 85
  Purchases <- MCPurchases
  Deliveries <- MCDeliveries
  Switches <- MCSwitches
  MaxDocuments = 3
  None = None
INVARIANTS
  QuantitiesAreConserved
  RightLines
PROPERTIES
  PlacementIsStable
CHECK_DEADLOCK FALSE
