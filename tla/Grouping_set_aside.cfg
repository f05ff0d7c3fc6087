SPECIFICATION Spec
CONSTANTS
  po = po
  dn = dn
  dn2 = dn2
  k1 = k1
  n1 = n1
  Docs = {po, dn}
  KindOf <- MCKind
  Printed <- MCPrinted
  Ambiguous = {}
  DnNo <- MCDnNo
  LineRefs <- MCRefs
  Choices = {}
  Keys = {k1}
  Letters = {"", "A", "B"}
  NoKey = NoKey
  NoDn = NoDn
  NoDoc = NoDoc
  NoSet = NoSet
  MaxSets = 3
  Operators = {"o1"}
  Sync = Sync
  MaxRequests = 1
  MaxCrashes = 0
INVARIANT
  SetAsideStaysOut
