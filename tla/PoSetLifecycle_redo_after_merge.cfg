SPECIFICATION Spec
CONSTANTS
  po = po
  dn = dn
  dn2 = dn2
  si = si
  customs = customs
  shipping = shipping
  o1 = o1
  o2 = o2
  Docs = {po, dn, si}
  TypeOf <- MCType
  NumberOf <- MCNumber
  Founders = {po, dn, si}
  ByNumber = {}
  Outcomes <- ReadsWell
  Operators = {o1, o2}
  Sync = Sync
  Routes = {"merge", "redo_extract"}
  Faults = {}
  MaxRequests = 2
  MaxCrashes = 0
  NoAction = NoAction
SYMMETRY MCSymmetry
PROPERTIES
  DeliveredReadingsStay
