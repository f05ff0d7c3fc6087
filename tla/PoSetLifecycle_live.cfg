SPECIFICATION FairSpec
CONSTANTS
  po = po
  dn = dn
  dn2 = dn2
  si = si
  customs = customs
  shipping = shipping
  o1 = o1
  o2 = o2
  Docs = {po, dn, si, customs, shipping}
  TypeOf <- MCType
  NumberOf <- MCNumber
  Founders = {po, dn}
  ByNumber = {}
  Outcomes <- ReadsWell
  Operators = {o1}
  Sync = Sync
  Routes = {"toggle_customs", "manual_upload", "reclassify"}
  Faults = {"disk", "commit"}
  MaxRequests = 3
  MaxCrashes = 1
  NoAction = NoAction
INVARIANTS
  CustomsDebtRecorded
PROPERTIES
  PublishedSetImplemented
  EventuallyDelivered
  DebtIsPaid
  LockIsFreed
