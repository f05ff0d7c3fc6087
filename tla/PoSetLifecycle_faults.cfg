SPECIFICATION Spec
CONSTANTS
  po = po
  dn = dn
  dn2 = dn2
  si = si
  customs = customs
  shipping = shipping
  o1 = o1
  o2 = o2
  Docs = {po, dn, dn2, si, customs}
  TypeOf <- MCType
  NumberOf <- MCNumber
  Founders = {po, si}
  ByNumber = {dn2}
  Outcomes <- ReadsMixed
  Operators = {o1, o2}
  Sync = Sync
  Routes = {"merge", "redo_extract", "force_merge", "quarantine_delete", "confirm_placement", "manual_upload", "remove_supporting"}
  Faults = {"disk", "source", "commit", "settle"}
  MaxRequests = 2
  MaxCrashes = 1
  NoAction = NoAction
SYMMETRY MCSymmetry
INVARIANTS
  LockExcludes
  MergedHasPacket
PROPERTIES
  DeliveredIsTerminal
  AutoPacketIsProved
