\* Three transfers of one name, which the user has a file of; one crash.
SPECIFICATION Spec
CONSTANTS
  Transfers = {t1, t2, t3}
  Size <- MCSize
  LastSlot = 3
  User = user
  None = None
  MaxCrashes = 1
SYMMETRY Interchangeable
INVARIANTS
  TypeOK
  SoleReceiptIntact
  OthersFilesKept
  NoLeftovers
