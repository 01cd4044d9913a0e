\* Two transfers of one name at once.
SPECIFICATION Spec
CONSTANTS
  Transfers = {t1, t2}
  Size <- MCSize
  LastSlot = 3
  User = user
  None = None
  MaxCrashes = 1
INVARIANT
  ReceiptIntact
