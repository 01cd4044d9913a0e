\* The sender may vanish, and a stranger connects to the port.  A client that
\* waits for either for ever may stop the whole system.
SPECIFICATION FairSpec
CONSTANTS
  Strangers = {x1}
  MayVanish = TRUE
CHECK_DEADLOCK FALSE
INVARIANTS
  TypeOK
  ReportTrue
  PortAttended
PROPERTIES
  Reconnects
  Unlisted
  SenderTold
