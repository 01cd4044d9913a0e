\* Two connections.
SPECIFICATION FairSpec
CONSTANTS
  Conns = {c1, c2}
  Frail = {c2}
  Timeout = 2
  None = None
INVARIANTS
  TypeOK
PROPERTIES
  NoFalseTimeout
  SilentDropped
  Served
  StopEnds
