\* Two connections, two offers; a send to the second connection may raise.
SPECIFICATION RunningSpec
CONSTANTS
  None = None
  Main = Main
  Beat = Beat
  a1 = a1
  A1 = A1
  b1 = b1
  d1 = d1
  s1 = s1
  s2 = s2
  s3 = s3
  i1 = i1
  i2 = i2
  lobby = lobby
  Conns = {s1, s2}
  Names = {a1, b1}
  Channels = {lobby}
  General = lobby
  Fold <- MCFold
  UsersFile = {a1, b1}
  ChannelsFile = {lobby}
  Ids = {i1, i2}
  MaxPending = 1
  Flaky = {s2}
\* The heartbeat and every client may be gone, and the stop is left out.
CHECK_DEADLOCK FALSE
PROPERTY
  OffersEnd
