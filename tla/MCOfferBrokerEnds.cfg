\* Two users, an offer and the shutdown, or three users and an offer of each of
\* two others with the first; sends to the second of them may raise.
SPECIFICATION BrokerFairSpec
CONSTANTS
  None = None
  Main = Main
  Beat = Beat
  a1 = a1
  A1 = A1
  b1 = b1
  d1 = d1
  s1 = s1
  s2 = s2
  s3 = s3
  i1 = i1
  i2 = i2
  lobby = lobby
  Conns = {s1, s2, s3}
  Names = {a1, b1, d1}
  Channels = {lobby}
  General = lobby
  Fold <- MCFold
  UsersFile = {a1, b1, d1}
  ChannelsFile = {lobby}
  Ids = {i1, i2}
  MaxPending = 1
  Flaky = {s2}
ACTION_CONSTRAINT Bounded
PROPERTIES
  CoreSpec
  OffersEndWhileAlive
  OtherTold
