\* Two connections, two users and two channels, one of each in two spellings; one
\* account and the default channel are in the database.  No symmetry, for liveness.
SPECIFICATION FairSpec
CONSTANTS
  None = None
  Main = Main
  a1 = a1
  A1 = A1
  b1 = b1
  lobby = lobby
  den = den
  Den = Den
  Conns = {s1, s2}
  Names = {a1, A1, b1}
  Channels = {lobby, den, Den}
  General = lobby
  Fold <- MCFold
  UsersFile = {a1}
  ChannelsFile = {lobby}
INVARIANTS
  RegistryExact
  OneLoginPerAccount
  MembershipExact
  RowsExist
  IInv
PROPERTIES
  OnlyOwnerEndsSession
  PresenceSpec
  Answered
  NameReleased
