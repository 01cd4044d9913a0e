\* Two accounts, two channels, three messages under way.
SPECIFICATION FairSpec
CONSTANTS
  Users = {u1, u2}
  Rooms = {lobby, den}
  General = lobby
  MaxAttempts = 3
  InFlight = 3
  None = None
INVARIANTS
  TypeOK
  PromptTrue
  OneConnection
PROPERTIES
  Reconnects
  Attended
