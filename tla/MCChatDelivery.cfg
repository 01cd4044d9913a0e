\* Three connections, two users, two channels, five requests; one connection
\* breaks, and sends to it may raise.
SPECIFICATION Spec
CONSTANTS
  None = None
  c1 = c1
  c2 = c2
  c3 = c3
  Conns = {c1, c2, c3}
  Users = {u1, u2}
  Rooms = {lobby, den}
  General = lobby
  Recent = 1
  FrameMax = 1
  HistoryMax = 2
  Fragile = {c3}
  Flaky = {c3}
  MaxSaid = 2
  MaxAsked = 5
SYMMETRY Interchangeable
CONSTRAINT TwoAtOnce
INVARIANTS
  TypeOK
  NoGap
  NoticesTrue
PROPERTY
  SenderOrder
