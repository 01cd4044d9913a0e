\* The history read on arrival is larger than a frame.
SPECIFICATION Spec
CONSTANTS
  None = None
  c1 = c1
  c2 = c2
  c3 = c3
  Conns = {c1, c2, c3}
  Users = {u1, u2}
  Rooms = {lobby, den}
  General = lobby
  Recent = 2
  FrameMax = 1
  HistoryMax = 2
  Fragile = {}
  Flaky = {}
  MaxSaid = 2
  MaxAsked = 5
INVARIANT
  HistoryShown
