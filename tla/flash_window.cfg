CONSTANTS
  Nothing = Nothing
  agent = agent
  New = New
  Old = Old
  Writers = {agent, jobs}
  Room = 3
  Dependents = {d1}
  Sketches = {New, Old}
  Radix = 2
  MaxSeq = 1
  MaxBoots = 1
SPECIFICATION WindowSpec
INVARIANTS
  WindowTypeOK
  NoResetMidWrite
  NothingSkipped
  InOrder
  AliveIsEarned
  SteadyIsHeard
PROPERTIES
  BoardAsBefore
  BacklogGone
  ReachesTheSketch
