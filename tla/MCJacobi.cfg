SPECIFICATION MCSpec
CONSTANTS
  Geometries <- SmallGeometries
  GhostDepth = 1
  ChannelDepth = 1
INVARIANTS
  OnlyRightValues
  TasksAreRaceFree
  ResidualIsComplete
PROPERTIES
  ImplementsStencil
  Terminates
CHECK_DEADLOCK FALSE
