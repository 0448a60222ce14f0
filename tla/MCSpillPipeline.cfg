SPECIFICATION Spec
CONSTANTS
  s1 = s1
  s2 = s2
  s3 = s3
  r1 = r1
  r2 = r2
  NoSpill = NoSpill
  Spill <- MCSpill
  Receiver <- MCReceiver
  Time <- MCTime
  Duration = 2
  Maturation = 1
  Ahead = 2
  QueueSize = 1
  OpenFails = TRUE
SYMMETRY Symmetry
CHECK_DEADLOCK FALSE
INVARIANTS
  TypeOK
  ClosedIsQuiet
PROPERTIES
  HitsKeptUntilFiled
