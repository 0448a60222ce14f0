SPECIFICATION FairSpec
CONSTANTS
  s1 = s1
  s2 = s2
  s3 = s3
  r1 = r1
  r2 = r2
  NoSpill = NoSpill
  Spill <- MCSpill
  Receiver <- MCOneReceiver
  Time <- MCTimeBoth
  Duration = 2
  Maturation = 0
  Ahead = 2
  QueueSize = 1
  OpenFails = FALSE
PROPERTIES
  RunStops
  ClosedLeaves
  StartedSpillCloses
