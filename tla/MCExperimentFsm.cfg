SPECIFICATION Spec
CONSTANTS
  c1 = c1
  c2 = c2
  NoClient = NoClient
  Client <- MCClient
SYMMETRY Symmetry
INVARIANTS
  TypeOK
  StateFollowsMessage
  TransitionSupervised
  NoUpdateMissed
  AckedExitStands
PROPERTIES
  NakMeansFailure
  FailureIsSilent
  PublishesInOrder
