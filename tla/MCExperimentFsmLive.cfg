SPECIFICATION FairSpec
CONSTANTS
  c1 = c1
  c2 = c2
  NoClient = NoClient
  Client <- MCOneClient
PROPERTIES
  AckedExitHappens
  UplinkServes
