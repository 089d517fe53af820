CONSTANTS
  MaxFd = 3
  MaxAddrs = 3
  Hosts = {h1}
  Empty = Empty
  Paths = {p1}
  MaxArgs = 2
SPECIFICATION FairSpec
INVARIANTS
  TypeOK
  ServesTheAddressItBound
  NothingLeftOpen
  GivesUpLast
  ServingMeansListening
  ExitIsClean
PROPERTIES
  StartupEnds
