CONSTANTS
  Sizes = {0, 1, 3}
  SndBuf = 2
  CHUNK_SIZE = 2
  Batch = 3
  SoftErrors = TRUE
  MaxWritten = 4
  MaxArrived = 4
  MaxQueued = 2
SPECIFICATION FairSpec
INVARIANTS
  TypeOK
  NothingLost
  ReadyMeansEmpty
  StaleFlushing
  WillBeWoken
  TakenIsDelivered
  ClosedByPeerLoses
PROPERTIES
  StreamSpec
  QueueDrains
  EndIsNoticed
