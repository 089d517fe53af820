CONSTANTS
  MaxAddrs = 3
  Timeouts = {0, 500, 1500, 2000}
SPECIFICATION FairSpec
INVARIANTS
  TypeOK
  OutcomeIsExplained
  TimeoutIsInherited
  TimersKeepTheList
  TimeoutIsCutShort
PROPERTIES
  RequestSpec
  ChainEnds
  AttemptsAreReleased
