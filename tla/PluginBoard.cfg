CONSTANTS
  a = a
  b = b
  x = x
  Segments <- MCSegments
  Ids <- MCIds
  Caps <- MCCaps
  Boards <- Lists
  Requests = {q1}
  MaxFailures = 2
  NoId = NoId
SPECIFICATION FairSpec
CHECK_DEADLOCK FALSE
INVARIANTS RoutedToOwner BootFailsForCause ConfigureTakesEffect ShutdownReachesEach
PROPERTY SilenceIsReported
