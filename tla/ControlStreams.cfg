CONSTANTS
  EventIds = {e1, e2, e3}
  ActionIds = {a1, a2}
  Clients = {c1}
  HistoryLimit = 2
  RestoreLimits = {1, 3}
  MaxEvents = 3
  Stamps <- MCStamps
  MaxBoots = 1
  NoId = NoId
SPECIFICATION FairSpec
PROPERTIES EventsAreShown ActionsAreListed RestoredIsNewest
