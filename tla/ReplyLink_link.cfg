SPECIFICATION FairSpec
CONSTANTS
  MaxSockets = 3
  MaxUnread = 3
PROPERTIES
  OldPointsGo
  ServedOrDropped
