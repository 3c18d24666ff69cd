SPECIFICATION FairSpec
CONSTANTS
  Lists = {"events", "audit", "conflicts", "preview"}
  Ubids = {"factory", "mill"}
  Filtering = {"mill"}
  About <- Subject
  PageSize = 1
  MaxWrites <- Writes
  MaxClears <- Clears
  MaxInFlight = 2
  All = All
  NoRow = NoRow
  Unread = Unread
INVARIANTS
  TypeOK
  WalkMissesNothing
  OpenedIsListed
PROPERTIES
  PreviewCatchesUp
