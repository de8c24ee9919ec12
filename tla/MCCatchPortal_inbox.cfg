SPECIFICATION PortalSpec
CONSTANTS
  Requests = {r1, r2}
  RequestLimit = 3
  StorageLimit = 6
  MaxBody = 2
  Bodies = {2, 3}
  Locations = {1}
  PageSize = 1
  MaxBack = 2
  NoEvent = NoEvent
INVARIANTS
  StorageIsExact
  ActiveHasRoom
  NothingOutlivesTheInbox
  PagingMissesNothing
PROPERTIES
  InboxIsMetered
