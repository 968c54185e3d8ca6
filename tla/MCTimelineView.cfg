\* Two calls for pages at once and one failure.
SPECIFICATION Spec
CONSTANTS
  Size = 2
  Preloaded <- MCPreloaded
  MaxPosts = 2
  Slots = {1, 2}
  MaxFaults = 1
INVARIANTS
  TypeOK
  OneRefresh
  GapsOffered
PROPERTIES
  NewEventsShown
CHECK_DEADLOCK FALSE
