\* Clients that page and focus while events are written and indexed.
SPECIFICATION Spec
CONSTANTS
  alice = alice
  System = System
  Users <- MCUsers
  Admins <- MCNobody
  SuperUsers <- MCNobody
  TopicUsers <- MCNobody
  LockingEnabled = FALSE
  ReviewersEnabled = FALSE
  RequestedBy = alice
  RequestedOf = alice
  Writers <- MCUsers
  MaxEvents = 3
  PageSizes = {1, 2}
  PreviewSize = 1
INVARIANTS
  TypeOK
  WalkSkipsNothing
  WalkIsExact
  FocusShown
  PreviewAgrees
CHECK_DEADLOCK FALSE
