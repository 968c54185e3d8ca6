\* Expected violation: OnlyLockersChangeLock.
SPECIFICATION Spec
CONSTANTS
  alice = alice
  bob = bob
  carol = carol
  System = System
  Requests = {r1}
  Workers = {w1, w2}
  Users <- MCUsers
  Admins <- MCNobody
  SuperUsers <- MCNobody
  TopicUsers <- MCNobody
  LockingEnabled = TRUE
  ReviewersEnabled = FALSE
  Creators <- MCAlice
  Receivers <- MCBob
  ReviewerSets <- MCNoLists
  MaxReviewers = 15
  MaxRevision = 3
  MaxEvents = 2
PROPERTIES
  OnlyLockersChangeLock
CHECK_DEADLOCK FALSE
