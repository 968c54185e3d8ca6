\* A client that edits a comment with no list of files.
SPECIFICATION Spec
CONSTANTS
  alice = alice
  bob = bob
  carol = carol
  System = System
  Users <- MCUsers
  Admins <- MCNobody
  SuperUsers <- MCNobody
  TopicUsers <- MCNobody
  LockingEnabled = TRUE
  ReviewersEnabled = FALSE
  Workers = {w1, w2}
  Creators <- MCAlice
  Receivers <- MCBob
  Files = {f1}
  Habits <- MCOmit
  MaxRevision = 4
  MaxEdits = 3
  MaxEvents = 2
PROPERTIES
  OnlyUnlistedDeleted
SYMMETRY MCSymmetry
CHECK_DEADLOCK FALSE
