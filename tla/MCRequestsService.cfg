\* Two overlapping calls by creator, receiver and system; locking on.
SPECIFICATION Spec
CONSTANTS
  alice = alice
  bob = bob
  carol = carol
  System = System
  Requests = {r1}
  Workers = {w1, w2}
  Users <- MCUsersAdmin
  Admins <- MCNobody
  SuperUsers <- MCCarol
  TopicUsers <- MCNobody
  LockingEnabled = TRUE
  ReviewersEnabled = FALSE
  Creators <- MCAlice
  Receivers <- MCAliceBob
  ReviewerSets <- MCNoLists
  MaxReviewers = 15
  MaxRevision = 3
  MaxEvents = 2
INVARIANTS
  TypeOK
  OutcomeLoggedOnce
  DecidedByEntitled
  ActorsCanRead
  OpenWorkSound
PROPERTIES
  ReceiverSettled
  LockEntriesFlip
  WritesFromCurrentRow
  ImplementsLifecycle
SYMMETRY MCWorkerSymmetry
CHECK_DEADLOCK FALSE
