\* Reviewers and an administrator; two overlapping calls on one submitted or draft request.
SPECIFICATION Spec
CONSTANTS
  alice = alice
  bob = bob
  carol = carol
  System = System
  Requests = {r1}
  Workers = {w1, w2}
  Users <- MCUsersAdmin
  Admins <- MCCarol
  SuperUsers <- MCNobody
  TopicUsers <- MCNobody
  LockingEnabled = TRUE
  ReviewersEnabled = TRUE
  Creators <- MCAlice
  Receivers <- MCBob
  ReviewerSets <- MCReviewerSets
  MaxReviewers = 15
  MaxRevision = 3
  MaxEvents = 2
PROPERTIES
  ReviewersChangeLogged
  LockHoldsReviewers
SYMMETRY MCWorkerSymmetry
CHECK_DEADLOCK FALSE
