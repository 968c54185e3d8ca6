\* Two overlapping calls, an administrator among the callers, of clients with all
\* habits and of clients with none.
SPECIFICATION Spec
CONSTANTS
  alice = alice
  bob = bob
  carol = carol
  System = System
  Users <- MCUsersAdmin
  Admins <- MCCarol
  SuperUsers <- MCNobody
  TopicUsers <- MCNobody
  LockingEnabled = TRUE
  ReviewersEnabled = FALSE
  Workers = {w1, w2}
  Creators <- MCAlice
  Receivers <- MCBob
  Files = {f1}
  Habits <- MCHabits
  MaxRevision = 3
  MaxEdits = 2
  MaxEvents = 2
INVARIANTS
  TypeOK
  ReferencesExist
PROPERTIES
  LockHoldsFiles
  DeletedStaysDeleted
SYMMETRY MCSymmetry
CHECK_DEADLOCK FALSE
