\* Three processes create requests, for a user to moderate and for clients.
SPECIFICATION Spec
CONSTANTS
  Workers = {w1, w2, w3}
  Subjects = {alice}
  NoSubject = NoSubject
  MaxNumber = 3
INVARIANTS
  TypeOK
  NumbersDistinct
  LoneCreationNumbered
  ModeratedOnce
SYMMETRY MCWorkerSymmetry
CHECK_DEADLOCK FALSE
