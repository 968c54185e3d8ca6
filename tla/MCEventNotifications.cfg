\* Jobs that run late, behind an index that shows events late.
SPECIFICATION JobSpec
CONSTANTS
  alice = alice
  bob = bob
  carol = carol
  System = System
  Users <- MCUsers
  Admins <- MCCarol
  SuperUsers <- MCNobody
  TopicUsers <- MCBob
  LockingEnabled = TRUE
  ReviewersEnabled = FALSE
  RequestedBy = alice
  RequestedOf = carol
  Writers <- MCWriters
  MaxEvents = 3
INVARIANTS
  CommentToldToParticipants
  ReplyToldToThread
  OfferedIsAdmitted
CHECK_DEADLOCK FALSE
