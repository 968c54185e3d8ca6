-------------------------- MODULE PermissionPolicy --------------------------
(***************************************************************************)
(* The permission policy of requests and of their comments, as sets of     *)
(* identities: each Can... operator is the set of identities the policy    *)
(* list of the same name lets through.                                     *)
(*                                                                         *)
(* A request is the record the services hold of it; the policy reads its   *)
(* status, creator, receiver, reviewers and locked fields.  A need of an   *)
(* entity is the set of users that provide it, so that a list of           *)
(* generators is a union.                                                  *)
(***************************************************************************)

CONSTANTS
  Users,             \* user accounts
  System,            \* the system process (celery tasks, migrations)
  Admins,            \* users with the administration access
  SuperUsers,        \* users with superuser-access
  TopicUsers,        \* users that hold the needs of the request's topic
  LockingEnabled,    \* REQUESTS_LOCKING_ENABLED
  ReviewersEnabled   \* REQUESTS_REVIEWERS_ENABLED

ASSUME PolicyAssumption ==
  /\ System \notin Users
  /\ Admins \subseteq Users
  /\ SuperUsers \subseteq Users
  /\ TopicUsers \subseteq Users
  /\ LockingEnabled \in BOOLEAN
  /\ ReviewersEnabled \in BOOLEAN

Identities == Users \cup {System}

-----------------------------------------------------------------------------
(* Generators. *)

Creator(request)  == {request.creator}
Receiver(request) == {request.receiver}

Reviewers(request) == IF ReviewersEnabled THEN request.reviewers ELSE {}

\* TopicUsers is empty for a type whose resolve_topic_needs is False.
Topic(request) == TopicUsers

Status(request, statuses, needs) ==
  IF request.status \in statuses THEN needs ELSE {}

IfLocked(request, then, else) == IF request.locked THEN then ELSE else

SystemProcess == {System}

\* Every permission admits superusers, unless its generators exclude them.
Granted(needs) == needs \cup SuperUsers

-----------------------------------------------------------------------------
(* Policies on requests. *)

\* Mutant of PublicStatuses: a submitted request is not public yet.
PublicOnceClosed == {"deleted", "cancelled", "expired", "accepted", "declined"}

PublicStatuses ==
  {"submitted", "deleted", "cancelled", "expired", "accepted", "declined"}

CanCreate == Identities

CanRead(request) ==
  Granted(Status(request, {"created"}, Creator(request))
          \cup Status(request, PublicStatuses,
                      Creator(request) \cup Receiver(request)
                      \cup Reviewers(request) \cup Topic(request))
          \cup Admins \cup SystemProcess)

CanUpdate(request) ==
  Granted(Admins \cup SystemProcess
          \cup Status(request, {"created"}, Creator(request))
          \cup Status(request, {"submitted"},
                      Creator(request) \cup Receiver(request)))

CanActionDelete(request) ==
  Granted(Status(request, {"created"}, Creator(request))
          \cup Admins \cup SystemProcess)

CanActionSubmit(request)  == Granted(Creator(request) \cup SystemProcess)
CanActionCancel(request)  == Granted(Creator(request) \cup SystemProcess)
\* Mutant of CanActionAccept: the creator accepts.
AcceptByCreator(request) == Granted(Creator(request) \cup SystemProcess)

CanActionAccept(request)  == Granted(Receiver(request) \cup SystemProcess)
CanActionDecline(request) == Granted(Receiver(request) \cup SystemProcess)

\* SystemProcessWithoutSuperUser
CanActionExpire(request)  == SystemProcess

\* With locking disabled the generator is Disable(), which admits nobody.
CanLockRequest(request) ==
  IF LockingEnabled
  THEN Granted(Receiver(request) \cup SystemProcess \cup Admins)
  ELSE {}

-----------------------------------------------------------------------------
(* Policies on the events of a request. *)

CanCreateComment(request) ==
  IF LockingEnabled
  THEN Granted(IfLocked(request, Admins, CanRead(request)) \cup SystemProcess)
  ELSE CanRead(request)

CanReplyComment(request) == CanCreateComment(request)
CanManageFiles(request)  == CanCreateComment(request)
CanReadFiles(request)    == CanRead(request)

Commenter(event) == {event.by}

CanUpdateComment(request, event) ==
  IF LockingEnabled
  THEN Granted(IfLocked(request, Admins, Commenter(event)) \cup SystemProcess)
  ELSE Granted(Commenter(event) \cup Admins \cup SystemProcess)

CanDeleteComment(request, event) ==
  Granted(Commenter(event) \cup SystemProcess)

=============================================================================
