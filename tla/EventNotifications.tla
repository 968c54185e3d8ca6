-------------------------- MODULE EventNotifications --------------------------
(***************************************************************************)
(* Who is told of a comment or a reply.                                    *)
(*                                                                         *)
(* The unit of work that creates one starts a background job once it has   *)
(* committed and its index operations have run; if one of them fails there *)
(* is no job.  The job runs later, in another process, or again: it finds  *)
(* the people in the index as it is then, and the author of a parent in    *)
(* the database.  Whoever wants no mail and creators known by an address   *)
(* only are left to the notifications library.  Jobs share nothing but the *)
(* events, so one at a time is followed.                                   *)
(***************************************************************************)
EXTENDS RequestEvents

VARIABLE job  \* the job that is followed: NoJob, started, or run

jobVars == <<request, events, index, job>>

NoJob == [state |-> "none", event |-> 0, found |-> {}, to |-> {}]

\* found is what the index showed when the job was started.
Job == [state: {"started", "run"}, event: Nat, found: SUBSET Nat,
        to: SUBSET Users]

JobTypeOK ==
  /\ EventsTypeOK
  /\ job \in Job \cup {NoJob}
  /\ job # NoJob => Stored(job.event)

-----------------------------------------------------------------------------
(* Recipients. *)

Authors(ids) == {events[i].by : i \in ids}

\* Mutant of Participants: the events are read as comments.
ParticipantsOfComments(docs) ==
  {RequestedBy, RequestedOf}
    \cup Authors(Ids({d \in docs : d.kind = "comment"}))

\* RequestParticipantsRecipient
Participants(docs) == {RequestedBy, RequestedOf} \cup Authors(Ids(docs))

Replies(ids, parent) == {i \in ids : events[i].parent = parent}

\* Mutant of ThreadParticipants: the parent is looked up in the index.
ThreadParticipantsIndexed(docs, parent) ==
  Authors(Replies(Ids(docs), parent) \cup (Ids(docs) \cap {parent}))

\* CommentRepliesParticipantsRecipient
ThreadParticipants(docs, parent) ==
  {events[parent].by} \cup Authors(Replies(Ids(docs), parent))

\* The recipients less the system and, by UserRecipientFilter, the author.
ToldOf(i) ==
  (IF events[i].parent = 0 THEN Participants(index)
   ELSE ThreadParticipants(index, events[i].parent)) \ {System, events[i].by}

-----------------------------------------------------------------------------

\* NotificationOp of create, once it has committed: only comments have one.
StartJob(i) ==
  /\ job.state # "started"
  /\ Stored(i)
  /\ events[i].kind = "comment"
  /\ job' = [state |-> "started", event |-> i, found |-> Ids(index), to |-> {}]
  /\ UNCHANGED eventVars

RunJob ==
  /\ job.state = "started"
  /\ job' = [job EXCEPT !.state = "run", !.to = ToldOf(job.event)]
  /\ UNCHANGED eventVars

JobInit == EventsInit /\ job = NoJob

JobNext ==
  \/ Change /\ UNCHANGED job
  \/ \E i \in DOMAIN events : StartJob(i)
  \/ RunJob

JobSpec == JobInit /\ [][JobNext]_jobVars

-----------------------------------------------------------------------------
(* Properties. *)

\* A comment is told to creator, receiver and all whose events, deleted ones
\* included, the index showed when the job was started, however late it runs;
\* never to its author (builders.py, generators.py, filters.py).
CommentToldToParticipants ==
  job.state = "run" /\ events[job.event].parent = 0 =>
    LET author == events[job.event].by IN
    /\ ({RequestedBy, RequestedOf} \cup Authors(job.found)) \ {System, author}
         \subseteq job.to
    /\ author \notin job.to

\* A reply is told to the author of the comment it replies to, even one the
\* index does not show yet, and to all who have been found to reply to it; to
\* nobody else of the request and never to its author.
ReplyToldToThread ==
  job.state = "run" /\ events[job.event].parent # 0 =>
    LET author == events[job.event].by
        parent == events[job.event].parent
    IN
    /\ ({events[parent].by} \cup Authors(Replies(job.found, parent)))
         \ {System, author} \subseteq job.to
    /\ \A user \in job.to : \E i \in DOMAIN events :
         events[i].by = user /\ parent \in {i, events[i].parent}
    /\ author \notin job.to

=============================================================================
