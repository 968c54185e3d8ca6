---------------------------- MODULE RequestEvents ----------------------------
(***************************************************************************)
(* The events of one submitted request, in the database and in the index   *)
(* that every list of events is read from.                                 *)
(*                                                                         *)
(* Events are numbered by their creation times.  An event gets its time    *)
(* when its row is inserted, can be read when its unit of work commits,    *)
(* and found when the index has taken its document and refreshed: each in  *)
(* its own order, and the last perhaps never.                              *)
(*                                                                         *)
(* A reply is indexed on the shard of its parent, the only place where the *)
(* join of the two is found.  A document is known by its id and its shard. *)
(***************************************************************************)
EXTENDS PermissionPolicy, Naturals, Sequences

CONSTANTS
  RequestedBy,  \* who created the request
  RequestedOf,  \* whom it is addressed to
  Writers,      \* bound: who writes events
  MaxEvents     \* bound: the number of events ever begun

ASSUME EventsAssumption ==
  /\ RequestedBy \in Users /\ RequestedOf \in Users
  /\ Writers \subseteq Identities
  /\ MaxEvents \in Nat

VARIABLES
  request,  \* the request row
  events,   \* the events, by creation time
  index     \* the documents that searches find

eventVars == <<request, events, index>>

Kinds == {"comment", "log"}

\* parent is the event it replies to, 0 for an event at the top.  An event whose
\* unit of work is rolled back stays open for ever: nobody can tell.
Event == [kind: Kinds, by: Identities, parent: Nat, stored: BOOLEAN]

Doc == [id: Nat, kind: Kinds, parent: Nat, shard: Nat]

Ids(docs) == {d.id : d \in docs}

Stored(i) == i \in DOMAIN events /\ events[i].stored

EventsTypeOK ==
  /\ request \in [status: {"submitted"}, creator: {RequestedBy},
                  receiver: {RequestedOf}, reviewers: {{}}, locked: BOOLEAN]
  /\ events \in Seq(Event)
  /\ index \in SUBSET Doc
  /\ \A i \in DOMAIN events :
       LET parent == events[i].parent IN
       parent # 0 => parent < i /\ Stored(parent) /\ events[parent].parent = 0
  /\ \A d \in index : Stored(d.id)

-----------------------------------------------------------------------------
(* Creation. *)

Insert(id, kind, parent) ==
  /\ Len(events) < MaxEvents
  /\ events' = Append(events, [kind |-> kind, by |-> id, parent |-> parent,
                               stored |-> FALSE])
  /\ UNCHANGED <<request, index>>

\* Mutant of MayReply: replies to replies are let through.
MayReplyToAny(id, parent) ==
  /\ Stored(parent)
  /\ id \in CanRead(request) \cap CanReplyComment(request)

MayReply(id, parent) ==
  /\ Stored(parent)
  /\ id \in CanRead(request) \cap CanReplyComment(request)
  /\ events[parent].parent = 0

\* create of a comment (POST comments)
Comment(id) ==
  /\ id \in CanRead(request) \cap CanCreateComment(request)
  /\ Insert(id, "comment", 0)

\* create of a reply (POST reply); the type of the parent is not looked at.
Reply(id, parent) == MayReply(id, parent) /\ Insert(id, "comment", parent)

\* create of a log event by an action: reading the request is enough.
Log(id) == id \in CanRead(request) /\ Insert(id, "log", 0)

Commit(i) ==
  /\ i \in DOMAIN events
  /\ ~events[i].stored
  /\ events' = [events EXCEPT ![i].stored = TRUE]
  /\ UNCHANGED <<request, index>>

-----------------------------------------------------------------------------
(* Edits of what is stored. *)

MayDelete(id, i) ==
  /\ Stored(i)
  /\ id \in CanDeleteComment(request, events[i])
  /\ events[i].kind = "comment"

MayUpdate(id, i) ==
  /\ Stored(i)
  /\ id \in CanUpdateComment(request, events[i])
  /\ events[i].kind = "comment"

\* Mutant of Delete: the comment goes, and its document with it.
DeleteForGood(id, i) ==
  /\ MayDelete(id, i)
  /\ events' = [events EXCEPT ![i].kind = "log"]
  /\ index' = {d \in index : d.id # i}
  /\ UNCHANGED request

\* delete of a comment: it turns into a log event at its place.
Delete(id, i) ==
  /\ MayDelete(id, i)
  /\ events' = [events EXCEPT ![i].kind = "log"]
  /\ UNCHANGED <<request, index>>

\* lock_request and unlock_request (RequestsService!SetLock)
SetLock(id, locked) ==
  /\ id \in CanRead(request) \cap CanLockRequest(request) \cap CanUpdate(request)
  /\ request.locked # locked
  /\ request' = [request EXCEPT !.locked = locked]
  /\ UNCHANGED <<events, index>>

-----------------------------------------------------------------------------
(* The index. *)

\* Mutant of Routing: every document goes by its own id.
RoutingById(i) == i

\* A document goes by its own id unless the indexer passes a routing.
Routing(i) == IF events[i].parent = 0 THEN i ELSE events[i].parent

DocOf(i) == [id |-> i, kind |-> events[i].kind, parent |-> events[i].parent,
             shard |-> Routing(i)]

\* The index has taken the document of event i, as it is now, and refreshed.
\* The call that wrote the event last had sent it.
Refresh(i) ==
  /\ Stored(i)
  /\ DocOf(i) \notin index
  /\ index' = {d \in index : d.id # i \/ d.shard # Routing(i)} \cup {DocOf(i)}
  /\ UNCHANGED <<request, events>>

-----------------------------------------------------------------------------

EventsInit ==
  /\ request = [status |-> "submitted", creator |-> RequestedBy,
                receiver |-> RequestedOf, reviewers |-> {}, locked |-> FALSE]
  /\ events = <<>>
  /\ index = {}

\* The calls that write, as the resource makes them of what clients send.
Write(id) ==
  \/ Comment(id)
  \/ \E i \in DOMAIN events : Reply(id, i) \/ Delete(id, i)

Change ==
  \/ \E id \in Writers : Write(id) \/ Log(id)
  \/ \E i \in DOMAIN events : Commit(i) \/ Refresh(i)
  \/ \E id \in Identities, locked \in BOOLEAN : SetLock(id, locked)

-----------------------------------------------------------------------------
(* What an answer offers a reader on an event it found. *)

\* Mutant of OffersUpdate: the type of the event is not looked at.
OffersUpdateOfAny(id, d) == id \in CanUpdateComment(request, events[d.id])

\* get_permissions, on the document found and the request from the database
OffersUpdate(id, d) ==
  d.kind = "comment" /\ id \in CanUpdateComment(request, events[d.id])

OffersDelete(id, d) ==
  d.kind = "comment" /\ id \in CanDeleteComment(request, events[d.id])

\* the permission and the reply link
OffersReply(id, d) == id \in CanReplyComment(request) /\ d.parent = 0

\* What an answer offers on a document that is up to date, the service does not
\* refuse while the lock stays as it is: the schema and the links decide apart
\* from the service.
OfferedIsAdmitted ==
  \A d \in index, id \in CanRead(request) : d.kind = events[d.id].kind =>
    /\ OffersUpdate(id, d) => MayUpdate(id, d.id)
    /\ OffersDelete(id, d) => MayDelete(id, d.id)
    /\ OffersReply(id, d)  => MayReply(id, d.id)

=============================================================================
