--------------------------- MODULE RequestComments ---------------------------
(***************************************************************************)
(* The comments of one submitted request and the files attached to it: the *)
(* events service with its two file components, and the files service.     *)
(*                                                                         *)
(* A file is attached to the request, not to a comment; a comment lists    *)
(* the ids of the files it shows.  Nothing in the database ties the two:   *)
(* the services check the list when a comment is written and delete the    *)
(* files an edit or a deletion drops.                                      *)
(*                                                                         *)
(* As in RequestsService a call reads, decides and commits later.  A       *)
(* commit that adds or deletes a file writes the request row and needs the *)
(* version it read; so does the row of an event that is edited.  The files *)
(* a call has found attached are looked at once, when it reads.            *)
(*                                                                         *)
(* The habits of clients are chosen once: whether they ever list a file in *)
(* two comments, edit a comment with no list of files in the data, or      *)
(* delete a file that a comment lists.                                     *)
(***************************************************************************)
EXTENDS PermissionPolicy, Naturals, Sequences

CONSTANTS
  Workers,       \* processes that serve calls
  Creators,      \* who may have created the request
  Receivers,     \* whom it may be addressed to
  Files,         \* ids of files ever uploaded
  Habits,        \* which habits clients may have together
  MaxRevision,   \* bound: the versions of the request a call may start from
  MaxEdits,      \* bound: the versions of an event a call may start from
  MaxEvents      \* bound: the length of a timeline a call may start from

ASSUME CommentsAssumption ==
  /\ Creators \subseteq Users /\ Receivers \subseteq Users
  /\ Habits \subseteq SUBSET {"share", "omit", "remove"}
  /\ MaxRevision \in Nat /\ MaxEdits \in Nat /\ MaxEvents \in Nat

VARIABLES
  request,   \* the request row
  attached,  \* the files attached to it
  uploaded,  \* the files ever attached to it
  events,    \* its timeline
  tx,        \* tx[w]: the unit of work w has open
  habits     \* what clients do of listing a file in two comments, editing with
             \* no "files" in the payload, and deleting a file that is listed

vars == <<request, attached, uploaded, events, tx, habits>>

Request == [status: {"submitted"}, creator: Users, receiver: Users,
            reviewers: {{}}, locked: BOOLEAN, version: Nat]

\* A comment or a log event (a deleted comment is one), who created it, the
\* files it lists and the event it replies to, 0 if it is at the top.
Event == [kind: {"comment", "log"}, by: Identities, files: SUBSET Files,
          parent: Nat, version: Nat]

\* A unit of work: the version of the request that was read, the files to
\* attach and to delete, and what becomes of an event: nothing, a new one, or
\* the target as it was read with its new content.
Changes == {"none", "add", "edit"}

Tx == [open: {TRUE}, id: Identities, read: Nat, adds: SUBSET Files,
       removes: SUBSET Files, change: Changes, target: Nat, event: Event]

NoTx == [open |-> FALSE]

\* Replies are one level deep, to events already there.
RepliesFlat ==
  \A i \in DOMAIN events :
    LET parent == events[i].parent IN
    parent # 0 => parent < i /\ events[parent].parent = 0

TypeOK ==
  /\ request \in Request
  /\ attached \subseteq uploaded /\ uploaded \subseteq Files
  /\ events \in Seq(Event)
  /\ tx \in [Workers -> Tx \cup {NoTx}]
  /\ habits \in Habits
  /\ RepliesFlat

-----------------------------------------------------------------------------
(* Units of work. *)

NoEvent == [kind |-> "log", by |-> System, files |-> {}, parent |-> 0, version |-> 0]

\* Worker w is free, and the bounds leave room for a call.
MayBegin(w) ==
  /\ tx[w] = NoTx
  /\ request.version < MaxRevision
  /\ Len(events) < MaxEvents

\* Worker w has read the request for id and decided what its commit will do.
Begin(w, id, adds, removes, change, target, event) ==
  /\ MayBegin(w)
  /\ tx' = [tx EXCEPT ![w] =
              [open |-> TRUE, id |-> id, read |-> request.version, adds |-> adds,
               removes |-> removes, change |-> change, target |-> target,
               event |-> event]]
  /\ UNCHANGED <<request, attached, events, habits>>

WritesRequest(t) == t.adds \cup t.removes # {}

\* Mutant of RequestVersionMatches: a stale request row is written.
RequestVersionUnchecked(t) == TRUE

RequestVersionMatches(t) == WritesRequest(t) => request.version = t.read

\* Mutant of EventVersionMatches: a stale event row is written.
EventVersionUnchecked(t) == TRUE

EventVersionMatches(t) ==
  t.change = "edit" => events[t.target].version = t.event.version

Commit(w) ==
  LET t == tx[w] IN
  /\ t # NoTx
  /\ RequestVersionMatches(t)
  /\ EventVersionMatches(t)
  /\ request' = IF WritesRequest(t) THEN [request EXCEPT !.version = t.read + 1]
                ELSE request
  /\ attached' = (attached \cup t.adds) \ t.removes
  /\ events' = CASE t.change = "none" -> events
                 [] t.change = "add"  -> Append(events, t.event)
                 [] t.change = "edit" ->
                      [events EXCEPT ![t.target] =
                         [t.event EXCEPT !.version = @ + 1]]
  /\ tx' = [tx EXCEPT ![w] = NoTx]
  /\ UNCHANGED <<uploaded, habits>>

\* A stale version, a later error or the end of the process.
Rollback(w) ==
  /\ tx[w] # NoTx
  /\ tx' = [tx EXCEPT ![w] = NoTx]
  /\ UNCHANGED <<request, attached, uploaded, events, habits>>

-----------------------------------------------------------------------------
(* What clients send. *)

\* A file some comment lists, or is about to, or that is being deleted.
Claimed(file) ==
  \/ \E i \in DOMAIN events : file \in events[i].files
  \/ \E w \in Workers :
       tx[w] # NoTx /\ file \in tx[w].event.files \cup tx[w].removes

MayList(files) == "share" \in habits \/ \A file \in files : ~Claimed(file)

MayRemove(file) == "remove" \in habits \/ ~Claimed(file)

-----------------------------------------------------------------------------
(* Operations. *)

\* _check_file_references: every file listed is attached to the request.
CheckFileReferences(files) == files \subseteq attached

\* NestedChildrenNotAllowedError otherwise; nothing else is asked of the parent.
ParentAllowed(parent) == parent # 0 => events[parent].parent = 0

\* create of a comment, or of a reply to an event that is no reply itself
Create(w, id, files, parent) ==
  /\ id \in CanRead(request)
  /\ id \in IF parent = 0 THEN CanCreateComment(request)
            ELSE CanReplyComment(request)
  /\ ParentAllowed(parent)
  /\ MayList(files)
  /\ CheckFileReferences(files)
  /\ Begin(w, id, {}, {}, "add", 0,
           [kind |-> "comment", by |-> id, files |-> files, parent |-> parent,
            version |-> 1])
  /\ UNCHANGED uploaded

\* delete_file raises unless the file is attached and the caller may manage
\* files; the components call it for every file of the list.
MayDeleteFiles(id, files) ==
  /\ files \subseteq attached
  /\ files # {} => id \in CanManageFiles(request)

\* The cleanup component: what was listed and is not any more.
DroppedFiles(previous, next) == previous \ next

\* update of a comment.  Without a list in the data (listed is FALSE) cleanup
\* sees an empty one, and the event keeps the one it has.
Update(w, id, i, files, listed) ==
  LET event   == events[i]
      dropped == DroppedFiles(event.files, files)
  IN
  /\ id \in CanUpdateComment(request, event)
  /\ event.kind = "comment"
  /\ event.version < MaxEdits
  /\ ~listed => "omit" \in habits /\ files = {}
  /\ MayList(files \ event.files)
  /\ CheckFileReferences(files)
  /\ MayDeleteFiles(id, dropped)
  /\ Begin(w, id, {}, dropped, "edit", i,
           IF listed THEN [event EXCEPT !.files = files] ELSE event)
  /\ UNCHANGED uploaded

\* Mutant of Delete: the comment is left with no type.
DeleteType(w, id, i) ==
  LET event == events[i] IN
  /\ id \in CanDeleteComment(request, event)
  /\ event.kind = "comment"
  /\ event.version < MaxEdits
  /\ MayDeleteFiles(id, event.files)
  /\ Begin(w, id, {}, event.files, "edit", i, [event EXCEPT !.kind = "none"])
  /\ UNCHANGED uploaded

\* delete of a comment: it becomes a log event, which keeps its list.
Delete(w, id, i) ==
  LET event == events[i] IN
  /\ id \in CanDeleteComment(request, event)
  /\ event.kind = "comment"
  /\ event.version < MaxEdits
  /\ MayDeleteFiles(id, event.files)
  /\ Begin(w, id, {}, event.files, "edit", i, [event EXCEPT !.kind = "log"])
  /\ UNCHANGED uploaded

\* create_file: the key made for it is new.
CreateFile(w, id, file) ==
  /\ id \in CanManageFiles(request)
  /\ file \notin uploaded
  /\ uploaded' = uploaded \cup {file}
  /\ Begin(w, id, {file}, {}, "none", 0, NoEvent)

\* delete_file called by a client
DeleteFile(w, id, file) ==
  /\ MayRemove(file)
  /\ MayDeleteFiles(id, {file})
  /\ Begin(w, id, {}, {file}, "none", 0, NoEvent)
  /\ UNCHANGED uploaded

\* lock_request and unlock_request, at their commit (RequestsService!SetLock)
SetLock(id, locked) ==
  /\ id \in CanRead(request) \cap CanLockRequest(request) \cap CanUpdate(request)
  /\ request.locked # locked
  /\ request.version < MaxRevision
  /\ Len(events) < MaxEvents
  /\ request' = [request EXCEPT !.locked = locked, !.version = @ + 1]
  /\ events' = Append(events, [NoEvent EXCEPT !.by = id, !.version = 1])
  /\ UNCHANGED <<attached, uploaded, tx, habits>>

-----------------------------------------------------------------------------

Init ==
  /\ \E creator \in Creators, receiver \in Receivers :
       request = [status |-> "submitted", creator |-> creator,
                  receiver |-> receiver, reviewers |-> {}, locked |-> FALSE,
                  version |-> 1]
  /\ attached = {}
  /\ uploaded = {}
  /\ events = <<>>
  /\ tx = [w \in Workers |-> NoTx]
  /\ habits \in Habits

Call(w, id) ==
  \/ \E files \in SUBSET Files, parent \in {0} \cup DOMAIN events :
       Create(w, id, files, parent)
  \/ \E i \in DOMAIN events, files \in SUBSET Files, listed \in BOOLEAN :
       Update(w, id, i, files, listed)
  \/ \E i \in DOMAIN events : Delete(w, id, i)
  \/ \E file \in Files : CreateFile(w, id, file) \/ DeleteFile(w, id, file)

\* Calls of workers that are free, which the guards of Begin would ask last.
Next ==
  \/ \E w \in {v \in Workers : MayBegin(v)}, id \in Identities : Call(w, id)
  \/ \E w \in Workers : Commit(w) \/ Rollback(w)
  \/ \E id \in Identities, locked \in BOOLEAN : SetLock(id, locked)

Spec == Init /\ [][Next]_vars

-----------------------------------------------------------------------------
(* Properties. *)

\* The files a comment lists are attached to the request, whatever calls of
\* clients with no such habit overlap: an edit that lists a file, and one that drops
\* it, of the same comment do not both commit (components.py, both file
\* components; the services never look at the other comments).
ReferencesExist ==
  habits = {} => \A i \in DOMAIN events :
    events[i].kind = "comment" => events[i].files \subseteq attached

\* While a request is locked, nobody but administrators and the system attaches
\* or deletes files, not even in a call that read the request before the lock.
\* A comment does slip in: it writes no request row, which a call on files does.
LockHoldsFiles ==
  [][request.locked /\ attached' # attached =>
       \E w \in Workers :
         /\ tx[w] # NoTx /\ tx'[w] = NoTx
         /\ tx[w].id \in Granted(Admins \cup SystemProcess)]_vars

\* A deleted comment stays deleted: an edit that was open when it was deleted
\* does not bring it back.
DeletedStaysDeleted ==
  [][\A i \in DOMAIN events :
       events[i].kind = "log" => events'[i] = events[i]]_vars

-----------------------------------------------------------------------------
(* What the repository says of comments and files and the code does not do. *)

\* Only files no comment lists any more are deleted ("Delete files not
\* referenced anymore in a comment").  An edit with no list of files in its data
\* deletes all files of the comment and leaves the list as it is.
OnlyUnlistedDeleted ==
  [][\A file \in attached \ attached' : \A i \in DOMAIN events' :
       events'[i].kind = "comment" => file \notin events'[i].files]_vars

=============================================================================
