--------------------------- MODULE RequestsService ---------------------------
(***************************************************************************)
(* The requests service over the database: creation, update, deletion, the *)
(* actions (submit, accept, decline, cancel, expire, delete), locking and  *)
(* unlocking, and the comments that share the timeline with their log      *)
(* events.                                                                 *)
(*                                                                         *)
(* Each call is a unit of work: it reads the request row, decides          *)
(* everything on what it read, and commits later; several calls are open   *)
(* at once in different processes.  The commit of a call that writes the   *)
(* request row succeeds only if the row still has the version it read (the *)
(* version_id_col of the model).  A call that only adds events writes no   *)
(* request row and is not checked.                                         *)
(*                                                                         *)
(* A call that the code refuses (a permission, a guard, a validation)      *)
(* changes nothing and is no step of this module.                          *)
(***************************************************************************)
EXTENDS PermissionPolicy, Naturals, Sequences, FiniteSets

CONSTANTS
  Requests,      \* ids of requests
  Workers,       \* processes that serve calls
  Creators,      \* entities requests are created by
  Receivers,     \* entities a request may be addressed to
  ReviewerSets,  \* the lists of reviewers callers send
  MaxReviewers,  \* REQUESTS_REVIEWERS_MAX_NUMBER
  MaxRevision,   \* bound: the versions of a row a call may start from
  MaxEvents      \* bound: the length of a timeline a call may start from

ASSUME ServiceAssumption ==
  /\ Users # {}
  /\ Creators \subseteq Identities
  /\ Receivers \subseteq Users
  /\ ReviewerSets \subseteq SUBSET Users
  /\ MaxReviewers \in Nat
  /\ MaxRevision \in Nat
  /\ MaxEvents \in Nat

VARIABLES
  row,       \* row[r]: the request_metadata row of r
  timeline,  \* timeline[r]: the events of r, in order of commit
  tx         \* tx[w]: the unit of work w has open

vars == <<row, timeline, tx>>

ClosedStatuses == {"accepted", "declined", "cancelled", "expired"}
Statuses       == {"created", "submitted", "deleted"} \cup ClosedStatuses
NoStatus       == "none"

\* listed: the row holds a list of reviewers, maybe an empty one; removed: the
\* is_deleted flag of a soft-deleted row.
Row == [status: Statuses \cup {NoStatus}, creator: Identities,
        receiver: Users, reviewers: SUBSET Users, listed: BOOLEAN,
        locked: BOOLEAN, version: Nat, removed: BOOLEAN]

Outcomes == ClosedStatuses \cup {"deleted"}

Kinds == Outcomes \cup {"locked", "unlocked", "reviewers_updated", "comment"}

Entry == [kind: Kinds, by: Identities]

\* A unit of work: who called, on which request, the row that was read, the
\* row to write (if it writes one) and the kinds of the events to add.
Tx == [open: {TRUE}, id: Identities, req: Requests, snap: Row, new: Row,
       log: Seq(Kinds), writes: BOOLEAN]

NoTx == [open |-> FALSE]

TypeOK ==
  /\ row \in [Requests -> Row]
  /\ timeline \in [Requests -> Seq(Entry)]
  /\ tx \in [Workers -> Tx \cup {NoTx}]

-----------------------------------------------------------------------------
(* The action classes. *)

Actions == {"submit", "delete", "accept", "decline", "cancel", "expire"}

StatusFrom(action) ==
  IF action \in {"submit", "delete"} THEN {"created"} ELSE {"submitted"}

\* Mutant of StatusTo: a status_to that no table of statuses knows.
StatusToMisspelt ==
  [action \in Actions |-> IF action = "cancel" THEN "canceled" ELSE "submitted"]

StatusTo ==
  [action \in Actions |->
     CASE action = "submit"  -> "submitted"
       [] action = "delete"  -> "deleted"
       [] action = "accept"  -> "accepted"
       [] action = "decline" -> "declined"
       [] action = "cancel"  -> "cancelled"
       [] action = "expire"  -> "expired"]

\* Mutant of CanExecute: the status_from test is dropped.
CanExecuteAnyStatus(action, request) == TRUE

CanExecute(action, request) == request.status \in StatusFrom(action)

\* log_event is False on SubmitAction only.
LogsEvent(action) == action # "submit"

CanAction(action, request) ==
  CASE action = "submit"  -> CanActionSubmit(request)
    [] action = "delete"  -> CanActionDelete(request)
    [] action = "accept"  -> CanActionAccept(request)
    [] action = "decline" -> CanActionDecline(request)
    [] action = "cancel"  -> CanActionCancel(request)
    [] action = "expire"  -> CanActionExpire(request)

ActionLog(action) == IF LogsEvent(action) THEN <<StatusTo[action]>> ELSE <<>>

-----------------------------------------------------------------------------
(* Units of work. *)

Live(r) == row[r].status # NoStatus /\ ~row[r].removed

\* get_record(r) at the start of a call that idle worker w serves.
GetRecord(w, r) ==
  /\ tx[w] = NoTx
  /\ Live(r)
  /\ row[r].version < MaxRevision
  /\ Len(timeline[r]) < MaxEvents

\* Worker w has read row r for id and decided what its commit will write.
Begin(w, r, id, new, log, writes) ==
  /\ tx' = [tx EXCEPT ![w] =
               [open |-> TRUE, id |-> id, req |-> r, snap |-> row[r],
                new |-> new, log |-> log, writes |-> writes]]
  /\ UNCHANGED <<row, timeline>>

\* Mutant of VersionMatches: the UPDATE has no version in its WHERE clause.
VersionUnchecked(t) == TRUE

\* UPDATE ... WHERE version_id = <the version that was read>
VersionMatches(t) == row[t.req].version = t.snap.version

Entries(t) == [i \in DOMAIN t.log |-> [kind |-> t.log[i], by |-> t.id]]

\* Mutant of Commit: the version of the row is checked but not bumped.
CommitSameVersion(w) ==
  LET t == tx[w] IN
  /\ t # NoTx
  /\ t.writes => VersionMatches(t)
  /\ row' = IF t.writes THEN [row EXCEPT ![t.req] = t.new] ELSE row
  /\ timeline' = [timeline EXCEPT ![t.req] = @ \o Entries(t)]
  /\ tx' = [tx EXCEPT ![w] = NoTx]

Commit(w) ==
  LET t == tx[w] IN
  /\ t # NoTx
  /\ t.writes => VersionMatches(t)
  /\ row' = IF t.writes
            THEN [row EXCEPT ![t.req] =
                    [t.new EXCEPT !.version = t.snap.version + 1]]
            ELSE row
  /\ timeline' = [timeline EXCEPT ![t.req] = @ \o Entries(t)]
  /\ tx' = [tx EXCEPT ![w] = NoTx]

\* A stale version, a later error or the end of the process: nothing is kept.
Rollback(w) ==
  /\ tx[w] # NoTx
  /\ tx' = [tx EXCEPT ![w] = NoTx]
  /\ UNCHANGED <<row, timeline>>

-----------------------------------------------------------------------------
(* Operations. *)

\* create: a new row nobody else knows, so its unit of work is one step.  The
\* data component copies what the schema loaded, a lock and reviewers included.
Create(r, id, creator, receiver, reviewers, locked) ==
  /\ row[r].status = NoStatus
  /\ id \in CanCreate
  /\ locked => LockingEnabled
  /\ \E status \in {"created", "submitted"}, listed \in BOOLEAN :
       /\ listed => ReviewersEnabled
       /\ reviewers # {} => listed
       /\ row' = [row EXCEPT ![r] =
                    [status |-> status, creator |-> creator,
                     receiver |-> receiver, reviewers |-> reviewers,
                     listed |-> listed, locked |-> locked,
                     version |-> 1, removed |-> FALSE]]
  /\ UNCHANGED <<timeline, tx>>

\* Mutant of WithData: the keys of a draft are taken in every status.
WithDataInAnyStatus(request, receiver, locked) ==
  [request EXCEPT !.receiver = receiver,
                  !.locked = IF LockingEnabled THEN locked ELSE @]

\* What the data component makes of a row: the receiver is taken only while
\* the request is a draft, the lock always (an absent one loads as FALSE).
WithData(request, receiver, locked) ==
  [request EXCEPT
     !.receiver = IF request.status = "created" THEN receiver ELSE @,
     !.locked = IF LockingEnabled THEN locked ELSE @]

\* Mutant of MaySetReviewers: the lock is looked up on the edited row.
MaySetReviewersOnEdited(id, request, edited, reviewers) ==
  /\ ReviewersEnabled
  /\ Cardinality(reviewers) <= MaxReviewers
  /\ id \in CanActionAccept(edited)
  /\ reviewers # request.reviewers =>
       id \in CanRead(request) \cap CanCreateComment(edited)

\* The reviewers component raises unless the edited row admits the caller to
\* accept; its event is created like a comment, from the row still unedited.
MaySetReviewers(id, request, edited, reviewers) ==
  /\ ReviewersEnabled
  /\ Cardinality(reviewers) <= MaxReviewers
  /\ id \in CanActionAccept(edited)
  /\ reviewers # request.reviewers =>
       id \in CanRead(request) \cap CanCreateComment(request)

\* Mutant of ReviewersLog: only added reviewers are noticed.
ReviewersLogOfAdded(request, reviewers) ==
  IF reviewers \subseteq request.reviewers THEN <<>> ELSE <<"reviewers_updated">>

ReviewersLog(request, reviewers) ==
  IF reviewers # request.reviewers THEN <<"reviewers_updated">> ELSE <<>>

\* update without reviewers in its data
Update(w, r, id, receiver, locked) ==
  /\ GetRecord(w, r)
  /\ id \in CanUpdate(row[r])
  /\ Begin(w, r, id, WithData(row[r], receiver, locked), <<>>, TRUE)

\* update with reviewers in its data
UpdateReviewers(w, r, id, receiver, locked, reviewers) ==
  LET edited == WithData(row[r], receiver, locked) IN
  /\ GetRecord(w, r)
  /\ id \in CanUpdate(row[r])
  /\ MaySetReviewers(id, row[r], edited, reviewers)
  /\ Begin(w, r, id, [edited EXCEPT !.reviewers = reviewers, !.listed = TRUE],
           ReviewersLog(row[r], reviewers), TRUE)

\* execute_action; the comment sent along is created after the status is
\* flushed, and is refused, with all the rest, if the new row refuses it.
ExecuteAction(w, r, id, action, comment) ==
  LET new == [row[r] EXCEPT !.status = StatusTo[action]] IN
  /\ GetRecord(w, r)
  /\ id \in CanAction(action, row[r])
  /\ CanExecute(action, row[r])
  /\ LogsEvent(action) => id \in CanRead(row[r])
  /\ comment => id \in CanRead(new) \cap CanCreateComment(new)
  /\ Begin(w, r, id, new,
           ActionLog(action) \o (IF comment THEN <<"comment">> ELSE <<>>), TRUE)

\* delete: the delete action, then the row is soft-deleted.
Delete(w, r, id) ==
  /\ GetRecord(w, r)
  /\ id \in CanActionDelete(row[r])
  /\ CanExecute("delete", row[r])
  /\ id \in CanRead(row[r])
  /\ Begin(w, r, id, [row[r] EXCEPT !.removed = TRUE], ActionLog("delete"), TRUE)

\* lock_request (locked = TRUE) and unlock_request (locked = FALSE): an update
\* with the data of the request itself, the list of reviewers included.
SetLock(w, r, id, locked) ==
  /\ GetRecord(w, r)
  /\ id \in CanRead(row[r])
  /\ id \in CanLockRequest(row[r])
  /\ row[r].locked # locked
  /\ id \in CanUpdate(row[r])
  /\ row[r].listed =>
       MaySetReviewers(id, row[r], row[r], row[r].reviewers)
  /\ Begin(w, r, id, [row[r] EXCEPT !.locked = locked],
           IF locked THEN <<"locked">> ELSE <<"unlocked">>, TRUE)

\* A comment of the events service: the request row is read, never written.
Comment(w, r, id) ==
  /\ GetRecord(w, r)
  /\ id \in CanRead(row[r])
  /\ id \in CanCreateComment(row[r])
  /\ Begin(w, r, id, row[r], <<"comment">>, FALSE)

-----------------------------------------------------------------------------

NoRow == [status |-> NoStatus, creator |-> System,
          receiver |-> CHOOSE u \in Users : TRUE, reviewers |-> {},
          listed |-> FALSE, locked |-> FALSE, version |-> 0, removed |-> FALSE]

Init ==
  /\ row = [r \in Requests |-> NoRow]
  /\ timeline = [r \in Requests |-> <<>>]
  /\ tx = [w \in Workers |-> NoTx]

\* The calls on an existing request.
Call(w, r, id) ==
  \/ \E receiver \in Receivers, locked \in BOOLEAN :
       Update(w, r, id, receiver, locked)
  \/ \E receiver \in Receivers, locked \in BOOLEAN, reviewers \in ReviewerSets :
       UpdateReviewers(w, r, id, receiver, locked, reviewers)
  \/ \E action \in Actions, comment \in BOOLEAN :
       ExecuteAction(w, r, id, action, comment)
  \/ Delete(w, r, id)
  \/ \E locked \in BOOLEAN : SetLock(w, r, id, locked)
  \/ Comment(w, r, id)

Next ==
  \/ \E r \in Requests, id \in Identities, creator \in Creators,
        receiver \in Receivers, reviewers \in ReviewerSets \cup {{}},
        locked \in BOOLEAN :
       Create(r, id, creator, receiver, reviewers, locked)
  \/ \E w \in Workers, r \in Requests, id \in Identities : Call(w, r, id)
  \/ \E w \in Workers : Commit(w) \/ Rollback(w)

Spec == Init /\ [][Next]_vars

-----------------------------------------------------------------------------
(* Properties. *)

\* The status a row shows: a soft-deleted request is deleted.
Shown(request) == IF request.removed THEN "deleted" ELSE request.status

ShownStatus(r) == Shown(row[r])

\* Whatever calls overlap, a request is decided at most once and its timeline
\* tells it: it holds one outcome entry exactly when the request has that
\* outcome.  At risk from two actions that both read "submitted" and both log
\* (actions.py, RequestAction.execute).
OutcomeLoggedOnce ==
  \A r \in Requests :
    /\ ShownStatus(r) \in Outcomes =>
         \E i \in DOMAIN timeline[r] : timeline[r][i].kind = ShownStatus(r)
    /\ \A i \in DOMAIN timeline[r] :
         timeline[r][i].kind \in Outcomes =>
           /\ timeline[r][i].kind = ShownStatus(r)
           /\ \A j \in DOMAIN timeline[r] :
                timeline[r][j].kind \in Outcomes => i = j

\* Who may leave an outcome on a request, read off the request as it is now.
Entitled(request, outcome) ==
  CASE outcome \in {"accepted", "declined"} ->
         Granted(Receiver(request) \cup SystemProcess)
    [] outcome = "cancelled" -> Granted(Creator(request) \cup SystemProcess)
    [] outcome = "expired" -> SystemProcess
    [] OTHER -> Granted(Creator(request) \cup Admins \cup SystemProcess)

\* The outcome of a request was given by someone entitled to give it to the
\* request as it stands: a call that was open while a draft changed receiver,
\* or while another call decided, has not slipped its own outcome in.
DecidedByEntitled ==
  \A r \in Requests : \A i \in DOMAIN timeline[r] :
    timeline[r][i].kind \in Outcomes =>
      timeline[r][i].by \in Entitled(row[r], timeline[r][i].kind)

\* What an open unit of work is about to do to the row it read: give no outcome
\* and keep the status or submit a draft, or give the one outcome its log opens
\* with, from a status that allows it and by someone entitled to it.
Quiet(log) == \A i \in DOMAIN log : log[i] \notin Outcomes

GivesNoOutcome(t) ==
  /\ Quiet(t.log)
  /\ ~t.new.removed
  /\ \/ t.new.status = t.snap.status
     \/ t.snap.status = "created" /\ t.new.status = "submitted"
  /\ t.snap.status = "created" \/ t.new.receiver = t.snap.receiver

GivesOutcome(t) ==
  /\ Len(t.log) > 0
  /\ t.log[1] = Shown(t.new)
  /\ Quiet(Tail(t.log))
  /\ \/ t.snap.status = "created" /\ Shown(t.new) = "deleted"
     \/ t.snap.status = "submitted" /\ Shown(t.new) \in ClosedStatuses
  /\ t.new.receiver = t.snap.receiver
  /\ t.id \in Entitled(t.new, t.log[1])

\* An open unit of work has read a row that existed; if the row still has the
\* version it read then it is the row it read, and what it will write is a
\* legal step from there.
SoundWork(t) ==
  /\ t.snap.status # NoStatus /\ ~t.snap.removed
  /\ t.snap.version > 0
  /\ t.snap.version <= row[t.req].version
  /\ VersionMatches(t) => row[t.req] = t.snap
  /\ t.new.status # NoStatus /\ t.new.creator = t.snap.creator
  /\ IF t.writes THEN GivesNoOutcome(t) \/ GivesOutcome(t) ELSE Quiet(t.log)

\* Every open unit of work is sound, whatever was committed since it read: this
\* is what makes the version check of the commit enough.
OpenWorkSound == \A w \in Workers : tx[w] # NoTx => SoundWork(tx[w])

\* A row has a version exactly when it has been created, and only a created row
\* can be soft-deleted.
RowsCreated ==
  \A r \in Requests :
    /\ row[r].status = NoStatus <=> row[r].version = 0
    /\ row[r].status = NoStatus => ~row[r].removed

\* Once a request leaves the draft status its receiver is settled: an update
\* that read the draft does not land on the submitted request
\* (RequestDataComponent.update chooses its keys by the status it read).
ReceiverSettled ==
  [][\A r \in Requests :
       row[r].status \notin {NoStatus, "created"} =>
         row'[r].receiver = row[r].receiver]_vars

\* A "locked" or "unlocked" entry joins the timeline only in the commit that
\* flips the lock that way: two lockers at once do not both log.
LockEntriesFlip ==
  [][\A r \in Requests :
       \A i \in DOMAIN timeline'[r] \ DOMAIN timeline[r] :
         LET kind == timeline'[r][i].kind IN
         /\ kind = "locked"   => ~row[r].locked /\ row'[r].locked
         /\ kind = "unlocked" => row[r].locked /\ ~row'[r].locked]_vars

\* The timeline shows no second reviewers or lock change decided on reviewers
\* or a lock that had been replaced in between: every write of a request row
\* starts from the row it replaces.
WritesFromCurrentRow ==
  [][\A r \in Requests :
       row[r].version > 0 /\ row'[r] # row[r] =>
         \E w \in Workers :
           /\ tx[w] # NoTx /\ tx[w].req = r
           /\ tx[w].snap = row[r]
           /\ tx'[w] = NoTx]_vars

\* The reviewers of a request change only in a commit that logs it, by someone
\* who may accept the request as that commit leaves it (the reviewers component
\* checks action_accept on the row the data component has already edited).
ReviewersChangeLogged ==
  [][\A r \in Requests :
       row[r].version > 0 /\ row'[r].reviewers # row[r].reviewers =>
         \E i \in DOMAIN timeline'[r] \ DOMAIN timeline[r] :
           /\ timeline'[r][i].kind = "reviewers_updated"
           /\ timeline'[r][i].by \in CanActionAccept(row'[r])]_vars

\* While a request is locked only administrators and the system get a change of
\* reviewers through, even in the update that unlocks it: the event of the
\* change is refused like a comment, on the row still locked.
LockHoldsReviewers ==
  [][\A r \in Requests :
       row[r].locked /\ row'[r].reviewers # row[r].reviewers =>
         \E w \in Workers :
           /\ tx[w] # NoTx /\ tx'[w] = NoTx /\ tx[w].req = r
           /\ tx[w].id \in Granted(Admins \cup SystemProcess)]_vars

\* Whoever the policy lets act on a request may also read it, so that creating
\* the log event of the action never refuses an action that was admitted
\* (execute calls the events service, which requires "read").
ActorsCanRead ==
  \A r \in Requests : Live(r) =>
    \A action \in Actions : CanExecute(action, row[r]) =>
      CanAction(action, row[r]) \subseteq CanRead(row[r])

\* The service implements the promise of RequestLifecycle.
Lifecycle == INSTANCE RequestLifecycle
               WITH status <- [r \in Requests |-> ShownStatus(r)]

ImplementsLifecycle == Lifecycle!Spec

-----------------------------------------------------------------------------
(* What the repository says of locking and the code does not do. *)

\* The lock of a request changes only at the hands of someone the policy of
\* lock_request admits (test_only_system_and_receiver_can_lock_request).  An
\* update by the creator loads an absent is_locked as FALSE.
OnlyLockersChangeLock ==
  [][\A w \in Workers :
       tx[w] # NoTx /\ tx'[w] = NoTx =>
         LET t == tx[w] IN
         row'[t.req].locked # row[t.req].locked =>
           t.id \in CanLockRequest(row[t.req])]_vars

=============================================================================
