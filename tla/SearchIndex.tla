----------------------------- MODULE SearchIndex -----------------------------
(***************************************************************************)
(* One request in the database and its document in the search index.       *)
(*                                                                         *)
(* A unit of work registers operations while it is open.  After its commit *)
(* the index operations run one by one, outside any transaction: each one  *)
(* dumps a record the unit of work still holds and sends the document with *)
(* the revision of the row.  The dump holds the fields as the record was   *)
(* when it was read or written, but its last_reply is queried when it is   *)
(* dumped, and the revision is that of the row when it is first loaded     *)
(* again after the commit (the commit expires the loaded row).  The index  *)
(* accepts a document whose revision is not lower than the one it has, and *)
(* raises a conflict otherwise, which ends the operations that are left.   *)
(*                                                                         *)
(* status stands for all fields that live in the record.                   *)
(***************************************************************************)
EXTENDS Naturals, Sequences, FiniteSets, FiniteSetsExt

CONSTANTS
  Workers,      \* processes that serve calls
  MaxRevision,  \* bound: the versions of the row a call may start from
  MaxComments,  \* bound: the comments ever started
  MayCrash      \* whether a process may end between its commit and the index

ASSUME IndexAssumption ==
  MaxRevision \in Nat /\ MaxComments \in Nat /\ MayCrash \in BOOLEAN

VARIABLES
  row,       \* the request row
  comments,  \* the comments on the request, by order of creation
  started,   \* the number of comments ever started
  doc,       \* the document of the request, and its revision
  work,      \* work[w]: the unit of work of w
  lone       \* history: no other unit of work overlapped the last one to end,
             \* and it ended well

vars == <<row, comments, started, doc, work, lone>>

Statuses == {"created", "submitted", "closed", "deleted"}
Absent   == "absent"

Fields  == Statuses \cup {Absent}
Numbers == Nat \ {0}

Row == [version: Numbers, status: Statuses]

\* A document; Absent is the tombstone of a deleted one.
Doc == [version: Numbers, status: Fields, last: Nat]

\* A unit of work is open, then, from its commit on, it is indexing: its row
\* is loaded again (version, 0 until then) and each operation, the status of the
\* record it dumps or Absent for a removal, is dumped, then sent.
Open     == [phase: {"open"}, snap: Row, status: Statuses, writes: BOOLEAN,
             adds: SUBSET Nat, drops: SUBSET Nat, ops: Seq(Fields)]
Indexing == [phase: {"indexing", "sending"}, version: Nat, ops: Seq(Fields),
             last: Nat]
Idle     == [phase |-> "idle"]

TypeOK ==
  /\ row \in Row
  /\ comments \in SUBSET Nat
  /\ started \in Nat
  /\ doc \in Doc
  /\ work \in [Workers -> Open \cup Indexing \cup {Idle}]
  /\ lone \in BOOLEAN

\* last_reply: the comment created last, 0 if there is none
LastReply == IF comments = {} THEN 0 ELSE Max(comments)

Quiet == \A w \in Workers : work[w] = Idle

-----------------------------------------------------------------------------
(* Calls, up to their commit. *)

Begin(w, status, writes, adds, drops, ops) ==
  /\ work[w] = Idle
  /\ row.status # "deleted"
  /\ row.version < MaxRevision
  /\ work' = [work EXCEPT ![w] =
                [phase |-> "open", snap |-> row, status |-> status,
                 writes |-> writes, adds |-> adds, drops |-> drops, ops |-> ops]]
  /\ lone' = Quiet
  /\ UNCHANGED <<row, comments, doc>>

\* Mutant of ActionOps: the request is registered before its log event.
ActionOpsRequestFirst(old, new, logs, commented) ==
  <<new>> \o (IF logs THEN <<old>> ELSE <<>>)
          \o (IF commented THEN <<new>> ELSE <<>>)

\* The request is read again to log the action, before its new status is in the
\* row; it is registered after that; a comment reads it once more.
ActionOps(old, new, logs, commented) ==
  (IF logs THEN <<old>> ELSE <<>>)
    \o <<new>>
    \o (IF commented THEN <<new>> ELSE <<>>)

\* The four ways to close a request are one status here.
NewStatus(old) == IF old = "created" THEN "submitted" ELSE "closed"

\* execute_action, without a comment or with one
ExecuteAction(w) ==
  LET new == NewStatus(row.status)
      ops(commented) == ActionOps(row.status, new, new = "closed", commented)
  IN
  /\ row.status \in {"created", "submitted"}
  /\ \/ Begin(w, new, TRUE, {}, {}, ops(FALSE)) /\ UNCHANGED started
     \/ /\ started < MaxComments
        /\ Begin(w, new, TRUE, {started + 1}, {}, ops(TRUE))
        /\ started' = started + 1

\* update of a request
Update(w) ==
  Begin(w, row.status, TRUE, {}, {}, <<row.status>>) /\ UNCHANGED started

\* delete of a draft: its log event is one the request is not indexed for
Delete(w) ==
  /\ row.status = "created"
  /\ Begin(w, "deleted", TRUE, {}, {}, <<Absent>>)
  /\ UNCHANGED started

\* Mutant of ReindexOps: the request of an event is not indexed again.
NoReindexOps(status) == <<>>

ReindexOps(status) == <<status>>

\* create of a comment
Comment(w) ==
  /\ started < MaxComments
  /\ Begin(w, row.status, FALSE, {started + 1}, {}, ReindexOps(row.status))
  /\ started' = started + 1

\* delete of a comment: it becomes a log event
DeleteComment(w) ==
  /\ \E c \in comments :
       Begin(w, row.status, FALSE, {}, {c}, ReindexOps(row.status))
  /\ UNCHANGED started

\* The version of the row, and that of an event that is deleted, must still be
\* the one that was read.
Commit(w) ==
  LET t == work[w] IN
  /\ t.phase = "open"
  /\ t.writes => row.version = t.snap.version
  /\ t.drops \subseteq comments
  /\ row' = IF t.writes
            THEN [version |-> t.snap.version + 1, status |-> t.status]
            ELSE row
  /\ comments' = (comments \cup t.adds) \ t.drops
  /\ work' = [work EXCEPT ![w] =
                [phase |-> "indexing", version |-> 0, ops |-> t.ops, last |-> 0]]
  /\ UNCHANGED <<started, doc, lone>>

\* The call fails before its commit.
Rollback(w) ==
  /\ work[w].phase = "open"
  /\ work' = [work EXCEPT ![w] = Idle]
  /\ lone' = FALSE
  /\ UNCHANGED <<row, comments, started, doc>>

-----------------------------------------------------------------------------
(* Index operations, after the commit. *)

\* Mutant of LoadedVersion: the revision the row is expected to have next.
LoadedVersionNext == row.version + 1

LoadedVersion == row.version

\* The first access to the expired row loads it.
Load(w) ==
  /\ work[w].phase = "indexing"
  /\ work[w].version = 0
  /\ work[w].ops # <<>>
  /\ work' = [work EXCEPT ![w].version = LoadedVersion]
  /\ UNCHANGED <<row, comments, started, doc, lone>>

\* The next record is dumped: its own fields, and the last reply of now.
Dump(w) ==
  /\ work[w].phase = "indexing"
  /\ work[w].version # 0
  /\ work[w].ops # <<>>
  /\ work' = [work EXCEPT ![w].phase = "sending", ![w].last = LastReply]
  /\ UNCHANGED <<row, comments, started, doc, lone>>

\* The index takes the document: external_gte.
Send(w) ==
  LET t == work[w] IN
  /\ t.phase = "sending"
  /\ t.version >= doc.version
  /\ doc' = [version |-> t.version, status |-> Head(t.ops),
             last |-> IF Head(t.ops) = Absent THEN 0 ELSE t.last]
  /\ work' = [work EXCEPT ![w].phase = "indexing", ![w].ops = Tail(t.ops)]
  /\ UNCHANGED <<row, comments, started, lone>>

\* The index refuses a lower revision; the operations that are left are lost.
Conflict(w) ==
  /\ work[w].phase = "sending"
  /\ work[w].version < doc.version
  /\ work' = [work EXCEPT ![w] = Idle]
  /\ lone' = FALSE
  /\ UNCHANGED <<row, comments, started, doc>>

\* All operations have run.
Finish(w) ==
  /\ work[w].phase = "indexing"
  /\ work[w].ops = <<>>
  /\ work' = [work EXCEPT ![w] = Idle]
  /\ UNCHANGED <<row, comments, started, doc, lone>>

\* The process ends, or the index cannot be reached, after the commit.
Crash(w) ==
  /\ MayCrash
  /\ work[w].phase \in {"indexing", "sending"}
  /\ work' = [work EXCEPT ![w] = Idle]
  /\ lone' = FALSE
  /\ UNCHANGED <<row, comments, started, doc>>

-----------------------------------------------------------------------------

Init ==
  /\ row = [version |-> 1, status |-> "created"]
  /\ comments = {}
  /\ started = 0
  /\ doc = [version |-> 1, status |-> "created", last |-> 0]
  /\ work = [w \in Workers |-> Idle]
  /\ lone = TRUE

Call(w) ==
  ExecuteAction(w) \/ Update(w) \/ Delete(w) \/ Comment(w) \/ DeleteComment(w)

Index(w) == Load(w) \/ Dump(w) \/ Send(w) \/ Conflict(w) \/ Finish(w)

Next ==
  \E w \in Workers :
    Call(w) \/ Commit(w) \/ Rollback(w) \/ Index(w) \/ Crash(w)

Spec == Init /\ [][Next]_vars

-----------------------------------------------------------------------------
(* Properties. *)

ShowsStatus == doc.status = IF row.status = "deleted" THEN Absent ELSE row.status

ShowsLastReply == doc.status # Absent => doc.last = LastReply

\* The document never has a revision the row has not reached, so that whatever
\* was lost or overwritten, the index still accepts what the next call sends.
NeverAhead ==
  /\ doc.version <= row.version
  /\ \A w \in Workers :
       work[w].phase \in {"indexing", "sending"} => work[w].version <= row.version

\* The index heals: after a unit of work that no other overlapped and that ended
\* well, the document shows the row and the last reply, however stale it was.
\* The order in which execute_action registers its operations matters here.
LoneWorkRefreshes == Quiet /\ lone => ShowsStatus /\ ShowsLastReply

=============================================================================
