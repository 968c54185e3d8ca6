---------------------------- MODULE RequestExpiry ----------------------------
(***************************************************************************)
(* The periodic task that expires requests, among the calls of users.      *)
(*                                                                         *)
(* The task asks the index for the open requests whose time has passed and *)
(* expires them one by one, each in a unit of work of its own.  Whatever   *)
(* one of them raises is logged and the task goes on: the request was      *)
(* decided meanwhile, is committed under the task's hands, or is open only *)
(* in an index that was not told of its end.  What a task did not get done *)
(* is found by a later one.                                                *)
(*                                                                         *)
(* The index is told as in SearchIndex: after its commit a unit of work    *)
(* sends the is_open of its own copies of the request, one after the       *)
(* other, with the revision the row has when it is loaded again; a lower   *)
(* revision than the document's is refused.  Comments tell the index of    *)
(* their copy too, though they do not write the row.                       *)
(*                                                                         *)
(* Processes may die, though not for ever.                                 *)
(***************************************************************************)
EXTENDS Naturals, Sequences

CONSTANTS
  Requests,     \* requests that expire
  Callers,      \* processes that serve the calls of users
  Tasks,        \* processes that run the task, which may overlap
  MaxRevision,  \* bound: the versions of each row a user's write may start from
  MaxFaults     \* bound: the processes that die and the errors out of the blue

ASSUME ExpiryAssumption ==
  /\ MaxRevision \in [Requests -> Nat]
  /\ MaxFaults \in Nat
  /\ Callers \cap Tasks = {}

VARIABLES
  status,   \* the status of each request row
  version,  \* and its version
  due,      \* the requests whose expires_at has passed
  doc,      \* doc[r]: the revision and is_open of its document
  work,     \* work[p]: the unit of work of process p
  left,     \* left[t]: the requests task t has yet to expire
  lone,     \* history: lone[r], the last unit of work on r to end overlapped
            \* no other on r, and ended well
  faults    \* the number of faults so far

vars == <<status, version, due, doc, work, left, lone, faults>>

Processes == Callers \cup Tasks

NoStatus == "none"
Statuses == {"created", "submitted", "accepted", "expired", "deleted"}

\* A unit of work is open, since it read the request at that version; then it has
\* committed and indexes: the row is loaded again (version, 0 until then) and the
\* is_open of each copy is sent.
Open     == [phase: {"open"}, request: Requests, version: Nat,
             to: Statuses, writes: BOOLEAN, ops: Seq(BOOLEAN)]
Indexing == [phase: {"indexing"}, request: Requests, version: Nat,
             ops: Seq(BOOLEAN)]
Idle     == [phase |-> "idle"]

TypeOK ==
  /\ status \in [Requests -> Statuses \cup {NoStatus}]
  /\ version \in [Requests -> Nat]
  /\ due \subseteq Requests
  /\ doc \in [Requests -> [version: Nat, open: BOOLEAN]]
  /\ work \in [Processes -> Open \cup Indexing \cup {Idle}]
  /\ left \in [Tasks -> SUBSET Requests]
  /\ lone \in [Requests -> BOOLEAN]
  /\ faults \in 0 .. MaxFaults

\* is_open, as it is dumped from a copy with this status
IsOpen(s) == s = "submitted"

Exists(r) == status[r] \notin {NoStatus, "deleted"}

WorksOn(p, r) == work[p] # Idle /\ work[p].request = r

Untouched(r) == \A p \in Processes : ~WorksOn(p, r)

-----------------------------------------------------------------------------
(* Units of work. *)

Begin(p, r, to, writes, ops) ==
  /\ work[p] = Idle
  /\ work' = [work EXCEPT ![p] =
                [phase |-> "open", request |-> r, version |-> version[r],
                 to |-> to, writes |-> writes, ops |-> ops]]
  /\ lone' = [lone EXCEPT ![r] = Untouched(r)]
  /\ UNCHANGED <<status, version, due, doc, faults>>

\* Mutant of VersionMatches: the commit does not look at the version.
VersionUnchecked(p) == TRUE

VersionMatches(p) ==
  work[p].writes => version[work[p].request] = work[p].version

\* Mutant of Committed: a unit of work that writes the row does not index it.
CommittedUnindexed(p) ==
  IF work[p].writes
  THEN Idle
  ELSE [phase |-> "indexing", request |-> work[p].request, version |-> 0,
        ops |-> work[p].ops]

\* What is left to do after the commit.
Committed(p) ==
  [phase |-> "indexing", request |-> work[p].request, version |-> 0,
   ops |-> work[p].ops]

Commit(p) ==
  LET r == work[p].request IN
  /\ work[p].phase = "open"
  /\ VersionMatches(p)
  /\ IF work[p].writes
     THEN /\ status' = [status EXCEPT ![r] = work[p].to]
          /\ version' = [version EXCEPT ![r] = @ + 1]
     ELSE UNCHANGED <<status, version>>
  /\ work' = [work EXCEPT ![p] = Committed(p)]
  /\ UNCHANGED <<due, doc, left, lone, faults>>

\* Mutant of GoOn: an error ends the task.
GoOnNot(t, r) == {}

\* What task t has left after an error with r, which is logged.
GoOn(t, r) == left[t] \ {r}

\* An error ends the unit of work of p, before or after its commit.
BreakOff(p) ==
  LET r == work[p].request IN
  /\ work' = [work EXCEPT ![p] = Idle]
  /\ lone' = [lone EXCEPT ![r] = FALSE]
  /\ left' = IF p \in Tasks THEN [left EXCEPT ![p] = GoOn(p, r)] ELSE left
  /\ UNCHANGED <<status, version, due, doc>>

\* The row was written under the hands of p; a user's call may fail otherwise.
Rollback(p) ==
  /\ work[p].phase = "open"
  /\ p \in Tasks => ~VersionMatches(p)
  /\ BreakOff(p)
  /\ UNCHANGED faults

-----------------------------------------------------------------------------
(* Index operations, after the commit. *)

\* The first access to the expired row loads it.
Load(p) ==
  /\ work[p].phase = "indexing"
  /\ work[p].version = 0
  /\ work' = [work EXCEPT ![p].version = version[work[p].request]]
  /\ UNCHANGED <<status, version, due, doc, left, lone, faults>>

Loaded(p) == work[p].phase = "indexing" /\ work[p].version # 0

\* The next copy is sent, and searches find it: external_gte.
Send(p) ==
  LET t == work[p] IN
  /\ Loaded(p)
  /\ t.version >= doc[t.request].version
  /\ doc' = [doc EXCEPT ![t.request] = [version |-> t.version, open |-> Head(t.ops)]]
  /\ work' = [work EXCEPT ![p] =
                IF Tail(t.ops) = <<>> THEN Idle ELSE [t EXCEPT !.ops = Tail(t.ops)]]
  /\ UNCHANGED <<status, version, due, left, lone, faults>>

\* The index refuses a lower revision; the operations that are left are lost.
Conflict(p) ==
  /\ Loaded(p)
  /\ work[p].version < doc[work[p].request].version
  /\ BreakOff(p)
  /\ UNCHANGED faults

Index(p) == Load(p) \/ Send(p) \/ Conflict(p)

-----------------------------------------------------------------------------
(* Users and time. *)

\* create, of a request nobody else can have read before its commit
Create(c, r) ==
  /\ work[c] = Idle
  /\ status[r] = NoStatus
  /\ version[r] < MaxRevision[r]
  /\ \E to \in {"created", "submitted"} :
       /\ status' = [status EXCEPT ![r] = to]
       /\ work' = [work EXCEPT ![c] =
                     [phase |-> "indexing", request |-> r, version |-> 0,
                      ops |-> <<IsOpen(to)>>]]
  /\ version' = [version EXCEPT ![r] = @ + 1]
  /\ lone' = [lone EXCEPT ![r] = Untouched(r)]
  /\ UNCHANGED <<due, doc, left, faults>>

\* Mutant of ActionOps: the request is registered before its log event.
ActionOpsRequestFirst(old, new, logs, commented) ==
  <<IsOpen(new)>>
    \o (IF logs THEN <<IsOpen(old)>> ELSE <<>>)
    \o (IF commented THEN <<IsOpen(new)>> ELSE <<>>)

\* The request is read again to log that it closes, before its new status is in
\* the row; it is registered after that; a comment reads it once more.
ActionOps(old, new, logs, commented) ==
  (IF logs THEN <<IsOpen(old)>> ELSE <<>>)
    \o <<IsOpen(new)>>
    \o (IF commented THEN <<IsOpen(new)>> ELSE <<>>)

\* Calls that write the row: submit, any decision, update (lock and unlock, or the
\* reviewers, with a log event), delete of a draft.
WriteCall(c, r) ==
  LET from == status[r] IN
  /\ version[r] < MaxRevision[r]
  /\ \/ /\ from = "created"
        /\ \E commented \in BOOLEAN :
             Begin(c, r, "submitted", TRUE,
                   ActionOps(from, "submitted", FALSE, commented))
     \/ /\ from = "submitted"
        /\ \E commented \in BOOLEAN :
             Begin(c, r, "accepted", TRUE,
                   ActionOps(from, "accepted", TRUE, commented))
     \/ /\ Exists(r)
        /\ \E logged \in BOOLEAN :
             Begin(c, r, from, TRUE, ActionOps(from, from, logged, FALSE))
     \/ /\ from = "created"
        /\ Begin(c, r, "deleted", TRUE, <<FALSE>>)
  /\ UNCHANGED left

\* create, update and delete of a comment
Comment(c, r) ==
  /\ Exists(r)
  /\ Begin(c, r, status[r], FALSE, <<IsOpen(status[r])>>)
  /\ UNCHANGED left

UserCall(c, r) == Create(c, r) \/ WriteCall(c, r) \/ Comment(c, r)

Pass(r) ==
  /\ status[r] # NoStatus
  /\ r \notin due
  /\ due' = due \cup {r}
  /\ UNCHANGED <<status, version, doc, work, left, lone, faults>>

-----------------------------------------------------------------------------
(* check_expired_requests. *)

\* expires_at <= now and is_open
Start(t) ==
  /\ work[t] = Idle
  /\ left[t] = {}
  /\ left' = [left EXCEPT ![t] = {r \in due : doc[r].open}]
  /\ UNCHANGED <<status, version, due, doc, work, lone, faults>>

ExpiredStatus == "expired"

\* execute_action begins with r, or raises: r is not submitted (any more).
Expire(t, r) ==
  /\ work[t] = Idle
  /\ r \in left[t]
  /\ \/ /\ status[r] = "submitted"
        /\ Begin(t, r, ExpiredStatus, TRUE,
                 ActionOps("submitted", ExpiredStatus, TRUE, FALSE))
        /\ left' = [left EXCEPT ![t] = @ \ {r}]
     \/ /\ status[r] # "submitted"
        /\ left' = [left EXCEPT ![t] = GoOn(t, r)]
        /\ UNCHANGED <<status, version, due, doc, work, lone, faults>>

\* A process goes on: with its commit, or its end, and with the index.
Run(t) ==
  Start(t) \/ (\E r \in Requests : Expire(t, r)) \/ Commit(t) \/ Rollback(t) \/ Index(t)

-----------------------------------------------------------------------------
(* Faults. *)

\* Any other error of a task, an index that cannot be reached, or the death of a
\* process that serves a call.
Fail(p) ==
  /\ work[p] # Idle
  /\ faults < MaxFaults
  /\ faults' = faults + 1
  /\ BreakOff(p)

\* The process that runs the task dies.
Kill(t) ==
  /\ left[t] # {} \/ work[t] # Idle
  /\ faults < MaxFaults
  /\ faults' = faults + 1
  /\ left' = [left EXCEPT ![t] = {}]
  /\ work' = [work EXCEPT ![t] = Idle]
  /\ lone' = [r \in Requests |-> lone[r] /\ ~WorksOn(t, r)]
  /\ UNCHANGED <<status, version, due, doc>>

-----------------------------------------------------------------------------

Init ==
  /\ status = [r \in Requests |-> NoStatus]
  /\ version = [r \in Requests |-> 0]
  /\ due = {}
  /\ doc = [r \in Requests |-> [version |-> 0, open |-> FALSE]]
  /\ work = [p \in Processes |-> Idle]
  /\ left = [t \in Tasks |-> {}]
  /\ lone = [r \in Requests |-> TRUE]
  /\ faults = 0

Next ==
  \/ \E r \in Requests : Pass(r) \/ \E c \in Callers : UserCall(c, r)
  \/ \E c \in Callers : Commit(c) \/ Rollback(c) \/ Index(c) \/ Fail(c)
  \/ \E t \in Tasks : Run(t) \/ Fail(t) \/ Kill(t)

\* The scheduler starts the task again and again and a process that runs goes on;
\* a call that has committed goes on to its index operations.
Fairness ==
  /\ \A t \in Tasks : WF_vars(Run(t))
  /\ \A c \in Callers : WF_vars(Index(c))

Spec == Init /\ [][Next]_vars /\ Fairness

-----------------------------------------------------------------------------
(* Properties. *)

\* r is found as open, or a copy that says so is to be sent.
InSight(r) ==
  \/ doc[r].open
  \/ \E p \in Processes :
       /\ work[p].phase = "indexing" /\ work[p].request = r
       /\ \E i \in 1 .. Len(work[p].ops) : work[p].ops[i]

\* No submitted request whose time has passed stays open for ever while the index
\* shows it: not for other requests that fail in every run, nor for edits
\* and runs that get in the way of its commit (tasks.py, check_expired_requests).
OverdueExpires ==
  \A r \in Requests :
    []<>~(status[r] = "submitted" /\ r \in due /\ InSight(r))

\* Once nobody works on a request, the search that the task and the lists go by is
\* right about it if the last unit of work to end overlapped no other, whoever ran
\* it and however wrong the document was; and whatever overlapped, the index has
\* been told of the last write, since only an older revision is refused, unless a
\* process died (RecordCommitOp and RecordIndexOp of users' calls and the task).
\* An old copy of an overlapping call may still be what it shows of that revision.
SearchesRight ==
  \A r \in Requests :
    Untouched(r) =>
      /\ lone[r] => doc[r].open = IsOpen(status[r])
      /\ faults = 0 => doc[r].version = version[r]

\* Users and overlapping runs of the task never give a request two outcomes: what
\* they do together is the life cycle of one request at a time.
Lifecycle == INSTANCE RequestLifecycle

ExpiryFollowsLifecycle == Lifecycle!Spec

=============================================================================
