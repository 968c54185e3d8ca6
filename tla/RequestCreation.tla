--------------------------- MODULE RequestCreation ---------------------------
(***************************************************************************)
(* Requests created at the same time, by clients and by moderation tasks:  *)
(* the number each one takes, and the index that moderation tasks ask      *)
(* whether a user has an open request already.                             *)
(*                                                                         *)
(* A number is the value of a row that the creation inserts into a table   *)
(* of numbers.  The database draws the value from a sequence, which no     *)
(* rollback takes back; the table's key refuses a value that is there, and *)
(* makes the creation wait for a value another transaction has inserted    *)
(* and not committed.  Values may get into the table past the sequence: a  *)
(* migration writes them.  The sequence is then moved, once, to the        *)
(* highest value the creation sees, and the insert is tried again.         *)
(*                                                                         *)
(* A request is known by its number.                                       *)
(***************************************************************************)
EXTENDS Naturals, FiniteSets, FiniteSetsExt

CONSTANTS
  Workers,    \* processes: clients' calls and moderation tasks
  Subjects,   \* users whose moderation is asked for
  NoSubject,  \* the subject of any other request
  MaxNumber   \* bound: no value above it is drawn or migrated

ASSUME CreationAssumption == NoSubject \notin Subjects /\ MaxNumber \in Nat \ {0}

VARIABLES
  requests,  \* the committed requests
  numbers,   \* the committed values of the table
  sequence,  \* the last value the database drew
  found,     \* the requests that searches find as open
  work,      \* work[w]: the creation of w
  alone,     \* history: alone[w], nothing has overlapped the creation of w
  raced      \* history: the subjects two tasks overlapped on, or one crashed for

vars == <<requests, numbers, sequence, found, work, alone, raced>>

Numbers == Nat \ {0}

Request == [number: Numbers, subject: Subjects \cup {NoSubject}, open: BOOLEAN]

\* A creation draws a value, inserts it, commits with it and indexes; a value
\* that is taken is followed by a look at the table, a move of the sequence and
\* one more draw.
Work == [phase: {"draw", "insert", "look", "move", "commit", "index", "failed"},
         subject: Subjects \cup {NoSubject}, value: Nat, retry: BOOLEAN]
Idle == [phase |-> "idle"]

TypeOK ==
  /\ requests \subseteq Request
  /\ numbers \subseteq Numbers
  /\ {r.number : r \in requests} \subseteq numbers
  /\ sequence \in Nat
  /\ found \subseteq {r.number : r \in requests}
  /\ work \in [Workers -> Work \cup {Idle}]
  /\ alone \in [Workers -> BOOLEAN]
  /\ raced \subseteq Subjects

-----------------------------------------------------------------------------
(* Beginning. *)

\* Workers whose transaction has inserted a value and not ended.
Holds(w, value) == work[w].phase = "commit" /\ work[w].value = value

OpenFor(subject) == {w \in Workers : work[w] # Idle /\ work[w].subject = subject}

Begin(w, subject) ==
  LET others == {v \in Workers : work[v] # Idle} IN
  /\ work[w] = Idle
  /\ work' = [work EXCEPT ![w] = [phase |-> "draw", subject |-> subject,
                                  value |-> 0, retry |-> FALSE]]
  /\ alone' = [v \in Workers |-> IF v = w THEN others = {}
                                 ELSE alone[v] /\ work[v] = Idle]
  /\ UNCHANGED <<requests, numbers, sequence, found>>

\* create by a client
BeginCreate(w) == Begin(w, NoSubject) /\ UNCHANGED raced

\* _exists: the search for an open moderation request.
Exists(subject) ==
  \E r \in requests : r.number \in found /\ r.subject = subject

\* request_moderation; if a request is found the task ends with nothing done.
BeginModeration(w, subject) ==
  /\ ~Exists(subject)
  /\ Begin(w, subject)
  /\ raced' = IF OpenFor(subject) = {} THEN raced ELSE raced \cup {subject}

-----------------------------------------------------------------------------
(* Numbers: SequenceMixin. *)

Step(w, phase) == work' = [work EXCEPT ![w].phase = phase]

\* nextval of the sequence, as the row is inserted
Draw(w) ==
  /\ work[w].phase = "draw"
  /\ sequence < MaxNumber
  /\ sequence' = sequence + 1
  /\ work' = [work EXCEPT ![w].phase = "insert", ![w].value = sequence + 1]
  /\ UNCHANGED <<requests, numbers, found, alone, raced>>

\* Mutant of Insert: a value that is not committed yet is not waited for.
InsertAtOnce(w) ==
  /\ work[w].phase = "insert"
  /\ Step(w, IF work[w].value \notin numbers THEN "commit"
             ELSE IF work[w].retry THEN "failed" ELSE "look")
  /\ UNCHANGED <<requests, numbers, sequence, found, alone, raced>>

Insert(w) ==
  /\ work[w].phase = "insert"
  /\ \A v \in Workers : ~Holds(v, work[w].value)
  /\ Step(w, IF work[w].value \notin numbers THEN "commit"
             ELSE IF work[w].retry THEN "failed" ELSE "look")
  /\ UNCHANGED <<requests, numbers, sequence, found, alone, raced>>

\* max of the table, as the transaction sees it.  From here on value is that.
Look(w) ==
  /\ work[w].phase = "look"
  /\ work' = [work EXCEPT ![w].phase = "move", ![w].value = Max(numbers)]
  /\ UNCHANGED <<requests, numbers, sequence, found, alone, raced>>

\* Mutant of SetSequence: the second try goes on from where the sequence is.
SetSequenceNot(w) ==
  /\ work[w].phase = "move"
  /\ work' = [work EXCEPT ![w].phase = "draw", ![w].retry = TRUE]
  /\ UNCHANGED <<requests, numbers, sequence, found, alone, raced>>

\* setval: at once and for all, whatever others have drawn.
SetSequence(w) ==
  /\ work[w].phase = "move"
  /\ sequence' = work[w].value
  /\ work' = [work EXCEPT ![w].phase = "draw", ![w].retry = TRUE]
  /\ UNCHANGED <<requests, numbers, found, alone, raced>>

-----------------------------------------------------------------------------
(* The end of a creation. *)

\* Mutant of Commit: the row of the number is left behind.
CommitRequestOnly(w) ==
  /\ work[w].phase = "commit"
  /\ requests' = requests \cup {[number |-> work[w].value, open |-> TRUE,
                                 subject |-> work[w].subject]}
  /\ Step(w, "index")
  /\ UNCHANGED <<numbers, sequence, found, alone, raced>>

\* Create and submit are one unit of work.
Commit(w) ==
  /\ work[w].phase = "commit"
  /\ numbers' = numbers \cup {work[w].value}
  /\ requests' = requests \cup {[number |-> work[w].value, open |-> TRUE,
                                 subject |-> work[w].subject]}
  /\ Step(w, "index")
  /\ UNCHANGED <<sequence, found, alone, raced>>

End(w) == work' = [work EXCEPT ![w] = Idle]

\* Mutant of Index: the call does not wait until searches find its request.
IndexUnrefreshed(w) ==
  /\ work[w].phase = "index"
  /\ End(w)
  /\ UNCHANGED <<requests, numbers, sequence, found, alone, raced>>

\* The document is indexed and, by the IndexRefreshOp of submit, found.
Index(w) ==
  /\ work[w].phase = "index"
  /\ found' = found \cup {r.number : r \in {q \in requests :
                                              q.open /\ q.number = work[w].value}}
  /\ End(w)
  /\ UNCHANGED <<requests, numbers, sequence, alone, raced>>

\* The process or the call ends early: before the commit nothing is kept, after
\* it the request is not indexed.
Abort(w) ==
  /\ work[w] # Idle
  /\ raced' = IF work[w].phase = "index" THEN raced \cup ({work[w].subject} \cap Subjects)
              ELSE raced
  /\ End(w)
  /\ UNCHANGED <<requests, numbers, sequence, found, alone>>

-----------------------------------------------------------------------------
(* What others do. *)

\* accept, decline or cancel
Close(r) ==
  /\ r \in requests
  /\ r.open
  /\ requests' = (requests \ {r}) \cup {[r EXCEPT !.open = FALSE]}
  /\ UNCHANGED <<numbers, sequence, found, work, alone, raced>>

\* Its call has indexed it.
Unlist(r) ==
  /\ r \in requests
  /\ ~r.open /\ r.number \in found
  /\ found' = found \ {r.number}
  /\ UNCHANGED <<requests, numbers, sequence, work, alone, raced>>

\* Rows written without the model: the sequence is not moved.
Migrate(value) ==
  /\ value \notin numbers
  /\ \A w \in Workers : ~Holds(w, value)
  /\ numbers' = numbers \cup {value}
  /\ alone' = [w \in Workers |-> alone[w] /\ work[w] = Idle]
  /\ UNCHANGED <<requests, sequence, found, work, raced>>

\* SequenceMixin.insert: written with the model, which moves the sequence to the
\* highest value.
InsertValue(value) ==
  /\ value \notin numbers
  /\ \A w \in Workers : ~Holds(w, value)
  /\ numbers' = numbers \cup {value}
  /\ sequence' = Max(numbers \cup {value})
  /\ alone' = [w \in Workers |-> alone[w] /\ work[w] = Idle]
  /\ UNCHANGED <<requests, found, work, raced>>

Init ==
  /\ requests = {} /\ numbers = {} /\ sequence = 0 /\ found = {}
  /\ work = [w \in Workers |-> Idle]
  /\ alone = [w \in Workers |-> TRUE]
  /\ raced = {}

Next ==
  \/ \E w \in Workers :
       \/ BeginCreate(w) \/ Draw(w) \/ Insert(w) \/ Look(w) \/ SetSequence(w)
       \/ Commit(w) \/ Index(w) \/ Abort(w)
       \/ \E subject \in Subjects : BeginModeration(w, subject)
  \/ \E r \in requests : Close(r) \/ Unlist(r)
  \/ \E value \in 1 .. MaxNumber : Migrate(value) \/ InsertValue(value)

Spec == Init /\ [][Next]_vars

-----------------------------------------------------------------------------
(* Properties. *)

\* Whatever creations overlap, roll back and move the sequence back under each
\* other, no two requests get one number, not even two that are not committed
\* (records/models.py, SequenceMixin.next).
NumbersDistinct ==
  /\ \A q, r \in requests : q.number = r.number => q = r
  /\ \A v, w \in Workers :
       work[v].phase = "commit" /\ Holds(w, work[v].value) => v = w
  /\ \A w \in Workers, r \in requests : ~Holds(w, r.number)

\* A creation that nothing overlaps gets its number, however far the values that
\* a migration wrote are ahead of the sequence: one retry is enough (next() tries
\* again once, after _set_sequence).
LoneCreationNumbered == \A w \in Workers : work[w].phase = "failed" => ~alone[w]

\* A user has one open moderation request at most, as long as no two tasks for
\* the user overlap and none dies between its commit and its index operations: a
\* task sees in the index what the task before it committed
\* (UserModerationRequestService._exists, IndexRefreshOp of execute_action).
ModeratedOnce ==
  \A subject \in Subjects \ raced :
    Cardinality({r \in requests : r.subject = subject /\ r.open}) <= 1

=============================================================================
