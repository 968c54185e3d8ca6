------------------------ MODULE RequestsServiceProofs ------------------------
(***************************************************************************)
(* Proofs about RequestsService, for every set of requests, workers and    *)
(* users.                                                                  *)
(*                                                                         *)
(* The safety invariants are not inductive alone: a commit keeps them      *)
(* because of what the open unit of work read and decided, which is what   *)
(* OpenWorkSound records.  One lemma shows that a unit of work that begins *)
(* is sound, one lemma per operation that the operation begins such a      *)
(* unit, and one that a commit keeps the whole invariant: it bumps the     *)
(* version, so every other unit of work on that row is refused later.      *)
(*                                                                         *)
(* Whether an open unit of work logs a lock, or changes the reviewers, was *)
(* decided on the row it read as well.  Decided states what, and no other  *)
(* unit of work changes it: the commit is one from that row.               *)
(***************************************************************************)
EXTENDS RequestsService, SequenceTheorems, TLAPS

IInv ==
  /\ TypeOK
  /\ RowsCreated
  /\ OpenWorkSound
  /\ OutcomeLoggedOnce
  /\ DecidedByEntitled

-----------------------------------------------------------------------------
(* Logs and the entries made of them. *)

\* The entries of a unit of work: as many as its log, each of the kind its log
\* says and by its caller.
LEMMA EntriesType ==
  ASSUME NEW t \in Tx
  PROVE  /\ Entries(t) \in Seq(Entry)
         /\ Len(Entries(t)) = Len(t.log)
         /\ \A i \in 1..Len(t.log) :
              Entries(t)[i].kind = t.log[i] /\ Entries(t)[i].by = t.id
<1>1. t.log \in Seq(Kinds) /\ t.id \in Identities
  BY DEF Tx
<1>2. /\ Len(t.log) \in Nat /\ DOMAIN t.log = 1..Len(t.log)
      /\ \A i \in 1..Len(t.log) : t.log[i] \in Kinds
  BY <1>1, LenProperties, ElementOfSeq
<1>3. Entries(t) = [i \in 1..Len(t.log) |-> [kind |-> t.log[i], by |-> t.id]]
  BY <1>2 DEF Entries
<1>4. Entries(t) \in [1..Len(t.log) -> Entry]
  BY <1>1, <1>2, <1>3 DEF Entry
<1>5. Entries(t) \in Seq(Entry)
  BY <1>2, <1>4, SeqDef
<1>6. Len(Entries(t)) = Len(t.log)
  BY <1>2, <1>3, <1>5, LenProperties
<1>. QED  BY <1>3, <1>5, <1>6

\* What a timeline holds after a commit: the old entries where they were, then
\* the entries of the unit of work.
LEMMA Appended ==
  ASSUME NEW t \in Tx, NEW s \in Seq(Entry)
  PROVE  /\ s \o Entries(t) \in Seq(Entry)
         /\ DOMAIN (s \o Entries(t)) = 1..(Len(s) + Len(t.log))
         /\ DOMAIN s = 1..Len(s)
         /\ Len(s) \in Nat /\ Len(t.log) \in Nat
         /\ \A i \in 1..Len(s) : (s \o Entries(t))[i] = s[i]
         /\ \A i \in 1..Len(t.log) :
              /\ (s \o Entries(t))[Len(s) + i].kind = t.log[i]
              /\ (s \o Entries(t))[Len(s) + i].by = t.id
<1>1. Len(s) \in Nat /\ DOMAIN s = 1..Len(s)
  BY LenProperties
<1>2. Len(t.log) \in Nat
  BY LenProperties DEF Tx
<1>3. /\ s \o Entries(t) \in Seq(Entry)
      /\ Len(s \o Entries(t)) = Len(s) + Len(t.log)
      /\ \A i \in 1..(Len(s) + Len(t.log)) :
           (s \o Entries(t))[i] = IF i <= Len(s) THEN s[i] ELSE Entries(t)[i - Len(s)]
  <2>1. Entries(t) \in Seq(Entry) /\ Len(Entries(t)) = Len(t.log)
    BY EntriesType
  <2>2. \A u \in Seq(Entry) :
           /\ s \o u \in Seq(Entry)
           /\ Len(s \o u) = Len(s) + Len(u)
           /\ \A i \in 1..(Len(s) + Len(u)) :
                (s \o u)[i] = IF i <= Len(s) THEN s[i] ELSE u[i - Len(s)]
    BY ConcatProperties
  <2>. HIDE DEF Entries
  <2>. QED  BY <2>1, <2>2, Zenon
<1>4. DOMAIN (s \o Entries(t)) = 1..(Len(s) + Len(t.log))
  BY <1>3, LenProperties
<1>5. \A i \in 1..Len(s) : (s \o Entries(t))[i] = s[i]
  BY <1>1, <1>2, <1>3
<1>6. ASSUME NEW i \in 1..Len(t.log)
      PROVE  (s \o Entries(t))[Len(s) + i] = Entries(t)[i]
  <2>1. Len(s) + i \in 1..(Len(s) + Len(t.log)) /\ ~(Len(s) + i <= Len(s))
        /\ (Len(s) + i) - Len(s) = i
    BY <1>1, <1>2
  <2>. QED  BY <1>3, <2>1
<1>. QED  BY <1>1, <1>2, <1>3, <1>4, <1>5, <1>6, EntriesType

\* A log that opens with its outcome holds no other.
LEMMA QuietTail ==
  ASSUME NEW log \in Seq(Kinds), Len(log) > 0, Quiet(Tail(log)),
         NEW i \in 1..Len(log), log[i] \in Outcomes
  PROVE  i = 1
<1>1. log # << >>
  BY EmptySeq
<1>2. Len(log) \in Nat
  BY LenProperties
<1>3. /\ Tail(log) \in Seq(Kinds) /\ Len(Tail(log)) = Len(log) - 1
      /\ \A j \in 1..Len(Tail(log)) : Tail(log)[j] = log[j + 1]
  BY <1>1, HeadTailProperties
<1>4. DOMAIN Tail(log) = 1..(Len(log) - 1)
  BY <1>3, LenProperties
<1>5. ASSUME i # 1 PROVE FALSE
  <2>1. i - 1 \in 1..(Len(log) - 1) /\ (i - 1) + 1 = i
    BY <1>2, <1>5
  <2>2. Tail(log)[i - 1] = log[i]
    BY <1>3, <2>1
  <2>. QED  BY <1>4, <2>1, <2>2 DEF Quiet
<1>. QED  BY <1>5

-----------------------------------------------------------------------------
(* Rows. *)

\* A row that a call may read has been created, has a version and shows its
\* status.
LEMMA LiveRow ==
  ASSUME IInv, NEW r \in Requests, Live(r)
  PROVE  /\ row[r] \in Row
         /\ row[r].status # NoStatus /\ ~row[r].removed
         /\ row[r].version \in Nat /\ row[r].version > 0
  BY DEF IInv, TypeOK, Row, RowsCreated, Live

\* What an update makes of a row is a row, with the same status and creator,
\* and with the same receiver unless it is a draft.
LEMMA EditedRow ==
  ASSUME ServiceAssumption, NEW request \in Row,
         NEW receiver \in Receivers, NEW locked \in BOOLEAN
  PROVE  LET edited == WithData(request, receiver, locked) IN
         /\ edited \in Row
         /\ edited.status = request.status
         /\ edited.removed = request.removed
         /\ edited.creator = request.creator
         /\ request.status = "created" \/ edited.receiver = request.receiver
<1>1. receiver \in Users
  BY DEF ServiceAssumption
<1>2. CASE request.status = "created" /\ LockingEnabled
  BY <1>1, <1>2 DEF WithData, Row
<1>3. CASE request.status = "created" /\ ~LockingEnabled
  BY <1>1, <1>3 DEF WithData, Row
<1>4. CASE request.status # "created" /\ LockingEnabled
  BY <1>4 DEF WithData, Row
<1>5. CASE request.status # "created" /\ ~LockingEnabled
  BY <1>5 DEF WithData, Row
<1>. QED  BY <1>2, <1>3, <1>4, <1>5

-----------------------------------------------------------------------------
(* Units of work that begin. *)

\* A worker that reads a live row and opens a unit of work that is a legal
\* step from it keeps the invariant.
LEMMA BeginKeeps ==
  ASSUME IInv,
         NEW w \in Workers, NEW r \in Requests, NEW id \in Identities,
         NEW new \in Row, NEW log \in Seq(Kinds), NEW writes \in BOOLEAN,
         GetRecord(w, r), Begin(w, r, id, new, log, writes),
         new.status # NoStatus, new.creator = row[r].creator,
         LET t == [open |-> TRUE, id |-> id, req |-> r, snap |-> row[r],
                   new |-> new, log |-> log, writes |-> writes]
         IN  IF writes THEN GivesNoOutcome(t) \/ GivesOutcome(t) ELSE Quiet(log)
  PROVE  IInv'
<1> DEFINE t == [open |-> TRUE, id |-> id, req |-> r, snap |-> row[r],
                 new |-> new, log |-> log, writes |-> writes]
<1>1. /\ row[r] \in Row /\ row[r].status # NoStatus /\ ~row[r].removed
      /\ row[r].version \in Nat /\ row[r].version > 0
  BY LiveRow DEF GetRecord
<1>2. tx' = [tx EXCEPT ![w] = t] /\ UNCHANGED <<row, timeline>>
  BY DEF Begin
<1>3. t \in Tx
  BY <1>1 DEF Tx
<1>4. TypeOK'
  BY <1>2, <1>3 DEF IInv, TypeOK
<1>5. RowsCreated' /\ OutcomeLoggedOnce' /\ DecidedByEntitled'
  BY <1>2 DEF IInv, RowsCreated, OutcomeLoggedOnce, DecidedByEntitled, ShownStatus
<1>6. OpenWorkSound'
  <2>1. SoundWork(t)'
    BY <1>1, <1>2 DEF SoundWork, VersionMatches, GivesNoOutcome, GivesOutcome
  <2>2. ASSUME NEW v \in Workers, v # w, tx'[v] # NoTx
        PROVE  SoundWork(tx[v])'
    <3>1. tx'[v] = tx[v]
      BY <1>2, <2>2 DEF IInv, TypeOK
    <3>2. SoundWork(tx[v])
      BY <2>2, <3>1 DEF IInv, OpenWorkSound
    <3>. QED  BY <1>2, <3>1, <3>2 DEF SoundWork, VersionMatches
  <2>3. tx'[w] = t'
    BY <1>2 DEF IInv, TypeOK
  <2>. HIDE DEF t
  <2>4. SoundWork(tx[w])'
    BY <2>1, <2>3 DEF SoundWork, VersionMatches, GivesNoOutcome, GivesOutcome
  <2>. QED  BY <2>2, <2>4 DEF OpenWorkSound
<1>. QED  BY <1>4, <1>5, <1>6 DEF IInv

\* The logs of the operations.
LEMMA LogTypes ==
  /\ <<>> \in Seq(Kinds) /\ Quiet(<<>>)
  /\ \A k \in Kinds :
       /\ <<k>> \in Seq(Kinds) /\ Len(<<k>>) = 1 /\ <<k>>[1] = k
       /\ Tail(<<k>>) = <<>>
       /\ k \notin Outcomes => Quiet(<<k>>)
  /\ \A k \in Kinds : <<k>> \o <<>> = <<k>>
  /\ \A k \in Kinds :
       /\ <<k>> \o <<"comment">> \in Seq(Kinds)
       /\ Len(<<k>> \o <<"comment">>) = 2
       /\ (<<k>> \o <<"comment">>)[1] = k
       /\ Quiet(Tail(<<k>> \o <<"comment">>))
<1>1. <<>> \in Seq(Kinds) /\ Quiet(<<>>)
  BY DEF Quiet
<1>2. ASSUME NEW k \in Kinds
      PROVE  /\ <<k>> \in Seq(Kinds) /\ Len(<<k>>) = 1 /\ <<k>>[1] = k
             /\ Tail(<<k>>) = <<>>
             /\ k \notin Outcomes => Quiet(<<k>>)
  <2>1. <<k>> \in Seq(Kinds) /\ Len(<<k>>) = 1 /\ <<k>>[1] = k
    OBVIOUS
  <2>2. Tail(<<k>>) = <<>>
    OBVIOUS
  <2>3. \A i \in DOMAIN <<k>> : <<k>>[i] = k
    OBVIOUS
  <2>. QED  BY <2>1, <2>2, <2>3 DEF Quiet
<1>3. ASSUME NEW k \in Kinds  PROVE  <<k>> \o <<>> = <<k>>
  BY <1>2, ConcatEmptySeq
<1>4. ASSUME NEW k \in Kinds
      PROVE  /\ <<k>> \o <<"comment">> \in Seq(Kinds)
             /\ Len(<<k>> \o <<"comment">>) = 2
             /\ (<<k>> \o <<"comment">>)[1] = k
             /\ Quiet(Tail(<<k>> \o <<"comment">>))
  <2>2. "comment" \in Kinds /\ "comment" \notin Outcomes
    BY DEF Kinds, Outcomes, ClosedStatuses
  <2>1. <<k>> \o <<"comment">> = <<k, "comment">>
    <3>1. /\ <<k>> \o <<"comment">> \in Seq(Kinds)
          /\ Len(<<k>> \o <<"comment">>) = 2
          /\ \A i \in 1..2 : (<<k>> \o <<"comment">>)[i] = <<k, "comment">>[i]
      <4>1. <<k>> \in Seq(Kinds) /\ <<"comment">> \in Seq(Kinds)
            /\ Len(<<k>>) = 1 /\ Len(<<"comment">>) = 1
        BY <2>2
      <4>. QED  BY <4>1, ConcatProperties
    <3>2. <<k, "comment">> \in Seq(Kinds) /\ Len(<<k, "comment">>) = 2
      BY <2>2
    <3>. HIDE <2>2
    <3>. QED  BY <3>1, <3>2, SeqEqual
  <2>3. Tail(<<k, "comment">>) = <<"comment">>
    OBVIOUS
  <2>4. Quiet(<<"comment">>)
    BY <1>2, <2>2
  <2>5. <<k, "comment">> \in Seq(Kinds) /\ Len(<<k, "comment">>) = 2
        /\ <<k, "comment">>[1] = k
    BY <2>2
  <2>. QED  BY <2>1, <2>3, <2>4, <2>5
<1>. QED  BY <1>1, <1>2, <1>3, <1>4

\* An update without reviewers keeps the invariant.
LEMMA UpdateKeeps ==
  ASSUME IInv, ServiceAssumption,
         NEW w \in Workers, NEW r \in Requests, NEW id \in Identities,
         NEW receiver \in Receivers, NEW locked \in BOOLEAN,
         Update(w, r, id, receiver, locked)
  PROVE  IInv'
<1> DEFINE edited == WithData(row[r], receiver, locked)
<1>1. GetRecord(w, r) /\ Begin(w, r, id, edited, <<>>, TRUE)
  BY DEF Update
<1>2. row[r] \in Row /\ row[r].status # NoStatus /\ ~row[r].removed
  BY <1>1, LiveRow DEF GetRecord
<1>3. /\ edited \in Row /\ edited.status = row[r].status /\ ~edited.removed
      /\ edited.creator = row[r].creator
      /\ row[r].status = "created" \/ edited.receiver = row[r].receiver
  BY <1>2, EditedRow
<1>. HIDE DEF edited
<1>. QED  BY <1>1, <1>2, <1>3, LogTypes, BeginKeeps DEF GivesNoOutcome

\* An update with reviewers keeps the invariant.
LEMMA UpdateReviewersKeeps ==
  ASSUME IInv, ServiceAssumption,
         NEW w \in Workers, NEW r \in Requests, NEW id \in Identities,
         NEW receiver \in Receivers, NEW locked \in BOOLEAN,
         NEW reviewers \in ReviewerSets,
         UpdateReviewers(w, r, id, receiver, locked, reviewers)
  PROVE  IInv'
<1> DEFINE edited == WithData(row[r], receiver, locked)
           new    == [edited EXCEPT !.reviewers = reviewers, !.listed = TRUE]
           log    == ReviewersLog(row[r], reviewers)
<1>1. GetRecord(w, r) /\ Begin(w, r, id, new, log, TRUE)
  BY DEF UpdateReviewers
<1>2. row[r] \in Row /\ row[r].status # NoStatus /\ ~row[r].removed
  BY <1>1, LiveRow DEF GetRecord
<1>3. /\ edited \in Row /\ edited.status = row[r].status /\ ~edited.removed
      /\ edited.creator = row[r].creator
      /\ row[r].status = "created" \/ edited.receiver = row[r].receiver
  BY <1>2, EditedRow
<1>4. /\ new \in Row /\ new.status = row[r].status /\ ~new.removed
      /\ new.creator = row[r].creator
      /\ row[r].status = "created" \/ new.receiver = row[r].receiver
  <2>. HIDE DEF edited
  <2>1. reviewers \in SUBSET Users
    BY DEF ServiceAssumption
  <2>. QED  BY <1>3, <2>1 DEF Row
<1>5. log \in Seq(Kinds) /\ Quiet(log)
  BY LogTypes DEF ReviewersLog, Kinds, Outcomes, ClosedStatuses
<1>. HIDE DEF new, log
<1>. QED  BY <1>1, <1>2, <1>4, <1>5, BeginKeeps DEF GivesNoOutcome

\* An action keeps the invariant: the status it writes is one its action leads
\* to, and if it is an outcome the log opens with it and its caller is entitled
\* to it.
LEMMA ExecuteActionKeeps ==
  ASSUME IInv, PolicyAssumption,
         NEW w \in Workers, NEW r \in Requests, NEW id \in Identities,
         NEW action \in Actions, NEW comment \in BOOLEAN,
         ExecuteAction(w, r, id, action, comment)
  PROVE  IInv'
<1> DEFINE new == [row[r] EXCEPT !.status = StatusTo[action]]
           log == ActionLog(action) \o (IF comment THEN <<"comment">> ELSE <<>>)
<1>1. /\ GetRecord(w, r) /\ Begin(w, r, id, new, log, TRUE)
      /\ id \in CanAction(action, row[r])
      /\ CanExecute(action, row[r])
  BY DEF ExecuteAction
<1>2. row[r] \in Row /\ row[r].status # NoStatus /\ ~row[r].removed
  BY <1>1, LiveRow DEF GetRecord
<1>3. StatusTo[action] \in Statuses /\ StatusTo[action] # NoStatus
  BY DEF Actions, StatusTo, Statuses, ClosedStatuses, NoStatus
<1>4. /\ new \in Row /\ new.status = StatusTo[action] /\ new.status # NoStatus
      /\ ~new.removed
      /\ new.creator = row[r].creator /\ new.receiver = row[r].receiver
  BY <1>2, <1>3 DEF Row
<1>5. CASE action = "submit"
  <2>1. StatusTo[action] = "submitted" /\ row[r].status = "created"
    BY <1>1, <1>5 DEF StatusTo, Actions, CanExecute, StatusFrom
  <2>2. ActionLog(action) = <<>>
    BY <1>5 DEF ActionLog, LogsEvent
  <2>3. log = IF comment THEN <<"comment">> ELSE <<>>
    <3>1. "comment" \in Kinds
      BY DEF Kinds
    <3>2. <<>> \o <<"comment">> = <<"comment">> /\ <<>> \o <<>> = <<>>
      BY <3>1, LogTypes, ConcatEmptySeq
    <3>. QED  BY <2>2, <3>2
  <2>4. log \in Seq(Kinds) /\ Quiet(log)
    BY <2>3, LogTypes DEF Kinds, Outcomes, ClosedStatuses
  <2>. HIDE DEF new, log
  <2>. QED  BY <1>1, <1>4, <2>1, <2>4, BeginKeeps DEF GivesNoOutcome
<1>6. CASE action # "submit"
  <2>1. StatusTo[action] \in Outcomes /\ StatusTo[action] \in Kinds
    BY <1>6 DEF StatusTo, Actions, Outcomes, Kinds, ClosedStatuses
  <2>2. ActionLog(action) = <<StatusTo[action]>>
    BY <1>6 DEF ActionLog, LogsEvent
  <2>3. /\ log \in Seq(Kinds) /\ Len(log) > 0
        /\ log[1] = StatusTo[action] /\ Quiet(Tail(log))
    <3>1. CASE comment
      BY <2>1, <2>2, <3>1, LogTypes
    <3>2. CASE ~comment
      BY <2>1, <2>2, <3>2, LogTypes
    <3>. QED  BY <3>1, <3>2
  <2>4. \/ row[r].status = "created" /\ StatusTo[action] = "deleted"
        \/ row[r].status = "submitted" /\ StatusTo[action] \in ClosedStatuses
    BY <1>1, <1>6 DEF StatusTo, Actions, CanExecute, StatusFrom, ClosedStatuses
  <2>5. id \in Entitled(new, StatusTo[action])
    <3>. HIDE DEF new
    <3>1. CASE action = "delete"
      BY <1>1, <1>4, <3>1 DEF CanAction, CanActionDelete, Entitled, Granted, Creator,
         Status, StatusTo, Actions
    <3>2. CASE action \in {"accept", "decline"}
      BY <1>1, <1>4, <3>2 DEF CanAction, CanActionAccept, CanActionDecline, Entitled,
         Granted, Receiver, StatusTo, Actions
    <3>3. CASE action = "cancel"
      BY <1>1, <1>4, <3>3 DEF CanAction, CanActionCancel, Entitled, Granted, Creator,
         StatusTo, Actions
    <3>4. CASE action = "expire"
      BY <1>1, <1>4, <3>4 DEF CanAction, CanActionExpire, Entitled, StatusTo, Actions
    <3>. QED  BY <1>6, <3>1, <3>2, <3>3, <3>4 DEF Actions
  <2>6. Shown(new) = StatusTo[action]
    BY <1>4 DEF Shown
  <2>. HIDE DEF new, log
  <2>. QED  BY <1>1, <1>4, <2>3, <2>4, <2>5, <2>6, BeginKeeps DEF GivesOutcome
<1>. QED  BY <1>5, <1>6

\* A deletion keeps the invariant: the one outcome its log opens with is the
\* status that a soft-deleted row shows.
LEMMA DeleteKeeps ==
  ASSUME IInv,
         NEW w \in Workers, NEW r \in Requests, NEW id \in Identities,
         Delete(w, r, id)
  PROVE  IInv'
<1> DEFINE new == [row[r] EXCEPT !.removed = TRUE]
           log == ActionLog("delete")
<1>1. /\ GetRecord(w, r) /\ Begin(w, r, id, new, log, TRUE)
      /\ id \in CanActionDelete(row[r])
      /\ CanExecute("delete", row[r])
  BY DEF Delete
<1>2. row[r] \in Row /\ row[r].status # NoStatus /\ ~row[r].removed
  BY <1>1, LiveRow DEF GetRecord
<1>3. /\ new \in Row /\ new.removed /\ new.status = row[r].status
      /\ new.creator = row[r].creator /\ new.receiver = row[r].receiver
  BY <1>2 DEF Row
<1>4. row[r].status = "created"
  BY <1>1 DEF CanExecute, StatusFrom
<1>5. log = <<"deleted">>
  BY DEF ActionLog, LogsEvent, StatusTo, Actions
<1>6. /\ log \in Seq(Kinds) /\ Len(log) > 0 /\ log[1] = "deleted"
      /\ Quiet(Tail(log))
  <2>1. "deleted" \in Kinds
    BY DEF Kinds, Outcomes
  <2>. HIDE DEF log
  <2>. QED  BY <1>5, <2>1, LogTypes
<1>7. Shown(new) = "deleted"
  BY <1>3 DEF Shown
<1>. HIDE DEF new, log
<1>8. id \in Entitled(new, "deleted")
  BY <1>1, <1>3 DEF CanActionDelete, Entitled, Granted, Creator, Status
<1>. QED  BY <1>1, <1>2, <1>3, <1>4, <1>6, <1>7, <1>8, BeginKeeps DEF GivesOutcome

\* Locking and unlocking keep the invariant.
LEMMA SetLockKeeps ==
  ASSUME IInv,
         NEW w \in Workers, NEW r \in Requests, NEW id \in Identities,
         NEW locked \in BOOLEAN,
         SetLock(w, r, id, locked)
  PROVE  IInv'
<1> DEFINE new == [row[r] EXCEPT !.locked = locked]
           log == IF locked THEN <<"locked">> ELSE <<"unlocked">>
<1>1. GetRecord(w, r) /\ Begin(w, r, id, new, log, TRUE)
  BY DEF SetLock
<1>2. row[r] \in Row /\ row[r].status # NoStatus /\ ~row[r].removed
  BY <1>1, LiveRow DEF GetRecord
<1>3. /\ new \in Row /\ new.status = row[r].status /\ ~new.removed
      /\ new.creator = row[r].creator /\ new.receiver = row[r].receiver
  BY <1>2 DEF Row
<1>4. log \in Seq(Kinds) /\ Quiet(log)
  BY LogTypes DEF Kinds, Outcomes, ClosedStatuses
<1>. HIDE DEF new, log
<1>. QED  BY <1>1, <1>2, <1>3, <1>4, BeginKeeps DEF GivesNoOutcome

\* A comment keeps the invariant.
LEMMA CommentKeeps ==
  ASSUME IInv,
         NEW w \in Workers, NEW r \in Requests, NEW id \in Identities,
         Comment(w, r, id)
  PROVE  IInv'
<1>1. GetRecord(w, r) /\ Begin(w, r, id, row[r], <<"comment">>, FALSE)
  BY DEF Comment
<1>2. row[r] \in Row /\ row[r].status # NoStatus
  BY <1>1, LiveRow DEF GetRecord
<1>3. <<"comment">> \in Seq(Kinds) /\ Quiet(<<"comment">>)
  BY LogTypes DEF Kinds, Outcomes, ClosedStatuses
<1>. QED  BY <1>1, <1>2, <1>3, BeginKeeps

-----------------------------------------------------------------------------
(* A request is created; a unit of work ends. *)

\* A creation keeps the invariant: no unit of work has read the new row, and
\* its timeline holds no outcome.
LEMMA CreateKeeps ==
  ASSUME IInv, ServiceAssumption,
         NEW r \in Requests, NEW id \in Identities, NEW creator \in Creators,
         NEW receiver \in Receivers, NEW reviewers \in ReviewerSets \cup {{}},
         NEW locked \in BOOLEAN,
         Create(r, id, creator, receiver, reviewers, locked)
  PROVE  IInv'
<1>1. PICK status \in {"created", "submitted"}, listed \in BOOLEAN :
        row' = [row EXCEPT ![r] =
                  [status |-> status, creator |-> creator,
                   receiver |-> receiver, reviewers |-> reviewers, listed |-> listed,
                   locked |-> locked, version |-> 1, removed |-> FALSE]]
  BY DEF Create
<1>2. UNCHANGED <<timeline, tx>> /\ row[r].status = NoStatus
  BY DEF Create
<1> DEFINE new == [status |-> status, creator |-> creator,
                   receiver |-> receiver, reviewers |-> reviewers, listed |-> listed,
                   locked |-> locked, version |-> 1, removed |-> FALSE]
<1>3. new \in Row
  BY DEF Row, ServiceAssumption, Statuses
<1>4. /\ row'[r] = new
      /\ \A q \in Requests : q # r => row'[q] = row[q]
  BY <1>1 DEF IInv, TypeOK
<1>5. row[r].version = 0 /\ ~row[r].removed
  BY <1>2 DEF IInv, RowsCreated
<1>6. TypeOK'
  BY <1>1, <1>2, <1>3 DEF IInv, TypeOK
<1>7. RowsCreated'
  BY <1>3, <1>4 DEF IInv, RowsCreated, NoStatus
<1>8. \A i \in DOMAIN timeline[r] : timeline[r][i].kind \notin Outcomes
  BY <1>2, <1>5 DEF IInv, OutcomeLoggedOnce, ShownStatus, Shown, Outcomes,
     ClosedStatuses, NoStatus
<1>9. OutcomeLoggedOnce'
  <2>1. ShownStatus(r)' \notin Outcomes
    BY <1>4 DEF ShownStatus, Shown, Outcomes, ClosedStatuses
  <2>2. \A q \in Requests : q # r => ShownStatus(q)' = ShownStatus(q)
    BY <1>4 DEF ShownStatus
  <2>. QED  BY <1>2, <1>8, <2>1, <2>2 DEF IInv, OutcomeLoggedOnce
<1>10. DecidedByEntitled'
  BY <1>2, <1>4, <1>8 DEF IInv, DecidedByEntitled
<1>11. OpenWorkSound'
  <2>1. ASSUME NEW w \in Workers, tx[w] # NoTx
        PROVE  SoundWork(tx[w])'
    <3>1. SoundWork(tx[w]) /\ tx[w] \in Tx
      BY <2>1 DEF IInv, OpenWorkSound, TypeOK
    <3>2. tx[w].req # r
      <4>1. row[tx[w].req].version # 0
        BY <3>1 DEF SoundWork, IInv, TypeOK, Tx, Row
      <4>. QED  BY <1>5, <4>1
    <3>3. row'[tx[w].req] = row[tx[w].req]
      BY <1>4, <3>1, <3>2 DEF Tx
    <3>. QED  BY <1>2, <3>1, <3>3 DEF SoundWork, VersionMatches
  <2>. QED  BY <1>2, <2>1 DEF OpenWorkSound
<1>. QED  BY <1>6, <1>7, <1>9, <1>10, <1>11 DEF IInv

\* A rollback keeps the invariant.
LEMMA RollbackKeeps ==
  ASSUME IInv, NEW w \in Workers, Rollback(w)
  PROVE  IInv'
<1>1. tx' = [tx EXCEPT ![w] = NoTx] /\ UNCHANGED <<row, timeline>>
  BY DEF Rollback
<1>2. TypeOK'
  BY <1>1 DEF IInv, TypeOK
<1>3. RowsCreated' /\ OutcomeLoggedOnce' /\ DecidedByEntitled'
  BY <1>1 DEF IInv, RowsCreated, OutcomeLoggedOnce, DecidedByEntitled, ShownStatus
<1>4. OpenWorkSound'
  <2>1. ASSUME NEW v \in Workers, tx'[v] # NoTx
        PROVE  SoundWork(tx[v])'
    <3>1. tx'[v] = tx[v]
      BY <1>1, <2>1 DEF IInv, TypeOK
    <3>2. SoundWork(tx[v])
      BY <2>1, <3>1 DEF IInv, OpenWorkSound
    <3>. QED  BY <1>1, <3>1, <3>2 DEF SoundWork, VersionMatches
  <2>. QED  BY <2>1 DEF OpenWorkSound
<1>. QED  BY <1>2, <1>3, <1>4 DEF IInv

\* What a commit does to the rows and to the timeline of its request.
LEMMA CommitEffect ==
  ASSUME IInv, NEW w \in Workers, Commit(w)
  PROVE  /\ tx[w] \in Tx /\ SoundWork(tx[w])
         /\ tx' = [tx EXCEPT ![w] = NoTx]
         /\ tx[w].req \in Requests
         /\ timeline' = [timeline EXCEPT ![tx[w].req] = @ \o Entries(tx[w])]
         /\ ~tx[w].writes => row' = row
         /\ tx[w].writes =>
              /\ row[tx[w].req] = tx[w].snap
              /\ row' = [row EXCEPT ![tx[w].req] =
                           [tx[w].new EXCEPT !.version = tx[w].snap.version + 1]]
<1>1. tx[w] # NoTx
  BY DEF Commit
<1>2. tx[w] \in Tx /\ SoundWork(tx[w])
  BY <1>1 DEF IInv, TypeOK, OpenWorkSound
<1>3. tx[w].writes => row[tx[w].req] = tx[w].snap
  BY <1>2 DEF Commit, SoundWork
<1>. QED  BY <1>2, <1>3 DEF Commit, Tx

\* A commit shows a status the request had, or takes one step of its life.
LEMMA CommitStatus ==
  ASSUME IInv, NEW w \in Workers, Commit(w), tx[w].writes
  PROVE  LET t == tx[w] IN
         /\ row'[t.req] \in Row
         /\ row'[t.req].version = row[t.req].version + 1
         /\ row'[t.req].status = t.new.status
         /\ row'[t.req].status # NoStatus
         /\ row'[t.req].creator = row[t.req].creator
         /\ Shown(row'[t.req]) = Shown(t.new)
         /\ Shown(row[t.req]) = t.snap.status
         /\ \A r \in Requests : r # t.req => row'[r] = row[r]
<1> DEFINE t == tx[w]
           new == [t.new EXCEPT !.version = t.snap.version + 1]
<1>1. /\ t \in Tx /\ SoundWork(t)
      /\ row[t.req] = t.snap /\ row' = [row EXCEPT ![t.req] = new]
  BY CommitEffect
<1>2. /\ t.new \in Row /\ t.snap \in Row /\ t.req \in Requests
  BY <1>1 DEF Tx
<1>3. /\ new \in Row /\ new.version = t.snap.version + 1
      /\ new.status = t.new.status /\ new.removed = t.new.removed
      /\ new.creator = t.new.creator
  BY <1>2 DEF Row
<1>4. row'[t.req] = new
  BY <1>1, <1>2 DEF IInv, TypeOK
<1>5. \A r \in Requests : r # t.req => row'[r] = row[r]
  BY <1>1 DEF IInv, TypeOK
<1>6. /\ t.snap.status # NoStatus /\ ~t.snap.removed
      /\ t.new.status # NoStatus /\ t.new.creator = t.snap.creator
  BY <1>1 DEF SoundWork
<1>7. Shown(new) = Shown(t.new) /\ Shown(t.snap) = t.snap.status
  BY <1>3, <1>6 DEF Shown
<1>8. Shown(row'[t.req]) = Shown(t.new) /\ Shown(row[t.req]) = t.snap.status
  BY <1>1, <1>4, <1>7
<1>. HIDE DEF new
<1>. QED  BY <1>1, <1>3, <1>4, <1>5, <1>6, <1>8

\* A commit keeps the types.
LEMMA CommitKeepsType ==
  ASSUME IInv, NEW w \in Workers, Commit(w)
  PROVE  TypeOK' /\ RowsCreated'
<1> DEFINE t == tx[w]
<1>1. /\ t \in Tx /\ t.req \in Requests
      /\ tx' = [tx EXCEPT ![w] = NoTx]
      /\ timeline' = [timeline EXCEPT ![t.req] = @ \o Entries(t)]
      /\ ~t.writes => row' = row
  BY CommitEffect
<1>2. t.writes => row' \in [Requests -> Row] /\ RowsCreated'
  <2>1. ASSUME t.writes
        PROVE  /\ \A r \in Requests : row'[r] \in Row
               /\ \A r \in Requests : /\ row'[r].status = NoStatus <=> row'[r].version = 0
                                      /\ row'[r].status = NoStatus => ~row'[r].removed
    <3>1. /\ row'[t.req] \in Row /\ row'[t.req].version = row[t.req].version + 1
          /\ row'[t.req].status # NoStatus
          /\ \A r \in Requests : r # t.req => row'[r] = row[r]
      BY <2>1, CommitStatus
    <3>2. row[t.req].version \in Nat
      BY <1>1 DEF IInv, TypeOK, Row
    <3>3. row'[t.req].version # 0 /\ ~(row'[t.req].status = NoStatus)
      BY <3>1, <3>2
    <3>4. ASSUME NEW r \in Requests, r # t.req
          PROVE  /\ row'[r] \in Row
                 /\ row'[r].status = NoStatus <=> row'[r].version = 0
                 /\ row'[r].status = NoStatus => ~row'[r].removed
      BY <3>1, <3>4 DEF IInv, TypeOK, RowsCreated
    <3>. QED  BY <3>1, <3>3, <3>4
  <2>2. t.writes => row' = [row EXCEPT ![t.req] = [t.new EXCEPT !.version = t.snap.version + 1]]
    BY CommitEffect
  <2>. QED  BY <2>1, <2>2 DEF IInv, TypeOK, RowsCreated
<1>3. timeline' \in [Requests -> Seq(Entry)]
  <2>1. timeline[t.req] \o Entries(t) \in Seq(Entry)
    BY <1>1, Appended DEF IInv, TypeOK
  <2>. QED  BY <1>1, <2>1 DEF IInv, TypeOK
<1>4. tx' \in [Workers -> Tx \cup {NoTx}]
  BY <1>1 DEF IInv, TypeOK
<1>. QED  BY <1>1, <1>2, <1>3, <1>4 DEF IInv, TypeOK, RowsCreated

\* Every other unit of work on the row is stale after a commit that writes it.
LEMMA CommitKeepsOpenWork ==
  ASSUME IInv, NEW w \in Workers, Commit(w)
  PROVE  OpenWorkSound'
<1>1. tx' = [tx EXCEPT ![w] = NoTx]
  BY CommitEffect
<1>2. SUFFICES ASSUME NEW v \in Workers, tx'[v] # NoTx
               PROVE  SoundWork(tx[v])'
  BY DEF OpenWorkSound
<1>3. tx'[v] = tx[v]
  BY <1>1, <1>2 DEF IInv, TypeOK
<1>4. SoundWork(tx[v]) /\ tx[v] \in Tx
  BY <1>2, <1>3 DEF IInv, OpenWorkSound, TypeOK
<1>5. CASE row'[tx[v].req] = row[tx[v].req]
  BY <1>3, <1>4, <1>5 DEF SoundWork, VersionMatches
<1>6. CASE row'[tx[v].req] # row[tx[v].req]
  <2>1. tx[w].writes
    BY <1>6, CommitEffect
  <2>2. row'[tx[v].req].version = row[tx[v].req].version + 1
    BY <1>4, <1>6, <2>1, CommitStatus DEF Tx
  <2>3. /\ tx[v].snap.version \in Nat /\ row[tx[v].req].version \in Nat
        /\ tx[v].snap.version <= row[tx[v].req].version
    BY <1>4 DEF SoundWork, IInv, TypeOK, Tx, Row
  <2>4. /\ tx[v].snap.version <= row'[tx[v].req].version
        /\ row'[tx[v].req].version # tx[v].snap.version
    BY <2>2, <2>3
  <2>. QED  BY <1>3, <1>4, <2>4 DEF SoundWork, VersionMatches
<1>. QED  BY <1>5, <1>6

\* A commit adds one outcome, the one the request then shows, to a timeline
\* that has none, or adds none and shows the outcome it showed before.
LEMMA CommitAddsOutcome ==
  ASSUME IInv, NEW w \in Workers, Commit(w), NEW r \in Requests, r = tx[w].req
  PROVE  LET old == timeline[r]
             new == timeline'[r]
         IN
         /\ DOMAIN old = 1..Len(old) /\ Len(old) \in Nat
         /\ DOMAIN old \subseteq DOMAIN new
         /\ \A i \in DOMAIN old : new[i] = old[i]
         /\ \/ /\ \A i \in DOMAIN new : new[i].kind \in Outcomes => i \in DOMAIN old
               /\ \/ Shown(row'[r]) = Shown(row[r])
                  \/ Shown(row'[r]) \notin Outcomes /\ Shown(row[r]) \notin Outcomes
               /\ Shown(row[r]) \in Outcomes => row'[r].receiver = row[r].receiver
            \/ /\ Shown(row[r]) \notin Outcomes
               /\ Len(old) + 1 \in DOMAIN new
               /\ new[Len(old) + 1].kind = Shown(row'[r])
               /\ new[Len(old) + 1].by \in Entitled(row'[r], Shown(row'[r]))
               /\ \A i \in DOMAIN new :
                    new[i].kind \in Outcomes => i \in DOMAIN old \/ i = Len(old) + 1
<1> DEFINE t == tx[w]
           s == timeline[r]
           u == timeline'[r]
           n == Len(s)
           m == Len(t.log)
<1>1. /\ t \in Tx /\ SoundWork(t) /\ r = t.req
      /\ timeline' = [timeline EXCEPT ![r] = s \o Entries(t)]
      /\ ~t.writes => row' = row
  BY CommitEffect
<1>2. u = s \o Entries(t) /\ s \in Seq(Entry)
  BY <1>1 DEF IInv, TypeOK
<1>3. /\ DOMAIN s = 1..n /\ n \in Nat /\ m \in Nat
      /\ DOMAIN u = 1..(n + m)
      /\ \A i \in 1..n : u[i] = s[i]
      /\ \A i \in 1..m : u[n + i].kind = t.log[i] /\ u[n + i].by = t.id
  <2>. HIDE DEF t, s, u
  <2>. QED  BY <1>1, <1>2, Appended
<1>4. t.log \in Seq(Kinds) /\ DOMAIN t.log = 1..m
  BY <1>1, LenProperties DEF Tx
<1>5. t.writes => /\ Shown(row'[r]) = Shown(t.new) /\ Shown(row[r]) = t.snap.status
                  /\ row'[r].creator = t.new.creator
                  /\ row'[r].receiver = t.new.receiver
                  /\ row[r] = t.snap
  <2>1. ASSUME t.writes
        PROVE  /\ row'[r].receiver = t.new.receiver /\ row'[r].creator = t.new.creator
               /\ row[r] = t.snap
    <3>1. row' = [row EXCEPT ![r] = [t.new EXCEPT !.version = t.snap.version + 1]]
          /\ row[r] = t.snap
      BY <1>1, <2>1, CommitEffect
    <3>2. t.new \in Row
      BY <1>1 DEF Tx
    <3>. QED  BY <3>1, <3>2 DEF IInv, TypeOK, Row
  <2>. QED  BY <1>1, <2>1, CommitStatus
<1>6. t.writes => GivesNoOutcome(t) \/ GivesOutcome(t)
  BY <1>1 DEF SoundWork
<1>7. ~t.writes => Quiet(t.log) /\ row' = row
  BY <1>1 DEF SoundWork
<1>8. "created" \notin Outcomes /\ "submitted" \notin Outcomes
  BY DEF Outcomes, ClosedStatuses
<1>. HIDE DEF s, t, u, n, m
<1>9. ASSUME NEW i \in DOMAIN u, i \notin DOMAIN s
      PROVE  \E k \in 1..m : i = n + k
  <2>1. i - n \in 1..m /\ i = n + (i - n)
    BY <1>3, <1>9
  <2>. QED  BY <2>1
<1>10. DOMAIN s \subseteq DOMAIN u /\ \A i \in DOMAIN s : u[i] = s[i]
  BY <1>3
<1>11. ASSUME Quiet(t.log)
       PROVE  \A i \in DOMAIN u : u[i].kind \in Outcomes => i \in DOMAIN s
  <2>1. ASSUME NEW i \in DOMAIN u, i \notin DOMAIN s
        PROVE  u[i].kind \notin Outcomes
    <3>1. PICK k \in 1..m : i = n + k
      BY <1>9, <2>1
    <3>2. u[i].kind = t.log[k]
      BY <1>3, <3>1, Zenon
    <3>. QED  BY <1>4, <1>11, <3>2 DEF Quiet
  <2>. QED  BY <2>1
<1>12. CASE ~t.writes
  BY <1>3, <1>7, <1>10, <1>11, <1>12, Zenon DEF s, u, n
<1>13. CASE t.writes /\ GivesNoOutcome(t)
  <2>1. /\ Quiet(t.log) /\ ~t.new.removed
        /\ \/ t.new.status = t.snap.status
           \/ t.snap.status = "created" /\ t.new.status = "submitted"
        /\ t.snap.status = "created" \/ t.new.receiver = t.snap.receiver
    BY <1>13 DEF GivesNoOutcome
  <2>2. Shown(t.new) = t.new.status
    BY <2>1 DEF Shown
  <2>3. \/ Shown(row'[r]) = Shown(row[r])
        \/ Shown(row'[r]) \notin Outcomes /\ Shown(row[r]) \notin Outcomes
    BY <1>5, <1>8, <1>13, <2>1, <2>2
  <2>4. Shown(row[r]) \in Outcomes => row'[r].receiver = row[r].receiver
    BY <1>5, <1>8, <1>13, <2>1, Zenon
  <2>. QED  BY <1>3, <1>10, <1>11, <2>1, <2>3, <2>4 DEF s, u, n
<1>14. CASE t.writes /\ GivesOutcome(t)
  <2>1. /\ m > 0 /\ t.log[1] = Shown(t.new) /\ Quiet(Tail(t.log))
        /\ t.snap.status \in {"created", "submitted"}
        /\ t.id \in Entitled(t.new, t.log[1])
    BY <1>14 DEF GivesOutcome, m
  <2>2. Shown(row[r]) \notin Outcomes
    BY <1>5, <1>8, <1>14, <2>1
  <2>3. /\ n + 1 \in DOMAIN u
        /\ u[n + 1].kind = Shown(row'[r])
        /\ u[n + 1].by = t.id
    <3>1. 1 \in 1..m /\ n + 1 \in 1..(n + m)
      BY <1>3, <2>1
    <3>. QED  BY <1>3, <1>5, <1>14, <2>1, <3>1
  <2>4. t.id \in Entitled(row'[r], Shown(row'[r]))
    BY <1>5, <1>14, <2>1 DEF Entitled, Receiver, Creator
  <2>5. \A i \in DOMAIN u : u[i].kind \in Outcomes => i \in DOMAIN s \/ i = n + 1
    <3>1. ASSUME NEW k \in 1..m, t.log[k] \in Outcomes
          PROVE  k = 1
      BY <1>4, <2>1, <3>1, QuietTail DEF m
    <3>2. ASSUME NEW i \in DOMAIN u, i \notin DOMAIN s, u[i].kind \in Outcomes
          PROVE  i = n + 1
      <4>1. PICK k \in 1..m : i = n + k
        BY <1>9, <3>2
      <4>2. u[i].kind = t.log[k]
        BY <1>3, <4>1
      <4>3. k = 1
        BY <3>1, <3>2, <4>2
      <4>. QED  BY <4>1, <4>3
    <3>. QED  BY <3>2
  <2>. QED  BY <1>3, <1>10, <2>2, <2>3, <2>4, <2>5, Zenon DEF s, u, n
<1>. QED  BY <1>6, <1>12, <1>13, <1>14

\* A commit keeps the outcome of each request logged once and by someone
\* entitled to it.
LEMMA CommitKeepsOutcome ==
  ASSUME IInv, NEW w \in Workers, Commit(w)
  PROVE  OutcomeLoggedOnce' /\ DecidedByEntitled'
<1>1. /\ tx[w] \in Tx
      /\ timeline' = [timeline EXCEPT ![tx[w].req] = @ \o Entries(tx[w])]
  BY CommitEffect
<1>2. ASSUME NEW r \in Requests, r # tx[w].req
      PROVE  row'[r] = row[r] /\ timeline'[r] = timeline[r]
  <2>1. row'[r] = row[r]
    BY <1>2, CommitEffect, CommitStatus
  <2>. QED  BY <1>1, <1>2, <2>1 DEF IInv, TypeOK
<1>3. ASSUME NEW r \in Requests
      PROVE  /\ Shown(row'[r]) \in Outcomes =>
                  \E i \in DOMAIN timeline'[r] : timeline'[r][i].kind = Shown(row'[r])
             /\ \A i \in DOMAIN timeline'[r] :
                  timeline'[r][i].kind \in Outcomes =>
                    /\ timeline'[r][i].kind = Shown(row'[r])
                    /\ \A j \in DOMAIN timeline'[r] :
                         timeline'[r][j].kind \in Outcomes => i = j
  <2>1. /\ Shown(row[r]) \in Outcomes =>
              \E i \in DOMAIN timeline[r] : timeline[r][i].kind = Shown(row[r])
        /\ \A i \in DOMAIN timeline[r] :
              timeline[r][i].kind \in Outcomes =>
                /\ timeline[r][i].kind = Shown(row[r])
                /\ \A j \in DOMAIN timeline[r] :
                     timeline[r][j].kind \in Outcomes => i = j
    BY DEF IInv, OutcomeLoggedOnce, ShownStatus
  <2>2. CASE r # tx[w].req
    BY <1>2, <2>1, <2>2
  <2>3. CASE r = tx[w].req
    <3> DEFINE old == timeline[r]
               new == timeline'[r]
    <3>1. /\ DOMAIN old = 1..Len(old) /\ Len(old) \in Nat
          /\ DOMAIN old \subseteq DOMAIN new
          /\ \A i \in DOMAIN old : new[i] = old[i]
      BY <2>3, CommitAddsOutcome
    <3>2. CASE /\ \A i \in DOMAIN new : new[i].kind \in Outcomes => i \in DOMAIN old
               /\ \/ Shown(row'[r]) = Shown(row[r])
                  \/ Shown(row'[r]) \notin Outcomes /\ Shown(row[r]) \notin Outcomes
      <4>. HIDE DEF old, new
      <4>. QED  BY <2>1, <3>1, <3>2 DEF old, new
    <3>3. CASE /\ Shown(row[r]) \notin Outcomes
               /\ Len(old) + 1 \in DOMAIN new
               /\ new[Len(old) + 1].kind = Shown(row'[r])
               /\ \A i \in DOMAIN new :
                    new[i].kind \in Outcomes => i \in DOMAIN old \/ i = Len(old) + 1
      <4>1. \A i \in DOMAIN old : old[i].kind \notin Outcomes
        BY <2>1, <3>3
      <4>2. \A i \in DOMAIN new : new[i].kind \in Outcomes => i = Len(old) + 1
        BY <3>1, <3>3, <4>1
      <4>. HIDE DEF old, new
      <4>. QED  BY <3>1, <3>3, <4>2 DEF old, new
    <3>. QED  BY <2>3, <3>2, <3>3, CommitAddsOutcome
  <2>. QED  BY <2>2, <2>3
<1>4. OutcomeLoggedOnce'
  BY <1>3 DEF OutcomeLoggedOnce, ShownStatus
<1>5. ASSUME NEW r \in Requests, NEW i \in DOMAIN timeline'[r],
             timeline'[r][i].kind \in Outcomes
      PROVE  timeline'[r][i].by \in Entitled(row'[r], timeline'[r][i].kind)
  <2>1. ASSUME NEW j \in DOMAIN timeline[r], timeline[r][j].kind \in Outcomes
        PROVE  /\ timeline[r][j].by \in Entitled(row[r], timeline[r][j].kind)
               /\ timeline[r][j].kind = Shown(row[r])
    BY <2>1 DEF IInv, DecidedByEntitled, OutcomeLoggedOnce, ShownStatus
  <2>2. CASE r # tx[w].req
    BY <1>2, <1>5, <2>1, <2>2, Zenon
  <2>3. CASE r = tx[w].req /\ i \in DOMAIN timeline[r]
    <3>1. timeline'[r][i] = timeline[r][i]
      BY <2>3, CommitAddsOutcome
    <3>2. Shown(row[r]) \in Outcomes
      BY <1>5, <2>1, <2>3, <3>1
    <3>3. row'[r].receiver = row[r].receiver
      BY <2>3, <3>2, CommitAddsOutcome
    <3>4. row'[r].creator = row[r].creator
      BY <2>3, CommitEffect, CommitStatus
    <3>. QED  BY <1>5, <2>1, <2>3, <3>1, <3>3, <3>4 DEF Entitled, Receiver, Creator
  <2>4. CASE r = tx[w].req /\ i \notin DOMAIN timeline[r]
    <3>1. i = Len(timeline[r]) + 1
      BY <1>5, <2>4, CommitAddsOutcome
    <3>2. /\ timeline'[r][i].kind = Shown(row'[r])
          /\ timeline'[r][i].by \in Entitled(row'[r], Shown(row'[r]))
      BY <1>5, <2>4, <3>1, CommitAddsOutcome
    <3>. QED  BY <3>2
  <2>. QED  BY <2>2, <2>3, <2>4
<1>. QED  BY <1>4, <1>5 DEF DecidedByEntitled

-----------------------------------------------------------------------------
(* The invariant. *)

\* The invariant holds when there are no requests yet.
THEOREM InvariantInit == ASSUME ServiceAssumption, Init PROVE IInv
<1>1. (CHOOSE u \in Users : TRUE) \in Users
  BY DEF ServiceAssumption
<1>2. NoRow \in Row /\ NoRow.status = NoStatus /\ NoRow.version = 0 /\ ~NoRow.removed
  BY <1>1 DEF NoRow, Row, Identities
<1>3. TypeOK
  <2>1. <<>> \in Seq(Entry)
    OBVIOUS
  <2>. QED  BY <1>2, <2>1 DEF Init, TypeOK
<1>4. RowsCreated
  BY <1>2 DEF Init, RowsCreated
<1>5. OpenWorkSound
  BY DEF Init, OpenWorkSound
<1>6. \A r \in Requests : DOMAIN timeline[r] = {} /\ ShownStatus(r) \notin Outcomes
  BY <1>2 DEF Init, ShownStatus, Shown, Outcomes, ClosedStatuses, NoStatus
<1>. QED  BY <1>3, <1>4, <1>5, <1>6 DEF IInv, OutcomeLoggedOnce, DecidedByEntitled

\* Every step of the service keeps the invariant.
THEOREM InvariantNext ==
  ASSUME PolicyAssumption, ServiceAssumption, IInv, [Next]_vars
  PROVE  IInv'
<1>2. ASSUME NEW w \in Workers, NEW r \in Requests, NEW id \in Identities,
             Call(w, r, id)
      PROVE  IInv'
  <2>1. ASSUME NEW receiver \in Receivers, NEW locked \in BOOLEAN,
               Update(w, r, id, receiver, locked)
        PROVE  IInv'
    BY <2>1, UpdateKeeps
  <2>2. ASSUME NEW receiver \in Receivers, NEW locked \in BOOLEAN,
               NEW reviewers \in ReviewerSets,
               UpdateReviewers(w, r, id, receiver, locked, reviewers)
        PROVE  IInv'
    BY <2>2, UpdateReviewersKeeps
  <2>3. ASSUME NEW a \in Actions, NEW c \in BOOLEAN,
               ExecuteAction(w, r, id, a, c)
        PROVE  IInv'
    BY <2>3, ExecuteActionKeeps
  <2>4. CASE Delete(w, r, id)
    BY <2>4, DeleteKeeps
  <2>5. ASSUME NEW locked \in BOOLEAN, SetLock(w, r, id, locked)
        PROVE  IInv'
    BY <2>5, SetLockKeeps
  <2>6. CASE Comment(w, r, id)
    BY <2>6, CommentKeeps
  <2>7. CASE \E receiver \in Receivers, locked \in BOOLEAN :
               Update(w, r, id, receiver, locked)
    BY <2>1, <2>7
  <2>8. CASE \E receiver \in Receivers, locked \in BOOLEAN, reviewers \in ReviewerSets :
               UpdateReviewers(w, r, id, receiver, locked, reviewers)
    BY <2>2, <2>8
  <2>9. CASE \E action \in Actions, comment \in BOOLEAN :
               ExecuteAction(w, r, id, action, comment)
    BY <2>3, <2>9
  <2>10. CASE \E locked \in BOOLEAN : SetLock(w, r, id, locked)
    BY <2>5, <2>10
  <2>. QED  BY <1>2, <2>4, <2>6, <2>7, <2>8, <2>9, <2>10 DEF Call
<1>3. ASSUME NEW w \in Workers, Commit(w) \/ Rollback(w)
      PROVE  IInv'
  <2>1. CASE Commit(w)
    <3>1. TypeOK' /\ RowsCreated'
      BY <2>1, CommitKeepsType
    <3>2. OpenWorkSound'
      BY <2>1, CommitKeepsOpenWork
    <3>3. OutcomeLoggedOnce' /\ DecidedByEntitled'
      BY <2>1, CommitKeepsOutcome
    <3>. QED  BY <3>1, <3>2, <3>3, Zenon DEF IInv
  <2>2. CASE Rollback(w)
    BY <2>2, RollbackKeeps
  <2>. QED  BY <1>3, <2>1, <2>2
<1>5. CASE UNCHANGED vars
  BY <1>5 DEF vars, IInv, TypeOK, RowsCreated, OpenWorkSound, SoundWork, VersionMatches,
     OutcomeLoggedOnce, DecidedByEntitled, ShownStatus
<1>6. CASE Next
  <2>1. CASE \E w \in Workers, r \in Requests, id \in Identities : Call(w, r, id)
    BY <1>2, <2>1
  <2>2. CASE \E w \in Workers : Commit(w) \/ Rollback(w)
    BY <1>3, <2>2
  <2>3. CASE \E r \in Requests, id \in Identities, creator \in Creators,
                receiver \in Receivers, reviewers \in ReviewerSets \cup {{}},
                locked \in BOOLEAN :
               Create(r, id, creator, receiver, reviewers, locked)
    <3>1. PICK r \in Requests, id \in Identities, creator \in Creators,
               receiver \in Receivers, reviewers \in ReviewerSets \cup {{}},
               locked \in BOOLEAN :
                 Create(r, id, creator, receiver, reviewers, locked)
      BY <2>3
    <3>. QED  BY <3>1, CreateKeeps
  <2>. QED  BY <1>6, <2>1, <2>2, <2>3, Zenon DEF Next
<1>. QED  BY <1>5, <1>6

\* The invariant holds in every state of every behaviour.
THEOREM Invariant == Spec => []IInv
<1>1. Init => IInv
  BY InvariantInit, ServiceAssumption
<1>2. IInv /\ [Next]_vars => IInv'
  BY InvariantNext, PolicyAssumption, ServiceAssumption
<1>. QED  BY <1>1, <1>2, PTL DEF Spec

\* Every row, timeline and open unit of work is of the type the module states.
THEOREM TypeCorrect == Spec => []TypeOK
<1>1. IInv => TypeOK
  BY DEF IInv
<1>. QED  BY <1>1, Invariant, PTL

\* A request is decided at most once and its timeline tells it.
THEOREM OutcomeOnce == Spec => []OutcomeLoggedOnce
<1>1. IInv => OutcomeLoggedOnce
  BY DEF IInv
<1>. QED  BY <1>1, Invariant, PTL

\* Every outcome was given by someone entitled to give it to the request as it
\* stands.
THEOREM OutcomeByEntitled == Spec => []DecidedByEntitled
<1>1. IInv => DecidedByEntitled
  BY DEF IInv
<1>. QED  BY <1>1, Invariant, PTL

\* Every open unit of work stays sound while others commit.
THEOREM OpenWork == Spec => []OpenWorkSound
<1>1. IInv => OpenWorkSound
  BY DEF IInv
<1>. QED  BY <1>1, Invariant, PTL

\* Whoever may execute an action may read the request, so that its log event is
\* never what refuses the action: a fact of the policy lists alone.
THEOREM ActorsRead == Spec => []ActorsCanRead
<1>1. ASSUME NEW request, NEW action \in Actions, CanExecute(action, request)
      PROVE  CanAction(action, request) \subseteq CanRead(request)
  <2>1. CASE request.status = "created"
    <3>1. action \in {"submit", "delete"}
      BY <1>1, <2>1 DEF CanExecute, StatusFrom
    <3>2. CanAction(action, request) \subseteq Granted({request.creator} \cup Admins \cup SystemProcess)
      BY <3>1 DEF CanAction, CanActionSubmit, CanActionDelete, Creator, Status, Granted
    <3>. QED  BY <2>1, <3>2 DEF CanRead, Status, Creator, Granted
  <2>2. CASE request.status # "created"
    <3>1. action \in Actions \ {"submit", "delete"} /\ request.status = "submitted"
      BY <1>1, <2>2 DEF CanExecute, StatusFrom
    <3>2. CanAction(action, request)
            \subseteq Granted(Creator(request) \cup Receiver(request) \cup SystemProcess)
      BY <3>1 DEF Actions, CanAction, CanActionAccept, CanActionDecline, CanActionCancel,
         CanActionExpire, Granted
    <3>. QED  BY <3>1, <3>2 DEF CanRead, PublicStatuses, Status, Granted
  <2>. QED  BY <2>1, <2>2
<1>2. ActorsCanRead
  BY <1>1 DEF ActorsCanRead
<1>. QED  BY <1>2, PTL

-----------------------------------------------------------------------------
(* Steps. *)

\* A row changes when it is created or when a unit of work that writes it
\* commits, and no other row changes in that step.
LEMMA RowChanges ==
  ASSUME IInv, [Next]_vars, NEW r \in Requests, row'[r] # row[r]
  PROVE  /\ \A q \in Requests : q # r => row'[q] = row[q]
         /\ \/ /\ row[r].status = NoStatus
               /\ row'[r].status \in {"created", "submitted"}
               /\ ~row'[r].removed
            \/ \E w \in Workers : Commit(w) /\ tx[w].writes /\ tx[w].req = r
<1> DEFINE Goal == /\ \A q \in Requests : q # r => row'[q] = row[q]
                   /\ \/ /\ row[r].status = NoStatus
                         /\ row'[r].status \in {"created", "submitted"}
                         /\ ~row'[r].removed
                      \/ \E w \in Workers : Commit(w) /\ tx[w].writes /\ tx[w].req = r
<1>1. ASSUME NEW p \in Requests, NEW id \in Identities, NEW creator \in Creators,
             NEW receiver \in Receivers, NEW reviewers \in ReviewerSets \cup {{}},
             NEW locked \in BOOLEAN,
             Create(p, id, creator, receiver, reviewers, locked)
      PROVE  Goal
  <2>1. PICK status \in {"created", "submitted"}, listed \in BOOLEAN :
          row' = [row EXCEPT ![p] =
                    [status |-> status, creator |-> creator,
                     receiver |-> receiver, reviewers |-> reviewers, listed |-> listed,
                     locked |-> locked, version |-> 1, removed |-> FALSE]]
    BY <1>1 DEF Create
  <2>2. p = r /\ row[r].status = NoStatus
    BY <1>1, <2>1 DEF Create, IInv, TypeOK
  <2>. QED  BY <2>1, <2>2 DEF IInv, TypeOK
<1>2. ASSUME NEW w \in Workers, NEW p \in Requests, NEW id \in Identities,
             Call(w, p, id)
      PROVE  row' = row
  BY <1>2 DEF Call, Update, UpdateReviewers, ExecuteAction, Delete, SetLock, Comment,
     Begin
<1>3. ASSUME NEW w \in Workers, Commit(w)
      PROVE  Goal
  <2>1. /\ tx[w].writes /\ tx[w].req \in Requests
        /\ row' = [row EXCEPT ![tx[w].req] =
                     [tx[w].new EXCEPT !.version = tx[w].snap.version + 1]]
    BY <1>3, CommitEffect
  <2>2. tx[w].req = r
    BY <2>1 DEF IInv, TypeOK
  <2>. QED  BY <1>3, <2>1, <2>2 DEF IInv, TypeOK
<1>4. ASSUME NEW w \in Workers, Rollback(w)
      PROVE  row' = row
  BY <1>4 DEF Rollback
<1>. HIDE DEF Goal
<1>5. Goal
  <2>1. ASSUME row' = row  PROVE Goal
    BY <2>1
  <2>2. CASE UNCHANGED vars
    BY <2>1, <2>2 DEF vars
  <2>3. CASE \E w \in Workers, p \in Requests, id \in Identities : Call(w, p, id)
    BY <1>2, <2>1, <2>3
  <2>4. CASE \E w \in Workers : Commit(w) \/ Rollback(w)
    BY <1>3, <1>4, <2>1, <2>4
  <2>5. CASE \E p \in Requests, id \in Identities, creator \in Creators,
                receiver \in Receivers, reviewers \in ReviewerSets \cup {{}},
                locked \in BOOLEAN :
               Create(p, id, creator, receiver, reviewers, locked)
    <3>1. PICK p \in Requests, id \in Identities, creator \in Creators,
               receiver \in Receivers, reviewers \in ReviewerSets \cup {{}},
               locked \in BOOLEAN :
                 Create(p, id, creator, receiver, reviewers, locked)
      BY <2>5
    <3>. QED  BY <1>1, <3>1
  <2>6. CASE Next
    BY <2>3, <2>4, <2>5, <2>6 DEF Next
  <2>. QED  BY <2>2, <2>6
<1>. QED  BY <1>5 DEF Goal

\* The receiver of a request that is no draft never changes.
THEOREM ReceiverIsSettled == Spec => ReceiverSettled
<1>1. ASSUME IInv, [Next]_vars, NEW r \in Requests,
             row[r].status \notin {NoStatus, "created"}
      PROVE  row'[r].receiver = row[r].receiver
  <2>1. CASE row'[r] = row[r]
    BY <2>1
  <2>2. CASE row'[r] # row[r]
    <3>1. PICK w \in Workers : Commit(w) /\ tx[w].writes /\ tx[w].req = r
      BY <1>1, <2>2, RowChanges
    <3>2. /\ tx[w] \in Tx /\ SoundWork(tx[w]) /\ row[r] = tx[w].snap
          /\ row' = [row EXCEPT ![r] = [tx[w].new EXCEPT !.version = tx[w].snap.version + 1]]
      BY <1>1, <3>1, CommitEffect
    <3>3. tx[w].new.receiver = tx[w].snap.receiver
      BY <1>1, <3>1, <3>2 DEF SoundWork, GivesNoOutcome, GivesOutcome
    <3>4. row'[r].receiver = tx[w].new.receiver
      BY <1>1, <3>2 DEF IInv, TypeOK, Tx, Row
    <3>. QED  BY <3>2, <3>3, <3>4
  <2>. QED  BY <2>1, <2>2
<1>2. IInv /\ [Next]_vars =>
        [\A r \in Requests :
           row[r].status \notin {NoStatus, "created"} =>
             row'[r].receiver = row[r].receiver]_vars
  BY <1>1
<1>. QED  BY <1>2, Invariant, PTL DEF Spec, ReceiverSettled

\* Every write of a row that exists starts from the row it replaces.
THEOREM WritesAreCurrent == Spec => WritesFromCurrentRow
<1>1. ASSUME IInv, [Next]_vars, NEW r \in Requests,
             row[r].version > 0, row'[r] # row[r]
      PROVE  \E w \in Workers :
               /\ tx[w] # NoTx /\ tx[w].req = r
               /\ tx[w].snap = row[r]
               /\ tx'[w] = NoTx
  <2>1. PICK w \in Workers : Commit(w) /\ tx[w].writes /\ tx[w].req = r
    <3>1. row[r].status # NoStatus
      BY <1>1 DEF IInv, RowsCreated
    <3>. QED  BY <1>1, <3>1, RowChanges
  <2>2. row[r] = tx[w].snap /\ tx' = [tx EXCEPT ![w] = NoTx]
    BY <1>1, <2>1, CommitEffect
  <2>. QED  BY <1>1, <2>1, <2>2 DEF Commit, IInv, TypeOK
<1>2. IInv /\ [Next]_vars =>
        [\A r \in Requests :
           row[r].version > 0 /\ row'[r] # row[r] =>
             \E w \in Workers :
               /\ tx[w] # NoTx /\ tx[w].req = r
               /\ tx[w].snap = row[r]
               /\ tx'[w] = NoTx]_vars
  BY <1>1
<1>. QED  BY <1>2, Invariant, PTL DEF Spec, WritesFromCurrentRow

-----------------------------------------------------------------------------
(* The service implements the life cycle. *)

Life == [r \in Requests |-> ShownStatus(r)]

\* Every behaviour of the service, seen through the status that each row shows,
\* is a behaviour of RequestLifecycle.
THEOREM Refinement == Spec => ImplementsLifecycle
<1>1. Init => Lifecycle!Init
  BY DEF Init, Lifecycle!Init, ShownStatus, Shown, NoRow, NoStatus, Lifecycle!NoStatus
<1>2. ASSUME IInv, [Next]_vars
      PROVE  [Lifecycle!Next]_Life
  <2>1. CASE \A r \in Requests : row'[r] = row[r]
    BY <2>1 DEF Life, ShownStatus
  <2>2. ASSUME NEW r \in Requests, row'[r] # row[r]
        PROVE  [Lifecycle!Move(r)]_Life
    <3>1. Life' = [Life EXCEPT ![r] = Shown(row'[r])] /\ Life[r] = Shown(row[r])
      BY <1>2, <2>2, RowChanges DEF Life, ShownStatus
    <3>2. CASE /\ row[r].status = NoStatus /\ ~row'[r].removed
               /\ row'[r].status \in {"created", "submitted"}
      <4>1. Shown(row[r]) = NoStatus /\ Shown(row'[r]) \in {"created", "submitted"}
        BY <1>2, <3>2 DEF Shown, IInv, RowsCreated
      <4>. QED  BY <3>1, <4>1 DEF Lifecycle!Move, Lifecycle!Transitions,
                Lifecycle!Statuses, Lifecycle!NoStatus, NoStatus, Life
    <3>3. CASE \E w \in Workers : Commit(w) /\ tx[w].writes /\ tx[w].req = r
      <4>1. PICK w \in Workers : Commit(w) /\ tx[w].writes /\ tx[w].req = r
        BY <3>3
      <4> DEFINE t == tx[w]
      <4>2. /\ Shown(row'[r]) = Shown(t.new) /\ Shown(row[r]) = t.snap.status
            /\ GivesNoOutcome(t) \/ GivesOutcome(t)
        BY <1>2, <4>1, CommitEffect, CommitStatus DEF SoundWork
      <4>3. \/ Shown(row'[r]) = Shown(row[r])
            \/ Shown(row[r]) = "created" /\ Shown(row'[r]) \in {"submitted", "deleted"}
            \/ Shown(row[r]) = "submitted" /\ Shown(row'[r]) \in ClosedStatuses
        BY <4>2 DEF GivesNoOutcome, GivesOutcome, Shown
      <4>4. CASE Shown(row'[r]) = Shown(row[r])
        BY <3>1, <4>4 DEF Life
      <4>5. CASE \/ Shown(row[r]) = "created" /\ Shown(row'[r]) \in {"submitted", "deleted"}
                 \/ Shown(row[r]) = "submitted" /\ Shown(row'[r]) \in ClosedStatuses
        BY <3>1, <4>5 DEF Lifecycle!Move, Lifecycle!Transitions, Lifecycle!Statuses,
           Lifecycle!ClosedStatuses, ClosedStatuses, Life
      <4>. QED  BY <4>3, <4>4, <4>5
    <3>. QED  BY <1>2, <2>2, <3>2, <3>3, RowChanges
  <2>. QED  BY <2>1, <2>2 DEF Lifecycle!Next
<1>3. IInv /\ [Next]_vars => [Lifecycle!Next]_[r \in Requests |-> ShownStatus(r)]
  BY <1>2 DEF Life
<1>. QED  BY <1>1, <1>3, Invariant, PTL DEF Spec, ImplementsLifecycle, Lifecycle!Spec

-----------------------------------------------------------------------------
(* Locks and reviewers: what an open unit of work has decided. *)

\* An open unit of work logs a lock only if it flips it that way, and changes
\* the reviewers only with an event, for someone who may accept what it writes
\* and, on a locked request, may comment.
Decided(t) ==
  /\ \A i \in DOMAIN t.log :
       /\ t.log[i] = "locked"   => t.writes /\ ~t.snap.locked /\ t.new.locked
       /\ t.log[i] = "unlocked" => t.writes /\ t.snap.locked /\ ~t.new.locked
  /\ t.writes /\ t.new.reviewers # t.snap.reviewers =>
       /\ \E i \in DOMAIN t.log : t.log[i] = "reviewers_updated"
       /\ t.id \in CanActionAccept(t.new)
       /\ LockingEnabled /\ t.snap.locked =>
            t.id \in Granted(Admins \cup SystemProcess)

WorkDecided == \A w \in Workers : tx[w] # NoTx => Decided(tx[w])

-----------------------------------------------------------------------------

\* A log with neither locks nor reviewers.
Plain(log) ==
  \A i \in DOMAIN log : log[i] \notin {"locked", "unlocked", "reviewers_updated"}

\* The logs of actions are plain.
LEMMA ActionsLogPlain ==
  ASSUME NEW action \in Actions, NEW comment \in BOOLEAN
  PROVE  Plain(ActionLog(action) \o (IF comment THEN <<"comment">> ELSE <<>>))
<1>. DEFINE kind  == StatusTo[action]
            first == ActionLog(action)
            rest  == IF comment THEN <<"comment">> ELSE <<>>
            Modest == Kinds \ {"locked", "unlocked", "reviewers_updated"}
<1>1. (action # "submit" => kind \in Modest) /\ "comment" \in Modest
  BY DEF StatusTo, Actions, Kinds, Outcomes, ClosedStatuses
<1>2. first \in Seq(Modest)
  <2>1. CASE action = "submit"
    <3>1. first = <<>>
      BY <2>1 DEF ActionLog, LogsEvent
    <3>. QED  BY <3>1
  <2>2. CASE action # "submit"
    <3>1. first = <<kind>>
      BY <2>2 DEF ActionLog, LogsEvent
    <3>. QED  BY <1>1, <2>2, <3>1
  <2>. QED  BY <2>1, <2>2
<1>3. rest \in Seq(Modest)
  <2>1. <<"comment">> \in Seq(Modest) /\ <<>> \in Seq(Modest)
    BY <1>1
  <2>. QED  BY <2>1
<1>. HIDE DEF first, rest, Modest
<1>4. first \o rest \in Seq(Modest)
  BY <1>2, <1>3, ConcatProperties
<1>5. \A i \in DOMAIN (first \o rest) : (first \o rest)[i] \in Modest
  BY <1>4
<1>. QED  BY <1>5 DEF Plain, first, rest, Modest

\* A unit of work begins as it was decided, and the others stay as they were.
LEMMA BeginDecides ==
  ASSUME TypeOK, WorkDecided, NEW w \in Workers, NEW t,
         tx' = [tx EXCEPT ![w] = t], Decided(t)
  PROVE  WorkDecided'
<1>. SUFFICES ASSUME NEW v \in Workers, tx'[v] # NoTx  PROVE Decided(tx'[v])
  BY DEF WorkDecided, Decided
<1>1. CASE v = w
  BY <1>1 DEF TypeOK
<1>2. CASE v # w
  <2>1. tx'[v] = tx[v]
    BY <1>2 DEF TypeOK
  <2>. QED  BY <2>1 DEF WorkDecided
<1>. QED  BY <1>1, <1>2

\* A call that leaves the reviewers alone and logs plainly is decided.
LEMMA PlainDecides ==
  ASSUME TypeOK, WorkDecided, NEW w \in Workers, NEW r, NEW id, NEW new, NEW log,
         NEW writes, Begin(w, r, id, new, log, writes), Plain(log),
         new.reviewers = row[r].reviewers
  PROVE  WorkDecided'
<1>. DEFINE t == [open |-> TRUE, id |-> id, req |-> r, snap |-> row[r],
                  new |-> new, log |-> log, writes |-> writes]
<1>1. tx' = [tx EXCEPT ![w] = t]
  BY DEF Begin
<1>2. t.log = log /\ t.new = new /\ t.snap = row[r]
  OBVIOUS
<1>. HIDE DEF t
<1>3. Decided(t)
  BY <1>2 DEF Decided, Plain
<1>. QED  BY <1>1, <1>3, BeginDecides

\* An update with reviewers is decided by what the reviewers component asks.
LEMMA UpdateReviewersDecides ==
  ASSUME TypeOK, WorkDecided, ServiceAssumption, NEW w \in Workers,
         NEW r \in Requests, NEW id \in Identities,
         NEW receiver \in Receivers, NEW locked \in BOOLEAN, NEW reviewers \in ReviewerSets,
         UpdateReviewers(w, r, id, receiver, locked, reviewers)
  PROVE  WorkDecided'
<1>. DEFINE edited == WithData(row[r], receiver, locked)
            new    == [edited EXCEPT !.reviewers = reviewers, !.listed = TRUE]
            log    == ReviewersLog(row[r], reviewers)
            t == [open |-> TRUE, id |-> id, req |-> r, snap |-> row[r],
                  new |-> new, log |-> log, writes |-> TRUE]
<1>1. tx' = [tx EXCEPT ![w] = t] /\ MaySetReviewers(id, row[r], edited, reviewers)
  BY DEF UpdateReviewers, Begin
<1>2. edited \in Row
  BY EditedRow DEF TypeOK
<1>. HIDE DEF edited
<1>3. new.reviewers = reviewers /\ new.receiver = edited.receiver
  BY <1>2 DEF Row
<1>4. /\ reviewers # row[r].reviewers => log = <<"reviewers_updated">>
      /\ reviewers = row[r].reviewers => log = <<>>
  BY DEF ReviewersLog
<1>5. t.log = log /\ t.new = new /\ t.snap = row[r] /\ t.id = id
  OBVIOUS
<1>6. id \in CanActionAccept(new)
  BY <1>1, <1>3 DEF MaySetReviewers, CanActionAccept, Receiver
<1>7. LockingEnabled /\ row[r].locked /\ reviewers # row[r].reviewers =>
        id \in Granted(Admins \cup SystemProcess)
  BY <1>1 DEF MaySetReviewers, CanCreateComment, IfLocked, Granted
<1>. HIDE DEF t, new, log
<1>8. \A i \in DOMAIN log : log[i] = "reviewers_updated"
  BY <1>4
<1>9. reviewers # row[r].reviewers => \E i \in DOMAIN log : log[i] = "reviewers_updated"
  <2>1. 1 \in DOMAIN <<"reviewers_updated">> /\ <<"reviewers_updated">>[1] = "reviewers_updated"
    OBVIOUS
  <2>. QED  BY <1>4, <2>1
<1>10. Decided(t)
  BY <1>3, <1>5, <1>6, <1>7, <1>8, <1>9 DEF Decided
<1>. QED  BY <1>1, <1>10, BeginDecides

\* A lock is decided by the row that is not locked, an unlock by one that is.
LEMMA SetLockDecides ==
  ASSUME TypeOK, WorkDecided, NEW w \in Workers, NEW r \in Requests,
         NEW id \in Identities, NEW locked \in BOOLEAN, SetLock(w, r, id, locked)
  PROVE  WorkDecided'
<1>. DEFINE new == [row[r] EXCEPT !.locked = locked]
            log == IF locked THEN <<"locked">> ELSE <<"unlocked">>
            t == [open |-> TRUE, id |-> id, req |-> r, snap |-> row[r],
                  new |-> new, log |-> log, writes |-> TRUE]
<1>1. tx' = [tx EXCEPT ![w] = t] /\ row[r].locked # locked
  BY DEF SetLock, Begin
<1>2. row[r] \in Row /\ row[r].locked \in BOOLEAN
  BY DEF TypeOK, Row
<1>3. new.locked = locked /\ new.reviewers = row[r].reviewers
  BY <1>2 DEF Row
<1>4. t.log = log /\ t.new = new /\ t.snap = row[r] /\ t.writes = TRUE
  OBVIOUS
<1>5. \A i \in DOMAIN log : log[i] = IF locked THEN "locked" ELSE "unlocked"
  OBVIOUS
<1>. HIDE DEF t, new, log
<1>6. CASE locked
  BY <1>1, <1>2, <1>3, <1>4, <1>5, <1>6, BeginDecides DEF Decided
<1>7. CASE ~locked
  <2>1. locked = FALSE /\ row[r].locked = TRUE
    BY <1>1, <1>2, <1>7, Zenon
  <2>2. Decided(t)
    BY <1>3, <1>4, <1>5, <2>1 DEF Decided
  <2>. QED  BY <1>1, <2>2, BeginDecides
<1>. QED  BY <1>6, <1>7

\* Every step keeps what open units of work have decided.
LEMMA NextDecides ==
  ASSUME IInv, ServiceAssumption, WorkDecided, [Next]_vars
  PROVE  WorkDecided'
<1>1. TypeOK
  BY DEF IInv
<1>2. ASSUME tx' = tx  PROVE WorkDecided'
  BY <1>2 DEF WorkDecided, Decided
<1>3. ASSUME NEW w \in Workers, Commit(w) \/ Rollback(w)  PROVE WorkDecided'
  <2>1. tx' = [tx EXCEPT ![w] = NoTx]
    BY <1>3 DEF Commit, Rollback
  <2>2. \A v \in Workers : tx'[v] # NoTx => tx'[v] = tx[v]
    BY <1>1, <2>1 DEF TypeOK
  <2>3. ASSUME NEW v \in Workers, tx'[v] # NoTx  PROVE Decided(tx[v])'
    <3>1. tx'[v] = tx[v] /\ Decided(tx[v])
      BY <2>2, <2>3 DEF WorkDecided
    <3>. QED  BY <3>1 DEF Decided
  <2>. QED  BY <2>3 DEF WorkDecided
<1>4. ASSUME NEW w \in Workers, NEW r \in Requests, NEW id \in Identities, Call(w, r, id)
      PROVE  WorkDecided'
  <2>0. row[r] \in Row
    BY <1>1 DEF TypeOK
  <2>1. ASSUME NEW receiver \in Receivers, NEW locked \in BOOLEAN,
               Update(w, r, id, receiver, locked)
        PROVE  WorkDecided'
    <3>. DEFINE new == WithData(row[r], receiver, locked)
    <3>1. Begin(w, r, id, new, <<>>, TRUE)
      BY <2>1 DEF Update
    <3>2. new.reviewers = row[r].reviewers
      BY <2>0 DEF WithData, Row
    <3>3. Plain(<<>>)
      BY DEF Plain
    <3>. HIDE DEF new
    <3>. QED  BY <1>1, <3>1, <3>2, <3>3, PlainDecides
  <2>2. ASSUME NEW action \in Actions, NEW comment \in BOOLEAN,
               ExecuteAction(w, r, id, action, comment)
        PROVE  WorkDecided'
    <3>. DEFINE new == [row[r] EXCEPT !.status = StatusTo[action]]
                log == ActionLog(action) \o (IF comment THEN <<"comment">> ELSE <<>>)
    <3>1. Begin(w, r, id, new, log, TRUE)
      BY <2>2 DEF ExecuteAction
    <3>2. new.reviewers = row[r].reviewers
      BY <2>0 DEF Row
    <3>3. Plain(log)
      BY ActionsLogPlain
    <3>. HIDE DEF new, log
    <3>. QED  BY <1>1, <3>1, <3>2, <3>3, PlainDecides
  <2>3. ASSUME Delete(w, r, id)  PROVE WorkDecided'
    <3>. DEFINE new == [row[r] EXCEPT !.removed = TRUE]
                log == ActionLog("delete")
    <3>1. Begin(w, r, id, new, log, TRUE)
      BY <2>3 DEF Delete
    <3>2. new.reviewers = row[r].reviewers
      BY <2>0 DEF Row
    <3>3. Plain(log)
      <4>1. log = <<"deleted">>
        BY DEF ActionLog, LogsEvent, StatusTo, Actions
      <4>2. \A i \in DOMAIN <<"deleted">> : <<"deleted">>[i] = "deleted"
        OBVIOUS
      <4>. QED  BY <4>1, <4>2 DEF Plain
    <3>. HIDE DEF new, log
    <3>. QED  BY <1>1, <3>1, <3>2, <3>3, PlainDecides
  <2>4. ASSUME Comment(w, r, id)  PROVE WorkDecided'
    <3>1. Begin(w, r, id, row[r], <<"comment">>, FALSE)
      BY <2>4 DEF Comment
    <3>2. \A i \in DOMAIN <<"comment">> : <<"comment">>[i] = "comment"
      OBVIOUS
    <3>3. Plain(<<"comment">>)
      BY <3>2 DEF Plain
    <3>. QED  BY <1>1, <3>1, <3>3, PlainDecides
  <2>. QED  BY <1>1, <1>4, <2>1, <2>2, <2>3, <2>4, UpdateReviewersDecides, SetLockDecides
            DEF Call
<1>5. CASE UNCHANGED vars
  BY <1>2, <1>5 DEF vars
<1>. QED  BY <1>2, <1>3, <1>4, <1>5 DEF Next, Create

\* A request that was not created yet is not locked.
Unlocked == \A r \in Requests : row[r].locked => row[r].status # NoStatus

\* No step locks one.
LEMMA NextUnlocked ==
  ASSUME IInv, Unlocked, [Next]_vars
  PROVE  Unlocked'
<1>. SUFFICES ASSUME NEW r \in Requests, row'[r].locked  PROVE row'[r].status # NoStatus
  BY DEF Unlocked
<1>1. CASE row'[r] = row[r]
  BY <1>1 DEF Unlocked
<1>2. CASE row'[r] # row[r]
  <2>1. CASE row'[r].status \in {"created", "submitted"}
    BY <2>1 DEF NoStatus
  <2>2. CASE \E w \in Workers : Commit(w) /\ tx[w].writes /\ tx[w].req = r
    BY <2>2, CommitStatus
  <2>. QED  BY <1>2, <2>1, <2>2, RowChanges
<1>. QED  BY <1>1, <1>2

\* What was decided holds throughout.
LEMMA DecidedInvariant == Spec => [](IInv /\ WorkDecided /\ Unlocked)
<1>1. Init => WorkDecided /\ Unlocked
  <2>1. ASSUME Init, NEW r \in Requests  PROVE ~row[r].locked
    BY <2>1 DEF Init, NoRow
  <2>2. Init => WorkDecided
    BY DEF Init, WorkDecided
  <2>. QED  BY <2>1, <2>2 DEF Unlocked
<1>2. IInv /\ WorkDecided /\ [Next]_vars => WorkDecided'
  BY NextDecides, ServiceAssumption
<1>3. IInv /\ Unlocked /\ [Next]_vars => Unlocked'
  BY NextUnlocked
<1>. QED  BY <1>1, <1>2, <1>3, Invariant, PTL DEF Spec

-----------------------------------------------------------------------------
(* Commits. *)

\* The entries that join a timeline are those of one commit.
LEMMA JoiningEntries ==
  ASSUME IInv, WorkDecided, [Next]_vars, NEW r \in Requests,
         NEW i \in DOMAIN timeline'[r] \ DOMAIN timeline[r]
  PROVE  \E w \in Workers :
           /\ Commit(w) /\ tx[w].req = r /\ Decided(tx[w])
           /\ \E j \in DOMAIN tx[w].log :
                timeline'[r][i].kind = tx[w].log[j] /\ timeline'[r][i].by = tx[w].id
<1>1. PICK w \in Workers : Commit(w)
  <2>1. timeline' # timeline
    OBVIOUS
  <2>2. CASE UNCHANGED vars
    BY <2>1, <2>2 DEF vars
  <2>3. ASSUME NEW w \in Workers, NEW q \in Requests, NEW id \in Identities, Call(w, q, id)
        PROVE  timeline' = timeline
    BY <2>3 DEF Call, Update, UpdateReviewers, ExecuteAction, Delete, SetLock, Comment,
       Begin
  <2>. QED  BY <2>1, <2>2, <2>3 DEF Next, Create, Rollback
<1>. DEFINE t == tx[w]
<1>2. /\ t \in Tx /\ t.req \in Requests /\ Decided(t)
      /\ timeline' = [timeline EXCEPT ![t.req] = @ \o Entries(t)]
  BY <1>1, CommitEffect DEF WorkDecided, Commit
<1>3. t.req = r
  BY <1>2 DEF IInv, TypeOK
<1>. DEFINE s == timeline[r]
<1>4. timeline'[r] = s \o Entries(t) /\ s \in Seq(Entry)
  BY <1>2, <1>3 DEF IInv, TypeOK
<1>. HIDE DEF t, s
<1>5. /\ DOMAIN (s \o Entries(t)) = 1..(Len(s) + Len(t.log))
      /\ DOMAIN s = 1..Len(s)
      /\ Len(s) \in Nat /\ Len(t.log) \in Nat
      /\ \A j \in 1..Len(t.log) :
           /\ (s \o Entries(t))[Len(s) + j].kind = t.log[j]
           /\ (s \o Entries(t))[Len(s) + j].by = t.id
  BY <1>2, <1>4, Appended
<1>6. i \in DOMAIN (s \o Entries(t)) \ DOMAIN s
  BY <1>4 DEF s
<1>7. PICK j \in 1..Len(t.log) : i = Len(s) + j
  <2>1. i - Len(s) \in 1..Len(t.log) /\ i = Len(s) + (i - Len(s))
    BY <1>5, <1>6
  <2>. QED  BY <2>1
<1>8. j \in DOMAIN t.log
  BY <1>2, <1>7 DEF Tx
<1>. QED  BY <1>1, <1>2, <1>3, <1>4, <1>5, <1>7, <1>8 DEF t

\* What a commit of a row that exists leaves is what its unit of work decided.
LEMMA CommitFromSnap ==
  ASSUME IInv, NEW w \in Workers, Commit(w), NEW r \in Requests, tx[w].req = r,
         tx[w].writes
  PROVE  /\ row[r] = tx[w].snap
         /\ row'[r].reviewers = tx[w].new.reviewers
         /\ row'[r].receiver = tx[w].new.receiver
         /\ row'[r].locked = tx[w].new.locked
         /\ tx[w] # NoTx /\ tx'[w] = NoTx
<1>1. /\ tx[w] \in Tx /\ row[r] = tx[w].snap /\ tx' = [tx EXCEPT ![w] = NoTx]
      /\ row' = [row EXCEPT ![r] = [tx[w].new EXCEPT !.version = tx[w].snap.version + 1]]
  BY CommitEffect
<1>2. row'[r] = [tx[w].new EXCEPT !.version = tx[w].snap.version + 1]
  BY <1>1 DEF IInv, TypeOK
<1>3. tx[w].new \in Row
  BY <1>1 DEF Tx
<1>4. tx[w] # NoTx /\ tx'[w] = NoTx
  BY <1>1 DEF Commit, IInv, TypeOK
<1>. QED  BY <1>1, <1>2, <1>3, <1>4 DEF Row

\* An entry about a lock joins the timeline in the commit that flips the lock.
THEOREM LocksAreLogged == Spec => LockEntriesFlip
<1>1. ASSUME IInv, WorkDecided, [Next]_vars, NEW r \in Requests,
             NEW i \in DOMAIN timeline'[r] \ DOMAIN timeline[r]
      PROVE  LET kind == timeline'[r][i].kind IN
             /\ kind = "locked"   => ~row[r].locked /\ row'[r].locked
             /\ kind = "unlocked" => row[r].locked /\ ~row'[r].locked
  <2>1. PICK w \in Workers :
          /\ Commit(w) /\ tx[w].req = r /\ Decided(tx[w])
          /\ \E j \in DOMAIN tx[w].log :
               timeline'[r][i].kind = tx[w].log[j] /\ timeline'[r][i].by = tx[w].id
    BY <1>1, JoiningEntries
  <2>2. tx[w].writes =>
          row[r].locked = tx[w].snap.locked /\ row'[r].locked = tx[w].new.locked
    BY <1>1, <2>1, CommitFromSnap
  <2>. QED  BY <2>1, <2>2 DEF Decided
<1>2. IInv /\ WorkDecided /\ [Next]_vars =>
        [\A r \in Requests :
           \A i \in DOMAIN timeline'[r] \ DOMAIN timeline[r] :
             LET kind == timeline'[r][i].kind IN
             /\ kind = "locked"   => ~row[r].locked /\ row'[r].locked
             /\ kind = "unlocked" => row[r].locked /\ ~row'[r].locked]_vars
  BY <1>1
<1>. QED  BY <1>2, DecidedInvariant, PTL DEF Spec, LockEntriesFlip

\* A change of the reviewers of a row that exists is that of one commit, which
\* decided it on the row it replaces.
LEMMA ReviewersChange ==
  ASSUME IInv, WorkDecided, [Next]_vars, NEW r \in Requests,
         row[r].version > 0, row'[r].reviewers # row[r].reviewers
  PROVE  \E w \in Workers :
           /\ Commit(w) /\ tx[w].req = r /\ tx[w].writes
           /\ Decided(tx[w]) /\ tx[w].new.reviewers # tx[w].snap.reviewers
<1>1. row[r].status # NoStatus /\ row'[r] # row[r]
  BY DEF IInv, RowsCreated
<1>2. PICK w \in Workers : Commit(w) /\ tx[w].writes /\ tx[w].req = r
  BY <1>1, RowChanges
<1>3. tx[w].new.reviewers # tx[w].snap.reviewers /\ Decided(tx[w])
  BY <1>2, CommitFromSnap DEF WorkDecided
<1>. QED  BY <1>2, <1>3

\* Reviewers change only in a commit that logs it, by someone who may accept the
\* request as that commit leaves it.
THEOREM ReviewersAreLogged == Spec => ReviewersChangeLogged
<1>1. ASSUME IInv, WorkDecided, [Next]_vars, NEW r \in Requests,
             row[r].version > 0, row'[r].reviewers # row[r].reviewers
      PROVE  \E i \in DOMAIN timeline'[r] \ DOMAIN timeline[r] :
               /\ timeline'[r][i].kind = "reviewers_updated"
               /\ timeline'[r][i].by \in CanActionAccept(row'[r])
  <2>1. PICK w \in Workers :
          /\ Commit(w) /\ tx[w].req = r /\ tx[w].writes
          /\ Decided(tx[w]) /\ tx[w].new.reviewers # tx[w].snap.reviewers
    BY <1>1, ReviewersChange
  <2>. DEFINE t == tx[w]
              s == timeline[r]
  <2>2. PICK j \in DOMAIN t.log :
          t.log[j] = "reviewers_updated" /\ t.id \in CanActionAccept(t.new)
    BY <2>1 DEF Decided
  <2>3. t \in Tx /\ timeline'[r] = s \o Entries(t) /\ s \in Seq(Entry)
    BY <1>1, <2>1, CommitEffect DEF IInv, TypeOK
  <2>4. CanActionAccept(row'[r]) = CanActionAccept(t.new)
    BY <1>1, <2>1, CommitFromSnap DEF CanActionAccept, Receiver
  <2>. HIDE DEF t, s
  <2>5. /\ DOMAIN (s \o Entries(t)) = 1..(Len(s) + Len(t.log))
        /\ DOMAIN s = 1..Len(s)
        /\ Len(s) \in Nat /\ Len(t.log) \in Nat
        /\ \A k \in 1..Len(t.log) :
             /\ (s \o Entries(t))[Len(s) + k].kind = t.log[k]
             /\ (s \o Entries(t))[Len(s) + k].by = t.id
    BY <2>3, Appended
  <2>6. j \in 1..Len(t.log)
    BY <2>2, <2>3 DEF Tx
  <2>7. Len(s) + j \in DOMAIN timeline'[r] \ DOMAIN timeline[r]
    <3>1. Len(s) + j \in 1..(Len(s) + Len(t.log)) /\ Len(s) + j \notin 1..Len(s)
      BY <2>5, <2>6
    <3>2. timeline'[r] = s \o Entries(t) /\ timeline[r] = s
      BY <2>3 DEF s
    <3>. QED  BY <2>5, <3>1, <3>2
  <2>8. /\ timeline'[r][Len(s) + j].kind = "reviewers_updated"
        /\ timeline'[r][Len(s) + j].by \in CanActionAccept(row'[r])
    BY <2>2, <2>3, <2>4, <2>5, <2>6
  <2>. QED  BY <2>7, <2>8
<1>2. IInv /\ WorkDecided /\ [Next]_vars =>
        [\A r \in Requests :
           row[r].version > 0 /\ row'[r].reviewers # row[r].reviewers =>
             \E i \in DOMAIN timeline'[r] \ DOMAIN timeline[r] :
               /\ timeline'[r][i].kind = "reviewers_updated"
               /\ timeline'[r][i].by \in CanActionAccept(row'[r])]_vars
  BY <1>1
<1>. QED  BY <1>2, DecidedInvariant, PTL DEF Spec, ReviewersChangeLogged

\* While a request is locked its reviewers change only at the hands of
\* administrators, superusers and the system.
THEOREM LockKeepsReviewers == LockingEnabled => (Spec => LockHoldsReviewers)
<1>. SUFFICES ASSUME LockingEnabled  PROVE Spec => LockHoldsReviewers
  OBVIOUS
<1>1. ASSUME IInv, WorkDecided, Unlocked, [Next]_vars, NEW r \in Requests,
             row[r].locked, row'[r].reviewers # row[r].reviewers
      PROVE  \E w \in Workers :
               /\ tx[w] # NoTx /\ tx'[w] = NoTx /\ tx[w].req = r
               /\ tx[w].id \in Granted(Admins \cup SystemProcess)
  <2>1. row[r].version > 0
    BY <1>1 DEF Unlocked, IInv, TypeOK, Row, RowsCreated
  <2>2. PICK w \in Workers :
          /\ Commit(w) /\ tx[w].req = r /\ tx[w].writes
          /\ Decided(tx[w]) /\ tx[w].new.reviewers # tx[w].snap.reviewers
    BY <1>1, <2>1, ReviewersChange
  <2>3. tx[w].snap = row[r] /\ tx[w] # NoTx /\ tx'[w] = NoTx
    BY <1>1, <2>2, CommitFromSnap
  <2>. QED  BY <1>1, <2>2, <2>3 DEF Decided
<1>2. IInv /\ WorkDecided /\ Unlocked /\ [Next]_vars =>
        [\A r \in Requests :
           row[r].locked /\ row'[r].reviewers # row[r].reviewers =>
             \E w \in Workers :
               /\ tx[w] # NoTx /\ tx'[w] = NoTx /\ tx[w].req = r
               /\ tx[w].id \in Granted(Admins \cup SystemProcess)]_vars
  BY <1>1
<1>. QED  BY <1>2, DecidedInvariant, PTL DEF Spec, LockHoldsReviewers

=============================================================================
