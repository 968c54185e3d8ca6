-------------------------- MODULE SearchIndexProofs --------------------------
(***************************************************************************)
(* What holds of the search index for every number of workers, revisions   *)
(* and comments: its document is never ahead of the row, and it shows the  *)
(* row after every unit of work that no other one overlapped.              *)
(***************************************************************************)
EXTENDS SearchIndex, WellFoundedInduction, SequenceTheorems, TLAPS

\* The status a document shows for a row of this status.
Shown(status) == IF status = "deleted" THEN Absent ELSE status

\* The comments there are, and those to come, have been counted.
Counted ==
  /\ comments \subseteq 1 .. started
  /\ \A w \in Workers : work[w].phase = "open" => work[w].adds \subseteq 1 .. started

\* What is being sent has been dumped from a row that was loaded.
SendsDumps ==
  \A w \in Workers :
    work[w].phase = "sending" => work[w].version # 0 /\ work[w].ops # <<>>

\* The last operation of a unit of work dumps the status its commit leaves, and
\* a lone unit of work has read the row as it still is.
OpenEndsRight ==
  \A w \in Workers :
    work[w].phase = "open" =>
      LET t == work[w] IN
      /\ t.ops # <<>> /\ t.ops[Len(t.ops)] = Shown(t.status)
      /\ lone => t.snap = row /\ (~t.writes => t.status = row.status)

\* At most one unit of work is going on while lone holds.
OneAtATime ==
  lone => \A v, w \in Workers : work[v] # Idle /\ work[w] # Idle => v = w

\* A lone unit of work that has committed sends the row and the last reply as
\* they are, and has sent them when no operation is left.
IndexEndsRight ==
  lone => \A w \in Workers :
    work[w].phase \in {"indexing", "sending"} =>
      LET t == work[w] IN
      /\ t.ops # <<>> => t.ops[Len(t.ops)] = Shown(row.status)
      /\ t.phase = "sending" => t.last = LastReply
      /\ t.ops = <<>> => ShowsStatus /\ ShowsLastReply

IInv ==
  /\ TypeOK
  /\ Counted
  /\ SendsDumps
  /\ NeverAhead
  /\ OneAtATime
  /\ OpenEndsRight
  /\ IndexEndsRight
  /\ LoneWorkRefreshes

-----------------------------------------------------------------------------
(* Data. *)

\* A set of numbers within a bound has a largest one.
LEMMA LargestNumber ==
  ASSUME NEW bound \in Nat, NEW S, S \subseteq 1 .. bound, S # {}
  PROVE  Max(S) \in S /\ \A n \in S : Max(S) >= n
<1>. DEFINE T == {bound - n : n \in S}
<1>1. T \subseteq Nat /\ T # {}
  <2>1. \A n \in S : bound - n \in Nat
    OBVIOUS
  <2>2. T \subseteq Nat
    BY <2>1, Zenon
  <2>3. T # {}
    BY Zenon
  <2>. QED  BY <2>2, <2>3
<1>2. PICK t \in T : \A u \in T : <<u, t>> \notin OpToRel(<, Nat)
  <2>. HIDE DEF T
  <2>. QED  BY <1>1, NatLessThanWellFounded, WFMin
<1>3. \A u \in T : ~(u < t)
  BY <1>1, <1>2 DEF OpToRel
<1>4. PICK m \in S : t = bound - m
  OBVIOUS
<1>5. \A n \in S : m >= n
  BY <1>3, <1>4
<1>. QED  BY <1>5 DEF Max

\* The last reply is a comment that was counted, or there is none.
LEMMA LastReplyIsNumber ==
  ASSUME TypeOK, Counted
  PROVE  LastReply \in Nat
<1>1. CASE comments = {}
  BY <1>1 DEF LastReply
<1>2. CASE comments # {}
  <2>1. Max(comments) \in comments
    BY <1>2, LargestNumber DEF TypeOK, Counted
  <2>. DEFINE m == Max(comments)
  <2>2. m \in Nat /\ LastReply = m
    BY <1>2, <2>1 DEF TypeOK, LastReply
  <2>. QED  BY <2>2
<1>. QED  BY <1>1, <1>2

\* The phase of a unit of work tells which form its record has.
LEMMA PhaseTellsForm ==
  ASSUME TypeOK, NEW w \in Workers
  PROVE  /\ work[w].phase = "open" <=> work[w] \in Open
         /\ work[w].phase \in {"indexing", "sending"} <=> work[w] \in Indexing
         /\ work[w].phase \notin {"open", "indexing", "sending"} <=> work[w] = Idle
BY DEF TypeOK, Open, Indexing, Idle

\* A sequence with one more operation ends with that one.
LEMMA OneMore ==
  ASSUME NEW front \in Seq(Fields), NEW op \in Fields
  PROVE  /\ front \o <<op>> \in Seq(Fields)
         /\ front \o <<op>> # <<>>
         /\ (front \o <<op>>)[Len(front \o <<op>>)] = op
<1>1. <<op>> \in Seq(Fields) /\ Len(<<op>>) = 1 /\ <<op>>[1] = op
  OBVIOUS
<1>2. Len(front) \in Nat
  BY LenProperties
<1>. DEFINE last == <<op>>
            ops == front \o last
<1>. HIDE DEF last
<1>3. /\ ops \in Seq(Fields)
      /\ Len(ops) = Len(front) + 1
      /\ \A i \in 1 .. Len(front) + 1 :
           ops[i] = IF i <= Len(front) THEN front[i] ELSE last[i - Len(front)]
  BY <1>1, ConcatProperties DEF last
<1>. HIDE DEF ops
<1>4. Len(ops) # 0
  BY <1>2, <1>3
<1>5. ops # <<>>
  BY <1>3, <1>4, EmptySeq
<1>6. ops[Len(ops)] = last[1]
  BY <1>2, <1>3
<1>. QED  BY <1>1, <1>3, <1>5, <1>6 DEF ops, last

\* The operations of an action end with the request under its new status.
LEMMA ActionOpsEnd ==
  ASSUME NEW old \in Statuses, NEW new \in Statuses,
         NEW logs \in BOOLEAN, NEW commented \in BOOLEAN
  PROVE  LET ops == ActionOps(old, new, logs, commented)
         IN  ops \in Seq(Fields) /\ ops # <<>> /\ ops[Len(ops)] = new
<1>. DEFINE first == IF logs THEN <<old>> ELSE <<>>
            front == first \o <<new>>
<1>1. old \in Fields /\ new \in Fields
  BY DEF Fields
<1>2. first \in Seq(Fields)
  <2>1. <<old>> \in Seq(Fields) /\ <<>> \in Seq(Fields)
    BY <1>1
  <2>. QED  BY <2>1
<1>. HIDE DEF first
<1>3. front \in Seq(Fields) /\ front # <<>> /\ front[Len(front)] = new
  BY <1>1, <1>2, OneMore
<1>4. CASE commented
  <2>. HIDE DEF front
  <2>1. LET ops == front \o <<new>>
        IN  ops \in Seq(Fields) /\ ops # <<>> /\ ops[Len(ops)] = new
    BY <1>1, <1>3, OneMore
  <2>. QED  BY <1>4, <2>1 DEF ActionOps, front, first
<1>5. CASE ~commented
  <2>. HIDE DEF front
  <2>1. front \o <<>> = front
    BY <1>3, ConcatEmptySeq
  <2>. QED  BY <1>3, <1>5, <2>1 DEF ActionOps, front, first
<1>. QED  BY <1>4, <1>5

-----------------------------------------------------------------------------
(* The steps of a unit of work. *)

\* A call that begins as its arguments say keeps the invariant.
LEMMA BeginKeeps ==
  ASSUME IInv, NEW w \in Workers, NEW status \in Statuses, NEW writes \in BOOLEAN,
         NEW adds, NEW drops \in SUBSET Nat, NEW ops \in Seq(Fields),
         Begin(w, status, writes, adds, drops, ops),
         started' \in Nat, started <= started', adds \in SUBSET (1 .. started'),
         ops # <<>>, ops[Len(ops)] = Shown(status),
         ~writes => status = row.status
  PROVE  IInv'
<1>. DEFINE t == [phase |-> "open", snap |-> row, status |-> status,
                  writes |-> writes, adds |-> adds, drops |-> drops, ops |-> ops]
<1>1. /\ \A v \in Workers : v # w => work'[v] = work[v]
      /\ work'[w] = t
      /\ work[w] = Idle
      /\ UNCHANGED <<row, comments, doc>>
      /\ lone' = Quiet
  BY DEF Begin, IInv, TypeOK
<1>2. t \in Open /\ t.phase = "open"
  BY DEF Open, IInv, TypeOK
<1>3. TypeOK'
  <2>1. work' = [work EXCEPT ![w] = t]
    BY DEF Begin
  <2>2. work' \in [Workers -> Open \cup Indexing \cup {Idle}]
    BY <2>1, <1>2 DEF IInv, TypeOK
  <2>3. lone' \in BOOLEAN
    BY <1>1 DEF Quiet
  <2>. QED  BY <1>1, <2>2, <2>3 DEF IInv, TypeOK
<1>4. Counted'
  <2>1. comments' \subseteq 1 .. started'
    BY <1>1 DEF IInv, Counted, TypeOK
  <2>2. ASSUME NEW v \in Workers, work'[v].phase = "open"
        PROVE  work'[v].adds \subseteq 1 .. started'
    <3>1. CASE v = w
      BY <1>1, <3>1
    <3>2. CASE v # w
      BY <1>1, <2>2, <3>2 DEF IInv, Counted, TypeOK
    <3>. QED  BY <3>1, <3>2
  <2>. QED  BY <2>1, <2>2 DEF Counted
<1>5. /\ t.phase \notin {"indexing", "sending"} /\ t # Idle /\ t.snap = row
      /\ t.ops # <<>> /\ t.ops[Len(t.ops)] = Shown(t.status)
      /\ ~t.writes => t.status = row.status
  BY DEF Idle
<1>. HIDE DEF t
<1>6. SendsDumps' /\ NeverAhead'
  BY <1>1, <1>2 DEF IInv, SendsDumps, NeverAhead
<1>7. lone' => \A v \in Workers : v # w => work'[v] = Idle
  BY <1>1 DEF Quiet
<1>8. OneAtATime'
  BY <1>7 DEF OneAtATime
<1>9. OpenEndsRight'
  <2>1. Idle.phase = "idle"
    BY DEF Idle
  <2>2. ASSUME NEW v \in Workers, work'[v].phase = "open"
        PROVE  /\ work'[v].ops # <<>>
               /\ work'[v].ops[Len(work'[v].ops)] = Shown(work'[v].status)
               /\ lone' => /\ work'[v].snap = row'
                           /\ ~work'[v].writes => work'[v].status = row'.status
    <3>1. CASE v = w
      BY <1>1, <1>5, <3>1
    <3>2. CASE v # w
      BY <1>1, <1>7, <2>1, <2>2, <3>2 DEF IInv, OpenEndsRight
    <3>. QED  BY <3>1, <3>2
  <2>. QED  BY <2>2 DEF OpenEndsRight
<1>10. IndexEndsRight'
  <2>1. Idle.phase = "idle"
    BY DEF Idle
  <2>2. lone' => \A v \in Workers : work'[v].phase \notin {"indexing", "sending"}
    BY <1>1, <1>5, <1>7, <2>1
  <2>. QED  BY <2>2 DEF IndexEndsRight
<1>11. LoneWorkRefreshes'
  BY <1>1, <1>5 DEF LoneWorkRefreshes, Quiet
<1>. QED  BY <1>3, <1>4, <1>6, <1>8, <1>9, <1>10, <1>11 DEF IInv

\* A call that fails before its commit, or is cut short after it, keeps it.
LEMMA EndKeeps ==
  ASSUME IInv, NEW w \in Workers, work' = [work EXCEPT ![w] = Idle],
         lone' = FALSE, UNCHANGED <<row, comments, started, doc>>
  PROVE  IInv'
<1>1. /\ \A v \in Workers : v # w => work'[v] = work[v]
      /\ work'[w] = Idle
      /\ Idle.phase = "idle"
  BY DEF IInv, TypeOK, Idle
<1>2. TypeOK'
  BY DEF IInv, TypeOK
<1>3. Counted' /\ SendsDumps' /\ NeverAhead' /\ OpenEndsRight'
  BY <1>1 DEF IInv, Counted, SendsDumps, NeverAhead, OpenEndsRight
<1>4. OneAtATime' /\ IndexEndsRight' /\ LoneWorkRefreshes'
  BY DEF OneAtATime, IndexEndsRight, LoneWorkRefreshes
<1>. QED  BY <1>2, <1>3, <1>4 DEF IInv

\* A commit keeps it: a lone one leaves the row its last operation shows.
LEMMA CommitKeeps ==
  ASSUME IInv, NEW w \in Workers, Commit(w)
  PROVE  IInv'
<1>. DEFINE t == work[w]
            next == [phase |-> "indexing", version |-> 0, ops |-> t.ops, last |-> 0]
<1>1. t \in Open /\ t.phase = "open"
  BY PhaseTellsForm DEF IInv, Commit
<1>2. /\ \A v \in Workers : v # w => work'[v] = work[v]
      /\ work'[w] = next
      /\ UNCHANGED <<started, doc, lone>>
      /\ comments' = (comments \cup t.adds) \ t.drops
  BY DEF Commit, IInv, TypeOK
<1>3. next \in Indexing
  BY <1>1 DEF Open, Indexing
<1>4. /\ row' \in Row /\ row.version <= row'.version
      /\ t.writes => row'.status = t.status
      /\ ~t.writes => row' = row
  BY <1>1 DEF Commit, IInv, TypeOK, Open, Row, Numbers
<1>5. TypeOK'
  <2>1. work' \in [Workers -> Open \cup Indexing \cup {Idle}]
    BY <1>3 DEF Commit, IInv, TypeOK
  <2>2. comments' \in SUBSET Nat
    BY <1>1, <1>2 DEF IInv, TypeOK, Open
  <2>. QED  BY <1>2, <1>4, <2>1, <2>2 DEF IInv, TypeOK
<1>6. /\ next.phase = "indexing" /\ next.version = 0 /\ next.ops = t.ops
      /\ next # Idle /\ t # Idle
  BY <1>1 DEF Idle
<1>7. Counted'
  <2>1. t.adds \subseteq 1 .. started
    BY <1>1 DEF IInv, Counted
  <2>. HIDE DEF t, next
  <2>2. comments' \subseteq 1 .. started'
    BY <1>2, <2>1 DEF IInv, Counted
  <2>3. \A v \in Workers : work'[v].phase = "open" => work'[v].adds \subseteq 1 .. started'
    BY <1>2, <1>6 DEF IInv, Counted
  <2>. QED  BY <2>2, <2>3 DEF Counted
<1>8. lone => \A v \in Workers : v # w => work[v] = Idle
  BY <1>6 DEF IInv, OneAtATime
<1>9. lone => t.ops # <<>> /\ t.ops[Len(t.ops)] = Shown(row'.status)
  <2>1. /\ t.ops # <<>> /\ t.ops[Len(t.ops)] = Shown(t.status)
        /\ lone => (~t.writes => t.status = row.status)
    BY <1>1 DEF IInv, OpenEndsRight
  <2>. HIDE DEF t
  <2>. QED  BY <1>4, <2>1
<1>10. Idle.phase = "idle"
  BY DEF Idle
<1>. HIDE DEF next, t
<1>11. SendsDumps'
  BY <1>2, <1>6 DEF IInv, SendsDumps
<1>12. NeverAhead'
  <2>1. doc'.version <= row'.version
    BY <1>2, <1>4, <1>5 DEF IInv, NeverAhead, TypeOK, Row, Doc, Numbers
  <2>2. ASSUME NEW v \in Workers, work'[v].phase \in {"indexing", "sending"}
        PROVE  work'[v].version <= row'.version
    <3>1. CASE v = w
      BY <1>2, <1>4, <1>6, <3>1 DEF Row, Numbers
    <3>2. CASE v # w
      <4>1. work[v] \in Indexing /\ work'[v] = work[v]
        BY <1>2, <2>2, <3>2, PhaseTellsForm DEF IInv
      <4>2. work[v].version \in Nat /\ work[v].version <= row.version
        BY <4>1, <2>2 DEF IInv, NeverAhead, Indexing
      <4>. QED  BY <1>4, <4>1, <4>2 DEF IInv, TypeOK, Row, Numbers
    <3>. QED  BY <3>1, <3>2
  <2>. QED  BY <2>1, <2>2 DEF NeverAhead
<1>13. OneAtATime'
  BY <1>2, <1>8 DEF OneAtATime
<1>14. OpenEndsRight'
  BY <1>2, <1>6, <1>8, <1>10 DEF IInv, OpenEndsRight
<1>15. IndexEndsRight'
  BY <1>2, <1>6, <1>8, <1>9, <1>10 DEF IndexEndsRight
<1>16. LoneWorkRefreshes'
  BY <1>2, <1>6 DEF LoneWorkRefreshes, Quiet
<1>. QED  BY <1>5, <1>7, <1>11, <1>12, <1>13, <1>14, <1>15, <1>16 DEF IInv

\* A step of the index that leaves the document alone keeps it, if what remains
\* to be sent is what should be.
LEMMA IndexStepKeeps ==
  ASSUME IInv, NEW w \in Workers, NEW next \in Indexing,
         work[w].phase \in {"indexing", "sending"},
         work' = [work EXCEPT ![w] = next],
         UNCHANGED <<row, comments, started, lone>>,
         doc' \in Doc, doc'.version <= row.version,
         next.phase = "sending" => next.version # 0 /\ next.ops # <<>>,
         next.version <= row.version,
         lone => /\ next.ops # <<>> => next.ops[Len(next.ops)] = Shown(row.status)
                 /\ next.phase = "sending" => next.last = LastReply
                 /\ next.ops = <<>> => ShowsStatus' /\ ShowsLastReply'
  PROVE  IInv'
<1>1. /\ \A v \in Workers : v # w => work'[v] = work[v]
      /\ work'[w] = next
      /\ LastReply' = LastReply
  BY DEF IInv, TypeOK, LastReply
<1>2. /\ next.phase \in {"indexing", "sending"} /\ next.phase # "open"
      /\ next # Idle /\ work[w] # Idle /\ Idle.phase = "idle"
  BY DEF Indexing, Idle
<1>3. TypeOK'
  BY DEF IInv, TypeOK
<1>4. Counted' /\ SendsDumps' /\ NeverAhead'
  BY <1>1, <1>2 DEF IInv, Counted, SendsDumps, NeverAhead
<1>5. lone => \A v \in Workers : v # w => work[v] = Idle
  BY <1>2 DEF IInv, OneAtATime
<1>6. OneAtATime'
  BY <1>1, <1>5 DEF OneAtATime
<1>7. OpenEndsRight'
  BY <1>1, <1>2 DEF IInv, OpenEndsRight
<1>8. IndexEndsRight'
  BY <1>1, <1>2, <1>5 DEF IndexEndsRight
<1>9. LoneWorkRefreshes'
  BY <1>1, <1>2 DEF LoneWorkRefreshes, Quiet
<1>. QED  BY <1>3, <1>4, <1>6, <1>7, <1>8, <1>9 DEF IInv

\* Loading the row keeps it.
LEMMA LoadKeeps ==
  ASSUME IInv, NEW w \in Workers, Load(w)
  PROVE  IInv'
<1>. DEFINE t == work[w]
            next == [t EXCEPT !.version = row.version]
<1>1. t \in Indexing /\ t.phase = "indexing" /\ t.ops # <<>>
  BY PhaseTellsForm DEF IInv, Load
<1>2. /\ next \in Indexing /\ next.phase = "indexing" /\ next.ops = t.ops
      /\ next.version = row.version
  BY <1>1 DEF Indexing, IInv, TypeOK, Row, Numbers
<1>3. work' = [work EXCEPT ![w] = next] /\ UNCHANGED <<row, comments, started, doc, lone>>
  BY DEF Load, LoadedVersion
<1>4. /\ doc' \in Doc /\ doc'.version <= row.version
      /\ next.version <= row.version
      /\ lone => t.ops[Len(t.ops)] = Shown(row.status)
  BY <1>1, <1>2, <1>3 DEF IInv, NeverAhead, IndexEndsRight, TypeOK, Row, Numbers
<1>. HIDE DEF next
<1>. QED  BY <1>1, <1>2, <1>3, <1>4, IndexStepKeeps

\* Dumping a record keeps it.
LEMMA DumpKeeps ==
  ASSUME IInv, NEW w \in Workers, Dump(w)
  PROVE  IInv'
<1>. DEFINE t == work[w]
            next == [t EXCEPT !.phase = "sending", !.last = LastReply]
<1>1. t \in Indexing /\ t.phase = "indexing" /\ t.version # 0 /\ t.ops # <<>>
  BY PhaseTellsForm DEF IInv, Dump
<1>2. /\ next \in Indexing /\ next.phase = "sending" /\ next.ops = t.ops
      /\ next.version = t.version /\ next.last = LastReply
  BY <1>1, LastReplyIsNumber DEF Indexing, IInv
<1>3. work' = [work EXCEPT ![w] = next] /\ UNCHANGED <<row, comments, started, doc, lone>>
  BY DEF Dump
<1>4. /\ doc' \in Doc /\ doc'.version <= row.version
      /\ t.version <= row.version
      /\ lone => t.ops[Len(t.ops)] = Shown(row.status)
  BY <1>1, <1>3 DEF IInv, NeverAhead, IndexEndsRight, TypeOK
<1>. HIDE DEF next
<1>. QED  BY <1>1, <1>2, <1>3, <1>4, IndexStepKeeps

\* Sending a document keeps it: the last one of a lone unit of work is right.
LEMMA SendKeeps ==
  ASSUME IInv, NEW w \in Workers, Send(w)
  PROVE  IInv'
<1>. DEFINE t == work[w]
            rest == Tail(t.ops)
            next == [t EXCEPT !.phase = "indexing", !.ops = rest]
<1>1. /\ t \in Indexing /\ t.phase = "sending"
      /\ t.version # 0 /\ t.ops # <<>> /\ t.version <= row.version
      /\ t.version \in Nat /\ t.ops \in Seq(Fields) /\ t.last \in Nat
  BY PhaseTellsForm DEF IInv, Send, SendsDumps, NeverAhead, Indexing
<1>2. /\ next \in Indexing /\ next.phase = "indexing" /\ next.ops = rest
      /\ next.version = t.version
  <2>1. rest \in Seq(Fields)
    <3>. HIDE DEF t
    <3>. QED  BY <1>1
  <2>. HIDE DEF rest
  <2>. QED  BY <1>1, <2>1 DEF Indexing
<1>3. work' = [work EXCEPT ![w] = next] /\ UNCHANGED <<row, comments, started, lone>>
  BY DEF Send
<1>4. doc' = [version |-> t.version, status |-> Head(t.ops),
              last |-> IF Head(t.ops) = Absent THEN 0 ELSE t.last]
  BY DEF Send
<1>5. lone => t.ops[Len(t.ops)] = Shown(row.status) /\ t.last = LastReply
  BY <1>1 DEF IInv, IndexEndsRight
<1>6. LastReply' = LastReply
  BY <1>3 DEF LastReply
<1>. HIDE DEF next, t
<1>7. doc' \in Doc /\ doc'.version <= row.version
  BY <1>1, <1>4 DEF Doc, Numbers
<1>8. ASSUME lone, Tail(t.ops) # <<>>
      PROVE  Tail(t.ops)[Len(Tail(t.ops))] = Shown(row.status)
  BY <1>1, <1>5, <1>8
<1>9. ASSUME lone, Tail(t.ops) = <<>>
      PROVE  ShowsStatus' /\ ShowsLastReply'
  <2>. DEFINE ops == t.ops
  <2>0. ops \in Seq(Fields) /\ ops # <<>> /\ Tail(ops) = <<>>
    BY <1>1, <1>9
  <2>1. Len(ops) = 1 /\ Head(ops) = ops[1]
    <3>. HIDE DEF ops
    <3>1. Len(Tail(ops)) = 0
      BY <2>0, EmptySeq
    <3>2. Len(ops) \in Nat /\ Len(Tail(ops)) = Len(ops) - 1
      BY <2>0, HeadTailProperties
    <3>3. Head(ops) = ops[1]
      OBVIOUS
    <3>. QED  BY <3>1, <3>2, <3>3
  <2>2. doc'.status = Shown(row'.status)
    BY <1>3, <1>4, <1>5, <1>9, <2>1
  <2>3. doc'.status # Absent => doc'.last = LastReply'
    BY <1>4, <1>5, <1>6, <1>9
  <2>. QED  BY <2>2, <2>3 DEF ShowsStatus, ShowsLastReply, Shown
<1>10. work[w].phase \in {"indexing", "sending"}
  BY <1>1 DEF t
<1>. QED  BY <1>1, <1>2, <1>3, <1>7, <1>8, <1>9, <1>10, IndexStepKeeps

\* A unit of work that ends well leaves a document that shows the row.
LEMMA FinishKeeps ==
  ASSUME IInv, NEW w \in Workers, Finish(w)
  PROVE  IInv'
<1>1. /\ \A v \in Workers : v # w => work'[v] = work[v]
      /\ work'[w] = Idle
      /\ Idle.phase = "idle"
      /\ UNCHANGED <<row, comments, started, doc, lone>>
      /\ work[w].phase = "indexing" /\ work[w].ops = <<>>
      /\ LastReply' = LastReply
  BY DEF Finish, IInv, TypeOK, Idle, LastReply
<1>2. TypeOK'
  BY DEF Finish, IInv, TypeOK
<1>3. Counted' /\ SendsDumps' /\ NeverAhead' /\ OpenEndsRight' /\ OneAtATime'
  BY <1>1 DEF IInv, Counted, SendsDumps, NeverAhead, OpenEndsRight, OneAtATime
<1>4. (ShowsStatus' <=> ShowsStatus) /\ (ShowsLastReply' <=> ShowsLastReply)
  BY <1>1 DEF ShowsStatus, ShowsLastReply
<1>5. IndexEndsRight'
  BY <1>1, <1>4 DEF IInv, IndexEndsRight
<1>6. LoneWorkRefreshes'
  BY <1>1, <1>4 DEF IInv, IndexEndsRight, LoneWorkRefreshes
<1>. QED  BY <1>2, <1>3, <1>5, <1>6 DEF IInv

-----------------------------------------------------------------------------
(* The steps of the specification. *)

\* A unit of work with one operation ends with it.
LEMMA OneOperation ==
  ASSUME NEW op \in Fields
  PROVE  <<op>> \in Seq(Fields) /\ <<op>> # <<>> /\ <<op>>[Len(<<op>>)] = op
OBVIOUS

\* Every call of a client begins a unit of work that ends right.
LEMMA CallKeeps ==
  ASSUME IInv, NEW w \in Workers, Call(w)
  PROVE  IInv'
<1>1. /\ row.status \in Statuses /\ Statuses \subseteq Fields /\ Absent \in Fields
      /\ started \in Nat /\ comments \subseteq Nat
  BY DEF IInv, TypeOK, Row, Fields
<1>2. /\ {} \in SUBSET Nat
      /\ \A n \in Nat : {} \in SUBSET (1 .. n) /\ {n + 1} \in SUBSET (1 .. n + 1)
  OBVIOUS
<1>3. CASE ExecuteAction(w)
  <2>. DEFINE new == NewStatus(row.status)
              ops(commented) == ActionOps(row.status, new, new = "closed", commented)
  <2>1. new \in Statuses /\ Shown(new) = new
    BY DEF NewStatus, Statuses, Shown
  <2>2. \A commented \in BOOLEAN :
          /\ ops(commented) \in Seq(Fields) /\ ops(commented) # <<>>
          /\ ops(commented)[Len(ops(commented))] = new
    BY <1>1, <2>1, ActionOpsEnd
  <2>3. \/ Begin(w, new, TRUE, {}, {}, ops(FALSE)) /\ UNCHANGED started
        \/ /\ Begin(w, new, TRUE, {started + 1}, {}, ops(TRUE))
           /\ started' = started + 1
    BY <1>3 DEF ExecuteAction
  <2>. HIDE DEF new, ops
  <2>4. CASE Begin(w, new, TRUE, {}, {}, ops(FALSE)) /\ UNCHANGED started
    <3>1. started' \in Nat /\ started <= started' /\ {} \in SUBSET (1 .. started')
      BY <1>1, <2>4
    <3>. QED  BY <1>2, <2>1, <2>2, <2>4, <3>1, BeginKeeps
  <2>5. CASE Begin(w, new, TRUE, {started + 1}, {}, ops(TRUE)) /\ started' = started + 1
    <3>1. started' \in Nat /\ started <= started' /\ {started + 1} \in SUBSET (1 .. started')
      BY <1>1, <2>5
    <3>. QED  BY <1>2, <2>1, <2>2, <2>5, <3>1, BeginKeeps
  <2>. QED  BY <2>3, <2>4, <2>5
<1>4. CASE Update(w)
  <2>1. /\ Begin(w, row.status, TRUE, {}, {}, <<row.status>>)
        /\ row.status # "deleted" /\ UNCHANGED started
    BY <1>4 DEF Update, Begin
  <2>2. Shown(row.status) = row.status
    BY <2>1 DEF Shown
  <2>3. started' \in Nat /\ started <= started' /\ {} \in SUBSET (1 .. started')
    BY <1>1, <2>1
  <2>. QED  BY <1>1, <1>2, <2>1, <2>2, <2>3, OneOperation, BeginKeeps
<1>5. CASE Delete(w)
  <2>1. Begin(w, "deleted", TRUE, {}, {}, <<Absent>>) /\ UNCHANGED started
    BY <1>5 DEF Delete
  <2>2. Shown("deleted") = Absent /\ "deleted" \in Statuses
    BY DEF Shown, Statuses
  <2>3. started' \in Nat /\ started <= started' /\ {} \in SUBSET (1 .. started')
    BY <1>1, <2>1
  <2>. QED  BY <1>1, <1>2, <2>1, <2>2, <2>3, OneOperation, BeginKeeps
<1>6. CASE Comment(w)
  <2>1. /\ Begin(w, row.status, FALSE, {started + 1}, {}, <<row.status>>)
        /\ row.status # "deleted" /\ started' = started + 1
    BY <1>6 DEF Comment, ReindexOps, Begin
  <2>2. Shown(row.status) = row.status
    BY <2>1 DEF Shown
  <2>3. started' \in Nat /\ started <= started' /\ {started + 1} \in SUBSET (1 .. started')
    BY <1>1, <2>1
  <2>. QED  BY <1>1, <1>2, <2>1, <2>2, <2>3, OneOperation, BeginKeeps
<1>7. CASE DeleteComment(w)
  <2>1. PICK c \in comments : Begin(w, row.status, FALSE, {}, {c}, <<row.status>>)
    BY <1>7 DEF DeleteComment, ReindexOps
  <2>2. Shown(row.status) = row.status /\ UNCHANGED started /\ {c} \in SUBSET Nat
    BY <1>1, <1>7, <2>1 DEF Shown, DeleteComment, Begin
  <2>3. started' \in Nat /\ started <= started' /\ {} \in SUBSET (1 .. started')
    BY <1>1, <2>2
  <2>. QED  BY <1>1, <1>2, <2>1, <2>2, <2>3, OneOperation, BeginKeeps
<1>. QED  BY <1>3, <1>4, <1>5, <1>6, <1>7 DEF Call

\* At first the document shows the draft.
LEMMA InitHolds ==
  ASSUME Init  PROVE IInv
<1>1. /\ row \in Row /\ doc \in Doc /\ work \in [Workers -> {Idle}]
      /\ row.version = 1 /\ doc.version = 1
      /\ row.status = "created" /\ doc.status = "created" /\ doc.last = 0
  BY DEF Init, Row, Doc, Statuses, Fields, Numbers
<1>2. TypeOK
  BY <1>1 DEF Init, TypeOK
<1>3. \A w \in Workers : work[w] = Idle /\ work[w].phase = "idle"
  BY <1>1 DEF Idle
<1>4. Counted /\ SendsDumps /\ NeverAhead /\ OneAtATime /\ OpenEndsRight /\ IndexEndsRight
  BY <1>1, <1>3 DEF Init, Counted, SendsDumps, NeverAhead, OneAtATime,
                    OpenEndsRight, IndexEndsRight
<1>5. LoneWorkRefreshes
  BY <1>1 DEF Init, LoneWorkRefreshes, ShowsStatus, ShowsLastReply, LastReply
<1>. QED  BY <1>2, <1>4, <1>5 DEF IInv

\* Every step keeps the invariant, one that does nothing included.
LEMMA NextKeeps ==
  ASSUME IInv, [Next]_vars
  PROVE  IInv'
<1>1. CASE UNCHANGED vars
  BY <1>1 DEF vars, IInv, TypeOK, Counted, SendsDumps, NeverAhead, OneAtATime,
              OpenEndsRight, IndexEndsRight, LoneWorkRefreshes, ShowsStatus,
              ShowsLastReply, LastReply, Quiet
<1>2. ASSUME NEW w \in Workers,
             Call(w) \/ Commit(w) \/ Rollback(w) \/ Index(w) \/ Crash(w)
      PROVE  IInv'
  <2>1. CASE Rollback(w) \/ Conflict(w) \/ Crash(w)
    BY <2>1, EndKeeps DEF Rollback, Conflict, Crash
  <2>. QED  BY <1>2, <2>1, CallKeeps, CommitKeeps, LoadKeeps, DumpKeeps, SendKeeps,
               FinishKeeps DEF Index
<1>. QED  BY <1>1, <1>2 DEF Next

\* The invariant holds throughout.
LEMMA Invariant == Spec => []IInv
<1>1. Init => IInv
  BY InitHolds
<1>2. IInv /\ [Next]_vars => IInv'
  BY NextKeeps
<1>. QED  BY <1>1, <1>2, PTL DEF Spec

-----------------------------------------------------------------------------

\* Rows, documents and units of work keep their types.
THEOREM TypeCorrect == Spec => []TypeOK
<1>1. IInv => TypeOK
  BY DEF IInv
<1>. QED  BY <1>1, Invariant, PTL

\* The document never has a revision its row has not reached (external_gte).
THEOREM DocumentNeverAhead == Spec => []NeverAhead
<1>1. IInv => NeverAhead
  BY DEF IInv
<1>. QED  BY <1>1, Invariant, PTL

\* After a unit of work that no other one overlapped and that ended well, the
\* document shows the row and its last reply, whatever happened before.
THEOREM LoneWorkHeals == Spec => []LoneWorkRefreshes
<1>1. IInv => LoneWorkRefreshes
  BY DEF IInv
<1>. QED  BY <1>1, Invariant, PTL

=============================================================================
