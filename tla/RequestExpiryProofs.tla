------------------------- MODULE RequestExpiryProofs -------------------------
(***************************************************************************)
(* Proofs about RequestExpiry, for every set of requests, of processes     *)
(* that serve calls and that run the task, and any bounds.                 *)
(*                                                                         *)
(* That nothing is decided twice rests on what an open unit of work has    *)
(* read: at the version the row still has, its write is a move.  That      *)
(* searches are right rests on the last copy a unit of work sends and on   *)
(* whoever has yet to send the last write.                                 *)
(***************************************************************************)
EXTENDS RequestExpiry, SequenceTheorems, TLAPS

LastOf(ops) == ops[Len(ops)]

\* An open unit of work is not ahead of the row.  At the version it has read, and
\* so always if it is alone, it leaves the status or moves it; the last copy it
\* will send is of what it leaves.
OpenRight(t) ==
  /\ t.ops # <<>>
  /\ LastOf(t.ops) = IsOpen(t.to)
  /\ t.version <= version[t.request]
  /\ t.version = version[t.request] =>
       \/ t.to = status[t.request]
       \/ t.writes /\ <<status[t.request], t.to>> \in Lifecycle!Transitions
  /\ lone[t.request] => t.version = version[t.request]

\* What has committed has loaded no version the row does not have; if it is alone
\* the last copy it sends is of the row.
IndexRight(t) ==
  /\ t.ops # <<>>
  /\ t.version <= version[t.request]
  /\ lone[t.request] => LastOf(t.ops) = IsOpen(status[t.request])

WorkRight ==
  \A p \in Processes :
    /\ work[p].phase = "open" => OpenRight(work[p])
    /\ work[p].phase = "indexing" => IndexRight(work[p])

\* While lone[r] holds, one process at most works on r.
OneAtATime ==
  \A r \in Requests : \A p, q \in Processes :
    lone[r] /\ WorksOn(p, r) /\ WorksOn(q, r) => p = q

DocBehind == \A r \in Requests : doc[r].version <= version[r]

\* p has yet to send the version that r has now.
Tells(p, r) ==
  /\ work[p].phase = "indexing"
  /\ work[p].request = r
  /\ work[p].version \in {0, version[r]}

\* Unless a process died, the index knows the last version or will.
Told ==
  faults = 0 =>
    \A r \in Requests :
      doc[r].version = version[r] \/ \E p \in Processes : Tells(p, r)

\* Alone, a unit of work leaves a document that is right.
Found ==
  \A r \in Requests : Untouched(r) /\ lone[r] => doc[r].open = IsOpen(status[r])

IInv ==
  /\ TypeOK
  /\ WorkRight
  /\ OneAtATime
  /\ DocBehind
  /\ Told
  /\ Found

-----------------------------------------------------------------------------
(* Data. *)

\* The phase of a unit of work tells which form its record has.
LEMMA PhaseTellsForm ==
  ASSUME TypeOK, NEW p \in Processes
  PROVE  /\ work[p].phase = "open" <=> work[p] \in Open
         /\ work[p].phase = "indexing" <=> work[p] \in Indexing
         /\ work[p].phase \notin {"open", "indexing"} <=> work[p] = Idle
         /\ work[p] # Idle =>
              /\ work[p].request \in Requests /\ work[p].version \in Nat
              /\ work[p].ops \in Seq(BOOLEAN)
BY DEF TypeOK, Open, Indexing, Idle

\* A sequence with one more operation ends with that one.
LEMMA OneMore ==
  ASSUME NEW front \in Seq(BOOLEAN), NEW op \in BOOLEAN
  PROVE  /\ front \o <<op>> \in Seq(BOOLEAN)
         /\ front \o <<op>> # <<>>
         /\ LastOf(front \o <<op>>) = op
<1>1. <<op>> \in Seq(BOOLEAN) /\ Len(<<op>>) = 1 /\ <<op>>[1] = op
  OBVIOUS
<1>2. Len(front) \in Nat
  BY LenProperties
<1>. DEFINE last == <<op>>
            ops == front \o last
<1>. HIDE DEF last
<1>3. /\ ops \in Seq(BOOLEAN)
      /\ Len(ops) = Len(front) + 1
      /\ \A i \in 1 .. Len(front) + 1 :
           ops[i] = IF i <= Len(front) THEN front[i] ELSE last[i - Len(front)]
  BY <1>1, ConcatProperties DEF last
<1>. HIDE DEF ops
<1>4. Len(ops) # 0
  BY <1>2, <1>3
<1>5. ops # <<>>
  BY <1>3, <1>4, EmptySeq
<1>6. ops[Len(ops)] = last[1]
  BY <1>2, <1>3
<1>. QED  BY <1>1, <1>3, <1>5, <1>6 DEF ops, last, LastOf

\* The operations of an action end with the request under its new status.
LEMMA ActionOpsEnd ==
  ASSUME NEW old, NEW new, NEW logs \in BOOLEAN, NEW commented \in BOOLEAN
  PROVE  LET ops == ActionOps(old, new, logs, commented)
         IN  ops \in Seq(BOOLEAN) /\ ops # <<>> /\ LastOf(ops) = IsOpen(new)
<1>. DEFINE first == IF logs THEN <<IsOpen(old)>> ELSE <<>>
            front == first \o <<IsOpen(new)>>
<1>1. IsOpen(old) \in BOOLEAN /\ IsOpen(new) \in BOOLEAN
  BY DEF IsOpen
<1>2. first \in Seq(BOOLEAN)
  <2>1. <<IsOpen(old)>> \in Seq(BOOLEAN) /\ <<>> \in Seq(BOOLEAN)
    BY <1>1
  <2>. QED  BY <2>1
<1>. HIDE DEF first
<1>3. front \in Seq(BOOLEAN) /\ front # <<>> /\ LastOf(front) = IsOpen(new)
  BY <1>1, <1>2, OneMore
<1>4. CASE commented
  <2>. HIDE DEF front
  <2>1. LET ops == front \o <<IsOpen(new)>>
        IN  ops \in Seq(BOOLEAN) /\ ops # <<>> /\ LastOf(ops) = IsOpen(new)
    BY <1>1, <1>3, OneMore
  <2>. QED  BY <1>4, <2>1 DEF ActionOps, front, first
<1>5. CASE ~commented
  <2>. HIDE DEF front
  <2>1. front \o <<>> = front
    BY <1>3, ConcatEmptySeq
  <2>. QED  BY <1>3, <1>5, <2>1 DEF ActionOps, front, first
<1>. QED  BY <1>4, <1>5

\* A single operation.
LEMMA OneOp ==
  ASSUME NEW op \in BOOLEAN
  PROVE  <<op>> \in Seq(BOOLEAN) /\ <<op>> # <<>> /\ LastOf(<<op>>) = op
  BY DEF LastOf

\* What is left after an operation ends as before; the last operation is the head.
LEMMA OneLess ==
  ASSUME NEW ops \in Seq(BOOLEAN), ops # <<>>
  PROVE  /\ Head(ops) \in BOOLEAN /\ Tail(ops) \in Seq(BOOLEAN)
         /\ Tail(ops) = <<>> => Head(ops) = LastOf(ops)
         /\ Tail(ops) # <<>> => LastOf(Tail(ops)) = LastOf(ops)
<1>1. /\ Tail(ops) \in Seq(BOOLEAN) /\ Len(Tail(ops)) = Len(ops) - 1
      /\ \A i \in 1 .. Len(Tail(ops)) : Tail(ops)[i] = ops[i + 1]
      /\ Head(ops) \in BOOLEAN /\ Head(ops) = ops[1]
      /\ Len(ops) \in Nat
  BY HeadTailProperties
<1>2. CASE Tail(ops) = <<>>
  <2>1. Len(Tail(ops)) = 0
    BY <1>2, EmptySeq
  <2>. DEFINE n == Len(ops)
  <2>2. n \in Nat /\ 0 = n - 1
    BY <1>1, <2>1
  <2>. HIDE DEF n
  <2>3. n = 1
    BY <2>2
  <2>. QED  BY <1>1, <1>2, <2>3 DEF LastOf, n
<1>3. CASE Tail(ops) # <<>>
  <2>1. Len(Tail(ops)) # 0
    BY <1>1, <1>3, EmptySeq
  <2>2. Tail(ops)[Len(Tail(ops))] = ops[Len(ops)]
    BY <1>1, <2>1
  <2>. QED  BY <1>1, <1>3, <2>2 DEF LastOf
<1>. QED  BY <1>2, <1>3

-----------------------------------------------------------------------------
(* The steps of a unit of work. *)

\* A call that begins as its arguments say keeps the invariant.
LEMMA BeginKeeps ==
  ASSUME IInv, NEW p \in Processes, NEW r \in Requests, NEW to \in Statuses,
         NEW writes \in BOOLEAN, NEW ops \in Seq(BOOLEAN),
         Begin(p, r, to, writes, ops),
         left' \in [Tasks -> SUBSET Requests],
         ops # <<>>, LastOf(ops) = IsOpen(to),
         to = status[r] \/ (writes /\ <<status[r], to>> \in Lifecycle!Transitions)
  PROVE  IInv'
<1>. DEFINE t == [phase |-> "open", request |-> r, version |-> version[r],
                  to |-> to, writes |-> writes, ops |-> ops]
<1>1. /\ \A q \in Processes : q # p => work'[q] = work[q]
      /\ work'[p] = t
      /\ work[p] = Idle
      /\ UNCHANGED <<status, version, due, doc, faults>>
      /\ lone' \in [Requests -> BOOLEAN]
      /\ lone'[r] = Untouched(r)
      /\ \A q \in Requests : q # r => lone'[q] = lone[q]
  <2>1. Untouched(r) \in BOOLEAN
    BY DEF Untouched
  <2>. HIDE DEF t
  <2>2. work' = [work EXCEPT ![p] = t] /\ work[p] = Idle
    BY DEF Begin, t
  <2>3. lone' = [lone EXCEPT ![r] = Untouched(r)]
    BY DEF Begin
  <2>. QED  BY <2>1, <2>2, <2>3 DEF Begin, IInv, TypeOK
<1>2. t \in Open /\ version[r] \in Nat
  BY DEF Open, IInv, TypeOK
<1>3. TypeOK'
  <2>1. work' = [work EXCEPT ![p] = t]
    BY DEF Begin
  <2>2. work' \in [Processes -> Open \cup Indexing \cup {Idle}]
    BY <2>1, <1>2 DEF IInv, TypeOK
  <2>. QED  BY <1>1, <2>2 DEF IInv, TypeOK
<1>4. /\ t.phase = "open" /\ t # Idle /\ t.request = r /\ t.version = version[r]
      /\ t.ops = ops /\ t.to = to /\ t.writes = writes
      /\ Idle.phase = "idle"
  BY DEF Idle
<1>. HIDE DEF t
<1>5. lone'[r] => \A q \in Processes : q # p => ~WorksOn(q, r)' /\ ~WorksOn(q, r)
  BY <1>1 DEF Untouched, WorksOn
<1>6. WorkRight'
  <2>1. OpenRight(work[p])'
    BY <1>1, <1>2, <1>4 DEF OpenRight
  <2>2. ASSUME NEW q \in Processes, q # p, work'[q].phase = "open"
        PROVE  OpenRight(work[q])'
    <3>1. work'[q] = work[q] /\ OpenRight(work[q]) /\ work[q] # Idle
      BY <1>1, <1>4, <2>2 DEF IInv, WorkRight
    <3>2. work[q].request = r => ~lone'[r]
      BY <1>5, <2>2, <3>1 DEF WorksOn
    <3>3. work[q].request \in Requests
      BY <3>1, PhaseTellsForm DEF IInv
    <3>. QED  BY <1>1, <3>1, <3>2, <3>3 DEF OpenRight
  <2>3. ASSUME NEW q \in Processes, q # p, work'[q].phase = "indexing"
        PROVE  IndexRight(work[q])'
    <3>1. work'[q] = work[q] /\ IndexRight(work[q]) /\ work[q] # Idle
      BY <1>1, <1>4, <2>3 DEF IInv, WorkRight
    <3>2. work[q].request = r => ~lone'[r]
      BY <1>5, <2>3, <3>1 DEF WorksOn
    <3>3. work[q].request \in Requests
      BY <3>1, PhaseTellsForm DEF IInv
    <3>. QED  BY <1>1, <3>1, <3>2, <3>3 DEF IndexRight
  <2>. QED  BY <1>1, <1>4, <2>1, <2>2, <2>3 DEF WorkRight
<1>7. OneAtATime'
  <2>1. ASSUME NEW s \in Requests, NEW q \in Processes, NEW u \in Processes,
               lone'[s], WorksOn(q, s)', WorksOn(u, s)'
        PROVE  q = u
    <3>1. CASE s = r
      BY <1>5, <2>1, <3>1
    <3>2. CASE s # r
      <4>1. q # p /\ u # p
        BY <1>1, <1>4, <2>1, <3>2 DEF WorksOn
      <4>2. WorksOn(q, s) /\ WorksOn(u, s) /\ lone[s]
        BY <1>1, <2>1, <3>2, <4>1 DEF WorksOn
      <4>. QED  BY <4>2 DEF IInv, OneAtATime
    <3>. QED  BY <3>1, <3>2
  <2>. QED  BY <2>1 DEF OneAtATime
<1>8. DocBehind'
  BY <1>1 DEF IInv, DocBehind
<1>9. Told'
  <2>1. \A q \in Processes, s \in Requests : Tells(q, s) => q # p /\ Tells(q, s)'
    BY <1>1, <1>4 DEF Tells
  <2>. QED  BY <1>1, <2>1 DEF IInv, Told
<1>10. Found'
  BY <1>1, <1>4 DEF IInv, Found, Untouched, WorksOn
<1>. QED  BY <1>3, <1>6, <1>7, <1>8, <1>9, <1>10 DEF IInv

\* A unit of work that ends badly keeps it, unless nobody died and it had yet to
\* send the last write.
LEMMA EndKeeps ==
  ASSUME IInv, NEW p \in Processes,
         work' = [work EXCEPT ![p] = Idle],
         lone' \in [Requests -> BOOLEAN],
         \A r \in Requests : lone'[r] => lone[r] /\ ~WorksOn(p, r),
         left' \in [Tasks -> SUBSET Requests],
         faults' \in 0 .. MaxFaults,
         faults' = 0 => faults = 0 /\ \A r \in Requests : ~Tells(p, r),
         UNCHANGED <<status, version, due, doc>>
  PROVE  IInv'
<1>1. /\ \A q \in Processes : q # p => work'[q] = work[q]
      /\ work'[p] = Idle
      /\ Idle.phase = "idle"
  BY DEF IInv, TypeOK, Idle
<1>2. TypeOK'
  BY DEF IInv, TypeOK
<1>3. WorkRight'
  <2>1. ASSUME NEW q \in Processes, q # p, work[q] # Idle
        PROVE  work[q].request \in Requests /\ (lone'[work[q].request] => lone[work[q].request])
    BY <2>1, PhaseTellsForm DEF IInv
  <2>2. ASSUME NEW q \in Processes, work'[q].phase = "open"
        PROVE  OpenRight(work[q])'
    <3>1. q # p /\ work'[q] = work[q] /\ OpenRight(work[q]) /\ work[q] # Idle
      BY <1>1, <2>2 DEF IInv, WorkRight
    <3>. QED  BY <2>1, <3>1 DEF OpenRight
  <2>3. ASSUME NEW q \in Processes, work'[q].phase = "indexing"
        PROVE  IndexRight(work[q])'
    <3>1. q # p /\ work'[q] = work[q] /\ IndexRight(work[q]) /\ work[q] # Idle
      BY <1>1, <2>3 DEF IInv, WorkRight
    <3>. QED  BY <2>1, <3>1 DEF IndexRight
  <2>. QED  BY <2>2, <2>3 DEF WorkRight
<1>4. OneAtATime'
  BY <1>1 DEF IInv, OneAtATime, WorksOn
<1>5. DocBehind'
  BY DEF IInv, DocBehind
<1>6. Told'
  BY <1>1 DEF IInv, Told, Tells
<1>7. Found'
  <2>1. ASSUME NEW r \in Requests, Untouched(r)', lone'[r]
        PROVE  doc'[r].open = IsOpen(status'[r])
    <3>1. Untouched(r) /\ lone[r]
      BY <1>1, <2>1 DEF Untouched, WorksOn
    <3>. QED  BY <3>1 DEF IInv, Found
  <2>. QED  BY <2>1 DEF Found
<1>. QED  BY <1>2, <1>3, <1>4, <1>5, <1>6, <1>7 DEF IInv

\* A commit keeps it: the write of a lone one is what its last operation shows,
\* and whoever writes the row has yet to tell.
LEMMA CommitKeeps ==
  ASSUME IInv, NEW p \in Processes, Commit(p)
  PROVE  IInv'
<1>. DEFINE t == work[p]
            next == Committed(p)
<1>0. PICK r \in Requests : r = work[p].request
  BY PhaseTellsForm DEF IInv, Commit, Idle
<1>1. /\ t \in Open /\ t.phase = "open" /\ t.request = r /\ OpenRight(t)
      /\ t.to \in Statuses /\ t.ops \in Seq(BOOLEAN) /\ t.writes \in BOOLEAN
  BY <1>0, PhaseTellsForm DEF IInv, WorkRight, Commit, Open
<1>2. /\ \A q \in Processes : q # p => work'[q] = work[q]
      /\ work'[p] = next
      /\ UNCHANGED <<due, doc, left, lone, faults>>
  BY DEF Commit, IInv, TypeOK
<1>3. /\ next \in Indexing /\ next.phase = "indexing" /\ next.version = 0
      /\ next.ops = t.ops /\ next.request = r /\ next # Idle /\ t # Idle
      /\ Idle.phase = "idle"
  BY <1>1 DEF Committed, Indexing, Idle
<1>4. /\ \A s \in Requests : s # r => status'[s] = status[s] /\ version'[s] = version[s]
      /\ t.writes => status'[r] = t.to /\ version'[r] = version[r] + 1
      /\ ~t.writes => status'[r] = status[r] /\ version'[r] = version[r]
      /\ status' \in [Requests -> Statuses \cup {NoStatus}]
      /\ version' \in [Requests -> Nat] /\ version \in [Requests -> Nat]
  <2>1. CASE t.writes
    <3>1. /\ status' = [status EXCEPT ![r] = t.to]
          /\ version' = [version EXCEPT ![r] = @ + 1]
      BY <1>0, <2>1 DEF Commit
    <3>. HIDE DEF t
    <3>. QED  BY <1>1, <2>1, <3>1 DEF IInv, TypeOK
  <2>2. CASE ~t.writes
    BY <2>2 DEF Commit, IInv, TypeOK
  <2>. QED  BY <1>1, <2>1, <2>2
<1>. HIDE DEF next
<1>5. TypeOK'
  <2>1. work' = [work EXCEPT ![p] = next]
    BY DEF Commit, next
  <2>2. work' \in [Processes -> Open \cup Indexing \cup {Idle}]
    BY <1>3, <2>1 DEF IInv, TypeOK
  <2>. QED  BY <1>2, <1>4, <2>2 DEF IInv, TypeOK
<1>6. \A s \in Requests : version[s] \in Nat /\ version'[s] \in Nat /\ version[s] <= version'[s]
  BY <1>1, <1>4
<1>7. lone[r] => LastOf(t.ops) = IsOpen(status'[r])
  <2>1. lone[r] /\ ~t.writes => t.to = status[r]
    BY <1>1 DEF OpenRight
  <2>2. LastOf(t.ops) = IsOpen(t.to)
    BY <1>1 DEF OpenRight
  <2>. QED  BY <1>1, <1>4, <2>1, <2>2
<1>8. lone[r] => \A q \in Processes : q # p => ~WorksOn(q, r)
  BY <1>1, <1>3 DEF IInv, OneAtATime, WorksOn
<1>9. WorkRight'
  <2>1. IndexRight(work[p])'
    <3>1. next.version <= version'[r]
      BY <1>1, <1>3, <1>6
    <3>. HIDE DEF t
    <3>. QED  BY <1>1, <1>2, <1>3, <1>7, <3>1 DEF IndexRight, OpenRight
  <2>2. ASSUME NEW q \in Processes, q # p, work'[q].phase = "open"
        PROVE  OpenRight(work[q])'
    <3>. DEFINE u == work[q]
    <3>1. /\ work'[q] = u /\ OpenRight(u) /\ u # Idle
          /\ u.request \in Requests /\ u.version \in Nat
      BY <1>2, <1>3, <2>2, PhaseTellsForm DEF IInv, WorkRight
    <3>2. u.request = r => ~lone[r]
      BY <1>8, <2>2, <3>1 DEF WorksOn
    <3>. HIDE DEF u, t
    <3>3. CASE u.request = r /\ t.writes
      <4>1. u.version <= version'[r] /\ u.version # version'[r]
        BY <1>1, <1>4, <1>6, <3>1, <3>3 DEF OpenRight
      <4>. QED  BY <1>2, <3>1, <3>2, <3>3, <4>1 DEF OpenRight
    <3>4. CASE u.request # r \/ ~t.writes
      <4>1. status'[u.request] = status[u.request] /\ version'[u.request] = version[u.request]
        BY <1>4, <3>1, <3>4
      <4>. QED  BY <1>2, <3>1, <4>1 DEF OpenRight
    <3>. QED  BY <1>1, <3>3, <3>4
  <2>3. ASSUME NEW q \in Processes, q # p, work'[q].phase = "indexing"
        PROVE  IndexRight(work[q])'
    <3>. DEFINE u == work[q]
    <3>1. /\ work'[q] = u /\ IndexRight(u) /\ u # Idle
          /\ u.request \in Requests /\ u.version \in Nat
      BY <1>2, <1>3, <2>3, PhaseTellsForm DEF IInv, WorkRight
    <3>2. u.request = r => ~lone[r]
      BY <1>8, <2>3, <3>1 DEF WorksOn
    <3>. HIDE DEF u, t
    <3>3. u.version <= version'[u.request]
      BY <1>6, <3>1 DEF IndexRight
    <3>4. u.request # r => status'[u.request] = status[u.request]
      BY <1>4, <3>1
    <3>. QED  BY <1>2, <3>1, <3>2, <3>3, <3>4 DEF IndexRight
  <2>. QED  BY <1>2, <1>3, <2>1, <2>2, <2>3 DEF WorkRight
<1>10. \A q \in Processes, s \in Requests : WorksOn(q, s)' <=> WorksOn(q, s)
  <2>1. \A s \in Requests : WorksOn(p, s)' <=> WorksOn(p, s)
    BY <1>1, <1>2, <1>3 DEF WorksOn
  <2>2. \A q \in Processes, s \in Requests : q # p => (WorksOn(q, s)' <=> WorksOn(q, s))
    BY <1>2 DEF WorksOn
  <2>. QED  BY <2>1, <2>2
<1>11. OneAtATime'
  BY <1>2, <1>10 DEF IInv, OneAtATime
<1>12. DocBehind'
  <2>1. \A s \in Requests : doc[s].version \in Nat
    BY DEF IInv, TypeOK
  <2>. QED  BY <1>2, <1>6, <2>1 DEF IInv, DocBehind
<1>13. Told'
  <2>1. Tells(p, r)'
    BY <1>2, <1>3 DEF Tells
  <2>2. ASSUME NEW s \in Requests, s # r, NEW q \in Processes, Tells(q, s)
        PROVE  Tells(q, s)'
    BY <1>1, <1>2, <1>4, <2>2 DEF Tells
  <2>3. ASSUME faults' = 0, NEW s \in Requests
        PROVE  doc'[s].version = version'[s] \/ \E q \in Processes : Tells(q, s)'
    <3>1. CASE s = r
      BY <2>1, <3>1
    <3>2. CASE s # r
      <4>1. CASE \E q \in Processes : Tells(q, s)
        BY <2>2, <3>2, <4>1
      <4>2. CASE doc[s].version = version[s]
        BY <1>2, <1>4, <3>2, <4>2
      <4>. QED  BY <1>2, <2>3, <4>1, <4>2 DEF IInv, Told
    <3>. QED  BY <3>1, <3>2
  <2>. QED  BY <2>3 DEF Told
<1>14. Found'
  <2>1. ~Untouched(r)'
    BY <1>2, <1>3 DEF Untouched, WorksOn
  <2>2. ASSUME NEW s \in Requests, s # r, Untouched(s)' PROVE Untouched(s)
    BY <1>10, <2>2 DEF Untouched
  <2>3. ASSUME NEW s \in Requests, Untouched(s)', lone'[s]
        PROVE  doc'[s].open = IsOpen(status'[s])
    <3>1. s # r
      BY <2>1, <2>3
    <3>2. doc[s].open = IsOpen(status[s])
      BY <1>2, <2>2, <2>3, <3>1 DEF IInv, Found
    <3>3. doc' = doc /\ status'[s] = status[s]
      BY <1>2, <1>4, <3>1
    <3>. QED  BY <3>2, <3>3
  <2>. QED  BY <2>3 DEF Found
<1>. QED  BY <1>5, <1>9, <1>11, <1>12, <1>13, <1>14 DEF IInv

\* An index operation of p, which changes its unit of work on r, and the document,
\* as stated, keeps the invariant.
LEMMA IndexKeeps ==
  ASSUME IInv, NEW p \in Processes, NEW r \in Requests, work[p] \in Indexing,
         work[p].request = r,
         NEW next \in Indexing \cup {Idle}, work' = [work EXCEPT ![p] = next],
         UNCHANGED <<status, version, due, left, lone, faults>>,
         doc' \in [Requests -> [version: Nat, open: BOOLEAN]],
         \A s \in Requests : s # r => doc'[s] = doc[s],
         doc'[r].version \in Nat, doc[r].version <= doc'[r].version,
         doc'[r].version <= version[r],
         next # Idle =>
           /\ next.request = r /\ next.ops # <<>>
           /\ LastOf(next.ops) = LastOf(work[p].ops)
           /\ next.version <= version[r],
         next = Idle /\ lone[r] => doc'[r].open = LastOf(work[p].ops),
         Tells(p, r) => doc'[r].version = version[r]
                        \/ (next # Idle /\ next.version = version[r])
  PROVE  IInv'
<1>. DEFINE t == work[p]
<1>1. /\ \A q \in Processes : q # p => work'[q] = work[q]
      /\ work'[p] = next
      /\ Idle.phase = "idle"
      /\ t.phase = "indexing" /\ t # Idle /\ IndexRight(t)
      /\ next # Idle => next.phase = "indexing"
      /\ version[r] \in Nat
  BY DEF IInv, TypeOK, WorkRight, Idle, Indexing
<1>2. TypeOK'
  BY DEF IInv, TypeOK
<1>. HIDE DEF t
<1>3. WorkRight'
  <2>1. next # Idle => IndexRight(work[p])'
    BY <1>1 DEF IndexRight, t
  <2>2. ASSUME NEW q \in Processes, q # p, work'[q].phase = "open"
        PROVE  OpenRight(work[q])'
    <3>1. work'[q] = work[q] /\ OpenRight(work[q])
      BY <1>1, <2>2 DEF IInv, WorkRight
    <3>. QED  BY <3>1 DEF OpenRight
  <2>3. ASSUME NEW q \in Processes, q # p, work'[q].phase = "indexing"
        PROVE  IndexRight(work[q])'
    <3>1. work'[q] = work[q] /\ IndexRight(work[q])
      BY <1>1, <2>3 DEF IInv, WorkRight
    <3>. QED  BY <3>1 DEF IndexRight
  <2>. QED  BY <1>1, <2>1, <2>2, <2>3 DEF WorkRight
<1>4. \A q \in Processes, s \in Requests : WorksOn(q, s)' => WorksOn(q, s)
  <2>1. \A s \in Requests : WorksOn(p, s)' => WorksOn(p, s)
    BY <1>1 DEF WorksOn, t
  <2>2. \A q \in Processes, s \in Requests : q # p => (WorksOn(q, s)' <=> WorksOn(q, s))
    BY <1>1 DEF WorksOn
  <2>. QED  BY <2>1, <2>2
<1>5. OneAtATime'
  BY <1>4 DEF IInv, OneAtATime
<1>6. DocBehind'
  BY DEF IInv, DocBehind
<1>7. Told'
  <2>1. ASSUME NEW s \in Requests, NEW q \in Processes, q # p, Tells(q, s)
        PROVE  Tells(q, s)'
    BY <1>1, <2>1 DEF Tells
  <2>2. next # Idle /\ next.version = version[r] => Tells(p, r)'
    BY <1>1 DEF Tells
  <2>3. doc[r].version = version[r] => doc'[r].version = version[r]
    BY <1>1 DEF IInv, TypeOK
  <2>4. ASSUME faults' = 0, NEW s \in Requests
        PROVE  doc'[s].version = version'[s] \/ \E q \in Processes : Tells(q, s)'
    <3>1. doc[s].version = version[s] \/ \E q \in Processes : Tells(q, s)
      BY <2>4 DEF IInv, Told
    <3>2. CASE s = r
      BY <2>1, <2>2, <2>3, <3>1, <3>2
    <3>3. CASE s # r
      <4>1. ~Tells(p, s)
        BY <1>1, <3>3 DEF Tells, t
      <4>. QED  BY <2>1, <3>1, <3>3, <4>1
    <3>. QED  BY <3>2, <3>3
  <2>. QED  BY <2>4 DEF Told
<1>8. Found'
  <2>1. ASSUME NEW s \in Requests, Untouched(s)', lone'[s]
        PROVE  doc'[s].open = IsOpen(status'[s])
    <3>1. CASE s = r
      <4>1. next = Idle
        BY <1>1, <2>1, <3>1 DEF Untouched, WorksOn
      <4>2. doc'[r].open = LastOf(work[p].ops)
        BY <2>1, <3>1, <4>1
      <4>3. LastOf(work[p].ops) = IsOpen(status[r])
        BY <1>1, <2>1, <3>1 DEF IndexRight, t
      <4>. QED  BY <3>1, <4>2, <4>3
    <3>2. CASE s # r
      <4>1. Untouched(s)
        <5>1. ~WorksOn(p, s)
          BY <3>2 DEF WorksOn
        <5>2. \A q \in Processes : q # p => ~WorksOn(q, s)
          BY <1>1, <2>1 DEF Untouched, WorksOn
        <5>. QED  BY <5>1, <5>2 DEF Untouched
      <4>2. doc[s].open = IsOpen(status[s])
        BY <2>1, <4>1 DEF IInv, Found
      <4>. QED  BY <3>2, <4>2
    <3>. QED  BY <3>1, <3>2
  <2>. QED  BY <2>1 DEF Found
<1>. QED  BY <1>2, <1>3, <1>5, <1>6, <1>7, <1>8 DEF IInv

\* Loading the row keeps it: what is loaded is the version of now.
LEMMA LoadKeeps ==
  ASSUME IInv, NEW p \in Processes, Load(p)
  PROVE  IInv'
<1>. DEFINE t == work[p]
<1>1. PICK r \in Requests : r = work[p].request
  BY PhaseTellsForm DEF IInv, Load, Idle
<1>. DEFINE next == [t EXCEPT !.version = version[r]]
<1>2. t \in Indexing /\ IndexRight(t) /\ version[r] \in Nat
  BY PhaseTellsForm DEF IInv, TypeOK, WorkRight, Load
<1>3. /\ next \in Indexing /\ next # Idle /\ next.request = r
      /\ next.ops = t.ops /\ next.version = version[r]
  BY <1>1, <1>2 DEF Indexing, Idle
<1>4. work' = [work EXCEPT ![p] = next] /\ UNCHANGED <<status, version, due, doc, left, lone, faults>>
  BY <1>1 DEF Load
<1>5. t.ops # <<>>
  BY <1>2 DEF IndexRight
<1>. HIDE DEF next
<1>6. /\ doc'[r].version \in Nat /\ doc[r].version <= doc'[r].version
      /\ doc'[r].version <= version[r]
      /\ doc' \in [Requests -> [version: Nat, open: BOOLEAN]]
      /\ \A s \in Requests : s # r => doc'[s] = doc[s]
  BY <1>4 DEF IInv, TypeOK, DocBehind
<1>7. /\ next.version <= version[r] /\ LastOf(next.ops) = LastOf(work[p].ops)
      /\ next.ops # <<>>
  BY <1>2, <1>3, <1>5
<1>. QED  BY <1>1, <1>2, <1>3, <1>4, <1>6, <1>7, IndexKeeps

\* Sending the next copy keeps it: the last copy of a lone unit of work is right.
LEMMA SendKeeps ==
  ASSUME IInv, NEW p \in Processes, Send(p)
  PROVE  IInv'
<1>. DEFINE t == work[p]
<1>1. PICK r \in Requests : r = work[p].request
  BY PhaseTellsForm DEF IInv, Send, Loaded, Idle
<1>. DEFINE next == IF Tail(t.ops) = <<>> THEN Idle ELSE [t EXCEPT !.ops = Tail(t.ops)]
            sent == [version |-> t.version, open |-> Head(t.ops)]
<1>2. /\ t \in Indexing /\ IndexRight(t) /\ t.version \in Nat /\ t.version # 0
      /\ t.ops \in Seq(BOOLEAN) /\ t.ops # <<>>
      /\ doc[r].version <= t.version /\ t.version <= version[r]
      /\ doc[r].version \in Nat
  BY <1>1, PhaseTellsForm DEF IInv, TypeOK, WorkRight, Send, Loaded, IndexRight
<1>3. /\ Head(t.ops) \in BOOLEAN /\ Tail(t.ops) \in Seq(BOOLEAN)
      /\ Tail(t.ops) = <<>> => Head(t.ops) = LastOf(t.ops)
      /\ Tail(t.ops) # <<>> => LastOf(Tail(t.ops)) = LastOf(t.ops)
  BY <1>2, OneLess
<1>4. /\ next \in Indexing \cup {Idle}
      /\ next # Idle => /\ next.request = r /\ next.ops # <<>>
                        /\ LastOf(next.ops) = LastOf(t.ops)
                        /\ next.version <= version[r]
      /\ next = Idle => Head(t.ops) = LastOf(t.ops)
  <2>1. CASE Tail(t.ops) = <<>>
    <3>1. next = Idle
      BY <2>1
    <3>. HIDE DEF next
    <3>. QED  BY <1>3, <2>1, <3>1
  <2>2. CASE Tail(t.ops) # <<>>
    <3>. DEFINE more == [t EXCEPT !.ops = Tail(t.ops)]
    <3>1. /\ more \in Indexing /\ more # Idle /\ more.request = r
          /\ more.ops = Tail(t.ops) /\ more.version = t.version
      BY <1>1, <1>2, <1>3 DEF Indexing, Idle
    <3>2. next = more
      BY <2>2
    <3>. HIDE DEF more, next, t
    <3>. QED  BY <1>2, <1>3, <2>2, <3>1, <3>2
  <2>. QED  BY <2>1, <2>2
<1>5. /\ work' = [work EXCEPT ![p] = next]
      /\ doc' = [doc EXCEPT ![r] = sent]
      /\ UNCHANGED <<status, version, due, left, lone, faults>>
  BY <1>1 DEF Send
<1>6. /\ doc' \in [Requests -> [version: Nat, open: BOOLEAN]]
      /\ doc'[r].version = t.version /\ doc'[r].open = Head(t.ops)
      /\ \A s \in Requests : s # r => doc'[s] = doc[s]
  BY <1>2, <1>3, <1>5 DEF IInv, TypeOK
<1>7. Tells(p, r) => t.version = version[r]
  BY <1>2 DEF Tells
<1>. HIDE DEF next
<1>. QED  BY <1>1, <1>2, <1>4, <1>5, <1>6, <1>7, IndexKeeps

\* Creating a request keeps it: nobody else has read it, and its creator tells.
LEMMA CreateKeeps ==
  ASSUME IInv, NEW c \in Processes, NEW r \in Requests, Create(c, r)
  PROVE  IInv'
<1>1. PICK to \in {"created", "submitted"} :
        /\ status' = [status EXCEPT ![r] = to]
        /\ work' = [work EXCEPT ![c] =
                      [phase |-> "indexing", request |-> r, version |-> 0,
                       ops |-> <<IsOpen(to)>>]]
  BY DEF Create
<1>. DEFINE next == [phase |-> "indexing", request |-> r, version |-> 0,
                     ops |-> <<IsOpen(to)>>]
<1>2. /\ <<IsOpen(to)>> \in Seq(BOOLEAN) /\ <<IsOpen(to)>> # <<>>
      /\ LastOf(<<IsOpen(to)>>) = IsOpen(to)
  <2>1. IsOpen(to) \in BOOLEAN
    BY DEF IsOpen
  <2>. QED  BY <2>1, OneOp
<1>3. /\ next \in Indexing /\ next # Idle /\ next.phase = "indexing"
      /\ next.request = r /\ next.version = 0 /\ next.ops # <<>>
      /\ LastOf(next.ops) = IsOpen(to) /\ Idle.phase = "idle"
  BY <1>2 DEF Indexing, Idle
<1>. HIDE DEF next
<1>4. work' = [work EXCEPT ![c] = next] /\ work[c] = Idle
  BY <1>1 DEF next, Create
<1>5. /\ \A q \in Processes : q # c => work'[q] = work[q]
      /\ work'[c] = next
      /\ \A s \in Requests : s # r =>
           status'[s] = status[s] /\ version'[s] = version[s] /\ lone'[s] = lone[s]
      /\ status'[r] = to /\ version'[r] = version[r] + 1 /\ lone'[r] = Untouched(r)
      /\ UNCHANGED <<due, doc, left, faults>>
      /\ \A s \in Requests : version[s] \in Nat /\ version'[s] \in Nat
  BY <1>1, <1>4 DEF Create, IInv, TypeOK
<1>6. TypeOK'
  <2>1. status' \in [Requests -> Statuses \cup {NoStatus}]
    BY <1>1 DEF IInv, TypeOK, Statuses
  <2>2. version' \in [Requests -> Nat]
    BY DEF Create, IInv, TypeOK
  <2>3. lone' \in [Requests -> BOOLEAN]
    <3>1. Untouched(r) \in BOOLEAN
      BY DEF Untouched
    <3>2. lone' = [lone EXCEPT ![r] = Untouched(r)]
      BY DEF Create
    <3>. QED  BY <3>1, <3>2 DEF IInv, TypeOK
  <2>4. work' \in [Processes -> Open \cup Indexing \cup {Idle}]
    BY <1>3, <1>4 DEF IInv, TypeOK
  <2>. QED  BY <1>5, <2>1, <2>2, <2>3, <2>4 DEF IInv, TypeOK
<1>7. lone'[r] => \A q \in Processes : q # c => ~WorksOn(q, r)' /\ ~WorksOn(q, r)
  BY <1>5 DEF Untouched, WorksOn
<1>8. WorkRight'
  <2>1. IndexRight(work[c])'
    BY <1>3, <1>5 DEF IndexRight
  <2>2. ASSUME NEW q \in Processes, q # c, work'[q].phase = "open"
        PROVE  OpenRight(work[q])'
    <3>. DEFINE u == work[q]
    <3>1. /\ work'[q] = u /\ OpenRight(u) /\ u # Idle
          /\ u.request \in Requests /\ u.version \in Nat
      BY <1>3, <1>5, <2>2, PhaseTellsForm DEF IInv, WorkRight
    <3>2. u.request = r => ~lone'[r]
      BY <1>7, <2>2, <3>1 DEF WorksOn
    <3>. HIDE DEF u
    <3>3. CASE u.request = r
      <4>1. u.version <= version'[r] /\ u.version # version'[r]
        BY <1>5, <3>1, <3>3 DEF OpenRight
      <4>. QED  BY <1>5, <3>1, <3>2, <3>3, <4>1 DEF OpenRight
    <3>4. CASE u.request # r
      BY <1>5, <3>1, <3>4 DEF OpenRight
    <3>. QED  BY <3>3, <3>4
  <2>3. ASSUME NEW q \in Processes, q # c, work'[q].phase = "indexing"
        PROVE  IndexRight(work[q])'
    <3>. DEFINE u == work[q]
    <3>1. /\ work'[q] = u /\ IndexRight(u) /\ u # Idle
          /\ u.request \in Requests /\ u.version \in Nat
      BY <1>3, <1>5, <2>3, PhaseTellsForm DEF IInv, WorkRight
    <3>2. u.request = r => ~lone'[r]
      BY <1>7, <2>3, <3>1 DEF WorksOn
    <3>. HIDE DEF u
    <3>3. CASE u.request = r
      <4>1. u.version <= version'[r]
        BY <1>5, <3>1, <3>3 DEF IndexRight
      <4>. QED  BY <1>5, <3>1, <3>2, <3>3, <4>1 DEF IndexRight
    <3>4. CASE u.request # r
      BY <1>5, <3>1, <3>4 DEF IndexRight
    <3>. QED  BY <3>3, <3>4
  <2>. QED  BY <1>3, <1>5, <2>1, <2>2, <2>3 DEF WorkRight
<1>9. OneAtATime'
  <2>1. ASSUME NEW s \in Requests, NEW q \in Processes, NEW u \in Processes,
               lone'[s], WorksOn(q, s)', WorksOn(u, s)'
        PROVE  q = u
    <3>1. CASE s = r
      BY <1>7, <2>1, <3>1
    <3>2. CASE s # r
      <4>1. q # c /\ u # c
        BY <1>3, <1>5, <2>1, <3>2 DEF WorksOn
      <4>2. WorksOn(q, s) /\ WorksOn(u, s) /\ lone[s]
        BY <1>5, <2>1, <3>2, <4>1 DEF WorksOn
      <4>. QED  BY <4>2 DEF IInv, OneAtATime
    <3>. QED  BY <3>1, <3>2
  <2>. QED  BY <2>1 DEF OneAtATime
<1>10. DocBehind'
  <2>1. ASSUME NEW s \in Requests PROVE doc'[s].version <= version'[s]
    <3>1. doc[s].version \in Nat /\ doc[s].version <= version[s] /\ version[s] \in Nat
      BY DEF IInv, TypeOK, DocBehind
    <3>. QED  BY <1>5, <3>1
  <2>. QED  BY <2>1 DEF DocBehind
<1>11. Told'
  <2>1. Tells(c, r)'
    BY <1>3, <1>5 DEF Tells
  <2>2. ASSUME NEW s \in Requests, s # r, NEW q \in Processes, Tells(q, s)
        PROVE  Tells(q, s)'
    <3>1. q # c
      BY <1>3, <1>4, <2>2 DEF Tells
    <3>. QED  BY <1>5, <2>2, <3>1 DEF Tells
  <2>3. ASSUME faults' = 0, NEW s \in Requests
        PROVE  doc'[s].version = version'[s] \/ \E q \in Processes : Tells(q, s)'
    <3>1. CASE s = r
      BY <2>1, <3>1
    <3>2. CASE s # r
      BY <1>5, <2>2, <2>3, <3>2 DEF IInv, Told
    <3>. QED  BY <3>1, <3>2
  <2>. QED  BY <2>3 DEF Told
<1>12. Found'
  <2>1. ASSUME NEW s \in Requests, Untouched(s)', lone'[s]
        PROVE  doc'[s].open = IsOpen(status'[s])
    <3>1. s # r
      BY <1>3, <1>5, <2>1 DEF Untouched, WorksOn
    <3>2. Untouched(s)
      BY <1>3, <1>4, <1>5, <2>1 DEF Untouched, WorksOn
    <3>3. doc[s].open = IsOpen(status[s])
      BY <1>5, <2>1, <3>1, <3>2 DEF IInv, Found
    <3>4. doc' = doc /\ status'[s] = status[s]
      BY <1>5, <3>1
    <3>. QED  BY <3>3, <3>4
  <2>. QED  BY <2>1 DEF Found
<1>. QED  BY <1>6, <1>8, <1>9, <1>10, <1>11, <1>12 DEF IInv

\* A step that leaves rows, documents and units of work alone keeps it.
LEMMA RestKeeps ==
  ASSUME IInv, UNCHANGED <<status, version, doc, work, lone, faults>>,
         due' \subseteq Requests, left' \in [Tasks -> SUBSET Requests]
  PROVE  IInv'
<1>1. TypeOK'
  BY DEF IInv, TypeOK
<1>2. WorkRight'
  BY DEF IInv, WorkRight, OpenRight, IndexRight
<1>3. OneAtATime' /\ DocBehind'
  BY DEF IInv, OneAtATime, WorksOn, DocBehind
<1>4. Told'
  BY DEF IInv, Told, Tells
<1>5. Found'
  BY DEF IInv, Found, Untouched, WorksOn, IsOpen
<1>. QED  BY <1>1, <1>2, <1>3, <1>4, <1>5 DEF IInv

\* A user's call that begins keeps it.
LEMMA CallKeeps ==
  ASSUME IInv, NEW c \in Processes, NEW r \in Requests, WriteCall(c, r) \/ Comment(c, r)
  PROVE  IInv'
<1>1. /\ {"created", "submitted", "accepted", "deleted"} \subseteq Statuses
      /\ status[r] \in Statuses \cup {NoStatus}
      /\ left' \in [Tasks -> SUBSET Requests]
      /\ TRUE \in BOOLEAN /\ FALSE \in BOOLEAN
  BY DEF WriteCall, Comment, IInv, TypeOK, Statuses
<1>2. ASSUME NEW to \in Statuses, NEW logs \in BOOLEAN, NEW commented \in BOOLEAN,
             Begin(c, r, to, TRUE, ActionOps(status[r], to, logs, commented)),
             to = status[r] \/ <<status[r], to>> \in Lifecycle!Transitions
      PROVE  IInv'
  <2>. DEFINE ops == ActionOps(status[r], to, logs, commented)
  <2>1. ops \in Seq(BOOLEAN) /\ ops # <<>> /\ LastOf(ops) = IsOpen(to)
    BY ActionOpsEnd
  <2>2. Begin(c, r, to, TRUE, ops)
    BY <1>2
  <2>. HIDE DEF ops
  <2>. QED  BY <1>1, <1>2, <2>1, <2>2, BeginKeeps
<1>3. ASSUME status[r] = "created", NEW commented \in BOOLEAN,
             Begin(c, r, "submitted", TRUE,
                   ActionOps(status[r], "submitted", FALSE, commented))
      PROVE  IInv'
  <2>1. <<status[r], "submitted">> \in Lifecycle!Transitions
    BY <1>3 DEF Lifecycle!Transitions
  <2>. QED  BY <1>1, <1>2, <1>3, <2>1
<1>4. ASSUME status[r] = "submitted", NEW commented \in BOOLEAN,
             Begin(c, r, "accepted", TRUE,
                   ActionOps(status[r], "accepted", TRUE, commented))
      PROVE  IInv'
  <2>1. <<status[r], "accepted">> \in Lifecycle!Transitions
    BY <1>4 DEF Lifecycle!Transitions, Lifecycle!ClosedStatuses
  <2>. QED  BY <1>1, <1>2, <1>4, <2>1
<1>5. ASSUME Exists(r), NEW logged \in BOOLEAN,
             Begin(c, r, status[r], TRUE, ActionOps(status[r], status[r], logged, FALSE))
      PROVE  IInv'
  <2>1. status[r] \in Statuses
    BY <1>1, <1>5 DEF Exists
  <2>. QED  BY <1>1, <1>2, <1>5, <2>1
<1>6. ASSUME status[r] = "created", Begin(c, r, "deleted", TRUE, <<FALSE>>)
      PROVE  IInv'
  <2>1. <<status[r], "deleted">> \in Lifecycle!Transitions
    BY <1>6 DEF Lifecycle!Transitions
  <2>2. <<FALSE>> \in Seq(BOOLEAN) /\ <<FALSE>> # <<>> /\ LastOf(<<FALSE>>) = FALSE
    BY OneOp
  <2>3. FALSE = IsOpen("deleted")
    BY DEF IsOpen
  <2>. QED  BY <1>1, <1>6, <2>1, <2>2, <2>3, BeginKeeps
<1>7. ASSUME Comment(c, r) PROVE IInv'
  <2>. DEFINE ops == <<IsOpen(status[r])>>
  <2>1. status[r] \in Statuses /\ Begin(c, r, status[r], FALSE, ops)
    BY <1>1, <1>7 DEF Comment, Exists
  <2>2. ops \in Seq(BOOLEAN) /\ ops # <<>> /\ LastOf(ops) = IsOpen(status[r])
    <3>1. IsOpen(status[r]) \in BOOLEAN
      BY DEF IsOpen
    <3>. QED  BY <3>1, OneOp
  <2>. HIDE DEF ops
  <2>. QED  BY <1>1, <2>1, <2>2, BeginKeeps
<1>. QED  BY <1>3, <1>4, <1>5, <1>6, <1>7 DEF WriteCall

\* An error keeps it: before the commit there is nothing to tell, and a revision
\* that is refused is not the last one.
LEMMA BreakOffKeeps ==
  ASSUME IInv, NEW p \in Processes, work[p] # Idle, BreakOff(p),
         faults' \in 0 .. MaxFaults,
         \/ faults' # 0
         \/ faults' = faults /\ \A r \in Requests : ~Tells(p, r)
  PROVE  IInv'
<1>1. PICK r \in Requests : r = work[p].request
  BY PhaseTellsForm DEF IInv
<1>2. /\ work' = [work EXCEPT ![p] = Idle]
      /\ lone' = [lone EXCEPT ![r] = FALSE]
      /\ left' = IF p \in Tasks THEN [left EXCEPT ![p] = GoOn(p, r)] ELSE left
      /\ UNCHANGED <<status, version, due, doc>>
  BY <1>1 DEF BreakOff
<1>3. /\ lone' \in [Requests -> BOOLEAN]
      /\ \A s \in Requests : lone'[s] => lone[s] /\ ~WorksOn(p, s)
  BY <1>1, <1>2 DEF IInv, TypeOK, WorksOn
<1>4. left' \in [Tasks -> SUBSET Requests]
  <2>1. CASE p \in Tasks
    <3>1. left[p] \ {r} \in SUBSET Requests
      BY <2>1 DEF IInv, TypeOK
    <3>2. left' = [left EXCEPT ![p] = left[p] \ {r}]
      BY <1>2, <2>1 DEF GoOn
    <3>. QED  BY <3>1, <3>2 DEF IInv, TypeOK
  <2>2. CASE p \notin Tasks
    BY <1>2, <2>2 DEF IInv, TypeOK
  <2>. QED  BY <2>1, <2>2
<1>. QED  BY <1>2, <1>3, <1>4, EndKeeps

-----------------------------------------------------------------------------
(* The invariant. *)

\* Nothing is created, no call is served and no task runs at the start.
THEOREM InvariantInit == ASSUME ExpiryAssumption, Init PROVE IInv
<1>1. TypeOK
  BY DEF Init, TypeOK, ExpiryAssumption
<1>2. \A p \in Processes : work[p] = Idle /\ Idle.phase = "idle"
  BY DEF Init, Idle
<1>3. WorkRight /\ OneAtATime
  BY <1>2 DEF WorkRight, OneAtATime, WorksOn
<1>4. DocBehind /\ Told
  BY DEF Init, DocBehind, Told
<1>5. Found
  BY DEF Init, Found, IsOpen, NoStatus
<1>. QED  BY <1>1, <1>3, <1>4, <1>5 DEF IInv

\* Every step of a unit of work keeps the invariant, whoever runs it.
LEMMA ProcessKeeps ==
  ASSUME ExpiryAssumption, IInv, NEW p \in Processes,
         Commit(p) \/ Rollback(p) \/ Index(p) \/ Fail(p)
  PROVE  IInv'
<1>1. faults \in 0 .. MaxFaults
  BY DEF IInv, TypeOK
<1>2. CASE Rollback(p)
  <2>1. work[p] # Idle /\ \A r \in Requests : ~Tells(p, r)
    BY <1>2 DEF Rollback, Tells, Idle
  <2>. QED  BY <1>1, <1>2, <2>1, BreakOffKeeps DEF Rollback
<1>3. CASE Conflict(p)
  <2>1. work[p] # Idle /\ BreakOff(p) /\ faults' = faults
    BY <1>3 DEF Conflict, Loaded, Idle
  <2>2. ASSUME NEW r \in Requests PROVE ~Tells(p, r)
    <3>1. doc[r].version <= version[r] /\ doc[r].version \in Nat /\ version[r] \in Nat
      BY DEF IInv, TypeOK, DocBehind
    <3>2. work[p].version \in Nat
      BY <2>1, PhaseTellsForm DEF IInv
    <3>. QED  BY <1>3, <3>1, <3>2 DEF Conflict, Loaded, Tells
  <2>. QED  BY <1>1, <2>1, <2>2, BreakOffKeeps
<1>4. CASE Fail(p)
  <2>1. faults' \in 0 .. MaxFaults /\ faults' # 0
    BY <1>1, <1>4 DEF Fail, ExpiryAssumption
  <2>. QED  BY <1>4, <2>1, BreakOffKeeps DEF Fail
<1>. QED  BY <1>2, <1>3, <1>4, CommitKeeps, LoadKeeps, SendKeeps DEF Index

\* Every step of a run of the task keeps it, apart from those of a unit of work.
LEMMA TaskKeeps ==
  ASSUME ExpiryAssumption, IInv, NEW t \in Tasks,
         Start(t) \/ Kill(t) \/ \E r \in Requests : Expire(t, r)
  PROVE  IInv'
<1>1. t \in Processes /\ left[t] \subseteq Requests /\ left \in [Tasks -> SUBSET Requests]
  BY DEF Processes, IInv, TypeOK
<1>2. CASE Start(t)
  <2>1. {r \in due : doc[r].open} \in SUBSET Requests
    BY DEF IInv, TypeOK
  <2>2. left' \in [Tasks -> SUBSET Requests] /\ due' \subseteq Requests
    BY <1>1, <1>2, <2>1 DEF Start, IInv, TypeOK
  <2>. QED  BY <1>2, <2>2, RestKeeps DEF Start
<1>3. CASE Kill(t)
  <2>1. faults' \in 0 .. MaxFaults /\ faults' # 0
    BY <1>3 DEF Kill, ExpiryAssumption, IInv, TypeOK
  <2>2. lone' \in [Requests -> BOOLEAN]
    <3>1. \A r \in Requests : (lone[r] /\ ~WorksOn(t, r)) \in BOOLEAN
      OBVIOUS
    <3>2. lone' = [r \in Requests |-> lone[r] /\ ~WorksOn(t, r)]
      BY <1>3 DEF Kill
    <3>. QED  BY <3>1, <3>2
  <2>3. \A r \in Requests : lone'[r] => lone[r] /\ ~WorksOn(t, r)
    BY <1>3 DEF Kill
  <2>4. /\ left' \in [Tasks -> SUBSET Requests]
        /\ work' = [work EXCEPT ![t] = Idle]
        /\ UNCHANGED <<status, version, due, doc>>
    BY <1>1, <1>3 DEF Kill
  <2>. QED  BY <1>1, <2>1, <2>2, <2>3, <2>4, EndKeeps
<1>4. ASSUME NEW r \in Requests, Expire(t, r) PROVE IInv'
  <2>1. CASE status[r] = "submitted"
    <3>. DEFINE ops == ActionOps("submitted", "expired", TRUE, FALSE)
    <3>1. /\ Begin(t, r, "expired", TRUE, ops)
          /\ left' = [left EXCEPT ![t] = @ \ {r}]
      BY <1>4, <2>1 DEF Expire, ExpiredStatus
    <3>2. ops \in Seq(BOOLEAN) /\ ops # <<>> /\ LastOf(ops) = IsOpen("expired")
      BY ActionOpsEnd
    <3>. HIDE DEF ops
    <3>3. left' \in [Tasks -> SUBSET Requests] /\ "expired" \in Statuses
      BY <1>1, <3>1 DEF Statuses
    <3>4. <<status[r], "expired">> \in Lifecycle!Transitions
      BY <2>1 DEF Lifecycle!Transitions, Lifecycle!ClosedStatuses
    <3>. QED  BY <1>1, <3>1, <3>2, <3>3, <3>4, BeginKeeps
  <2>2. CASE status[r] # "submitted"
    <3>1. /\ left' = [left EXCEPT ![t] = left[t] \ {r}]
          /\ UNCHANGED <<status, version, due, doc, work, lone, faults>>
      BY <1>4, <2>2 DEF Expire, GoOn
    <3>2. left' \in [Tasks -> SUBSET Requests] /\ due' \subseteq Requests
      BY <1>1, <3>1 DEF IInv, TypeOK
    <3>. QED  BY <3>1, <3>2, RestKeeps
  <2>. QED  BY <2>1, <2>2
<1>. QED  BY <1>2, <1>3, <1>4

\* Every step keeps the invariant (check_expired_requests and the calls of users).
THEOREM InvariantNext ==
  ASSUME ExpiryAssumption, IInv, [Next]_vars
  PROVE  IInv'
<1>1. Callers \subseteq Processes /\ Tasks \subseteq Processes
  BY DEF Processes
<1>2. ASSUME NEW r \in Requests, NEW c \in Callers, UserCall(c, r) PROVE IInv'
  BY <1>1, <1>2, CallKeeps, CreateKeeps DEF UserCall
<1>3. ASSUME NEW r \in Requests, Pass(r) PROVE IInv'
  <2>1. due' \subseteq Requests /\ left' \in [Tasks -> SUBSET Requests]
    BY <1>3 DEF Pass, IInv, TypeOK
  <2>. QED  BY <1>3, <2>1, RestKeeps DEF Pass
<1>4. ASSUME NEW c \in Callers, Commit(c) \/ Rollback(c) \/ Index(c) \/ Fail(c)
      PROVE  IInv'
  BY <1>1, <1>4, ProcessKeeps
<1>5. ASSUME NEW t \in Tasks, Run(t) \/ Fail(t) \/ Kill(t) PROVE IInv'
  BY <1>1, <1>5, ProcessKeeps, TaskKeeps DEF Run
<1>6. CASE UNCHANGED vars
  <2>1. due' \subseteq Requests /\ left' \in [Tasks -> SUBSET Requests]
    BY <1>6 DEF vars, IInv, TypeOK
  <2>. QED  BY <1>6, <2>1, RestKeeps DEF vars
<1>. QED  BY <1>2, <1>3, <1>4, <1>5, <1>6 DEF Next

\* The invariant holds throughout.
THEOREM Invariant == Spec => []IInv
<1>1. Init => IInv
  BY ExpiryAssumption, InvariantInit
<1>2. IInv /\ [Next]_vars => IInv'
  BY ExpiryAssumption, InvariantNext
<1>. QED  BY <1>1, <1>2, PTL DEF Spec

\* Rows, documents and units of work keep their types.
THEOREM TypeCorrect == Spec => []TypeOK
<1>1. IInv => TypeOK
  BY DEF IInv
<1>. QED  BY <1>1, Invariant, PTL

\* Of a request nobody works on, searches are right if the last unit of work to end
\* overlapped no other and ended well, and unless a process died the index has the
\* last revision, whatever overlapped (RecordCommitOp, RecordIndexOp).
THEOREM SearchesAreRight == Spec => []SearchesRight
<1>1. ASSUME IInv, NEW r \in Requests, Untouched(r), faults = 0
      PROVE  doc[r].version = version[r]
  <2>1. \A p \in Processes : ~Tells(p, r)
    BY <1>1 DEF Untouched, WorksOn, Tells, Idle
  <2>. QED  BY <1>1, <2>1 DEF IInv, Told
<1>2. IInv => SearchesRight
  BY <1>1 DEF SearchesRight, IInv, Found
<1>. QED  BY <1>2, Invariant, PTL

-----------------------------------------------------------------------------
(* The life cycle. *)

\* What a step does to the status of requests: nothing, or a move of one of them.
LEMMA StatusMoves ==
  ASSUME IInv, [Next]_vars
  PROVE  [Lifecycle!Next]_status
<1>1. Statuses \subseteq Lifecycle!Statuses
  BY DEF Statuses, Lifecycle!Statuses, Lifecycle!ClosedStatuses
<1>2. ASSUME NEW c \in Callers, NEW r \in Requests, Create(c, r)
      PROVE  Lifecycle!Move(r)
  <2>1. PICK to \in {"created", "submitted"} : status' = [status EXCEPT ![r] = to]
    BY <1>2 DEF Create
  <2>2. <<status[r], to>> \in Lifecycle!Transitions /\ to \in Lifecycle!Statuses
    BY <1>2, <2>1 DEF Create, NoStatus, Lifecycle!NoStatus, Lifecycle!Transitions,
       Lifecycle!Statuses
  <2>. QED  BY <2>1, <2>2 DEF Lifecycle!Move
<1>3. ASSUME NEW p \in Processes, Commit(p)
      PROVE  status' = status \/ \E r \in Requests : Lifecycle!Move(r)
  <2>1. PICK r \in Requests : r = work[p].request
    BY <1>3, PhaseTellsForm DEF IInv, Commit, Idle
  <2>. DEFINE t == work[p]
  <2>2. t \in Open /\ OpenRight(t) /\ t.to \in Statuses
    BY <1>3, PhaseTellsForm DEF IInv, WorkRight, Commit, Open
  <2>3. CASE ~t.writes
    BY <1>3, <2>3 DEF Commit
  <2>4. CASE t.writes
    <3>1. t.version = version[r] /\ status' = [status EXCEPT ![r] = t.to]
      BY <1>3, <2>1, <2>4 DEF Commit, VersionMatches
    <3>2. t.to = status[r] \/ <<status[r], t.to>> \in Lifecycle!Transitions
      BY <2>1, <2>2, <3>1 DEF OpenRight
    <3>. HIDE DEF t
    <3>3. t.to = status[r] => status' = status
      BY <3>1 DEF IInv, TypeOK
    <3>4. <<status[r], t.to>> \in Lifecycle!Transitions => Lifecycle!Move(r)
      BY <1>1, <2>2, <3>1 DEF Lifecycle!Move
    <3>. QED  BY <3>2, <3>3, <3>4
  <2>5. t.writes \in BOOLEAN
    BY <2>2 DEF Open
  <2>. QED  BY <2>3, <2>4, <2>5
<1>4. ASSUME NEW p \in Processes, Rollback(p) \/ Index(p) \/ Fail(p)
      PROVE  status' = status
  BY <1>4 DEF Rollback, Index, Load, Send, Conflict, Fail, BreakOff
<1>5. ASSUME NEW c \in Callers, NEW r \in Requests, WriteCall(c, r) \/ Comment(c, r)
      PROVE  status' = status
  BY <1>5 DEF WriteCall, Comment, Begin
<1>6. ASSUME NEW r \in Requests, Pass(r) PROVE status' = status
  BY <1>6 DEF Pass
<1>7. ASSUME NEW t \in Tasks, Start(t) \/ Kill(t) \/ \E r \in Requests : Expire(t, r)
      PROVE  status' = status
  BY <1>7 DEF Start, Kill, Expire, Begin
<1>8. CASE UNCHANGED vars
  BY <1>8 DEF vars
<1>9. Callers \subseteq Processes /\ Tasks \subseteq Processes
  BY DEF Processes
<1>. QED
  BY <1>2, <1>3, <1>4, <1>5, <1>6, <1>7, <1>8, <1>9
  DEF Next, UserCall, Run, Lifecycle!Next

\* Users and any number of overlapping runs of the task follow the life cycle of
\* requests: nothing is decided twice (check_expired_requests).
THEOREM Refinement == Spec => ExpiryFollowsLifecycle
<1>1. Init => Lifecycle!Init
  BY DEF Init, Lifecycle!Init, NoStatus, Lifecycle!NoStatus
<1>2. IInv /\ [Next]_vars => [Lifecycle!Next]_status
  BY StatusMoves
<1>. QED  BY <1>1, <1>2, Invariant, PTL
          DEF Spec, ExpiryFollowsLifecycle, Lifecycle!Spec

=============================================================================
