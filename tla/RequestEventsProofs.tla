------------------------- MODULE RequestEventsProofs -------------------------
(***************************************************************************)
(* Proofs about RequestEvents, EventNotifications and EventTimeline, for   *)
(* every set of users and writers, any number of events and any page size. *)
(*                                                                         *)
(* A job speaks of the index at two moments, when it is sent and when it   *)
(* runs; a reader who walks the pages of a list sees it at as many moments *)
(* as pages.  What links the moments is that events and their documents    *)
(* only grow (Grows): a document is replaced by another one of the same    *)
(* event, and an event keeps its author and its parent.                    *)
(*                                                                         *)
(* A list is a set of numbers in the order Before, and the rank of an      *)
(* event is how many come before it.  A page is then a range of ranks, and *)
(* a rank never falls while documents only appear: this is why an event is *)
(* on a later page or where it was (WalkRight).                            *)
(***************************************************************************)
EXTENDS EventTimeline, EventNotifications, SequenceTheorems, FiniteSetTheorems, TLAPS

\* Documents of different events.
Once(docs) == IsFiniteSet(docs) /\ \A d, e \in docs : d.id = e.id => d = e

\* A document has the parent of its event and lies where this says; an event has
\* one at most.
IndexRight ==
  /\ Once(index)
  /\ \A d \in index :
       d.id \in DOMAIN events /\ d.parent = events[d.id].parent /\ d.shard = Routing(d.id)

\* What every step does to events and documents.
Grows ==
  /\ DOMAIN events \subseteq DOMAIN events'
  /\ \A i \in DOMAIN events :
       /\ events'[i].by = events[i].by
       /\ events'[i].parent = events[i].parent
       /\ events[i].stored => events'[i].stored
  /\ Ids(index) \subseteq Ids(index')

-----------------------------------------------------------------------------
(* Data. *)

\* The events of a request and their numbers.
LEMMA EventForms ==
  ASSUME EventsTypeOK
  PROVE  /\ events \in Seq(Event) /\ Len(events) \in Nat
         /\ DOMAIN events = 1 .. Len(events)
         /\ \A i \in DOMAIN events : events[i] \in Event
BY DEF EventsTypeOK

\* A sequence of events with one more.
LEMMA OneMoreEvent ==
  ASSUME NEW s \in Seq(Event), NEW event \in Event
  PROVE  /\ Append(s, event) \in Seq(Event)
         /\ Len(s) \in Nat /\ DOMAIN s = 1 .. Len(s)
         /\ DOMAIN Append(s, event) = 1 .. Len(s) + 1
         /\ \A i \in DOMAIN s : Append(s, event)[i] = s[i]
         /\ Append(s, event)[Len(s) + 1] = event
<1>. DEFINE longer == Append(s, event)
<1>1. longer \in Seq(Event) /\ Len(longer) = Len(s) + 1 /\ Len(s) \in Nat
  OBVIOUS
<1>2. DOMAIN s = 1 .. Len(s) /\ DOMAIN longer = 1 .. Len(longer)
  BY <1>1
<1>3. /\ \A i \in 1 .. Len(s) : longer[i] = s[i]
      /\ longer[Len(s) + 1] = event
  OBVIOUS
<1>. QED  BY <1>1, <1>2, <1>3

\* Documents that stay as they are stay right while events keep their parents.
LEMMA IndexStays ==
  ASSUME IndexRight, Grows, index' = index
  PROVE  IndexRight'
<1>1. \A i \in DOMAIN events : Routing(i)' = Routing(i)
  BY DEF Grows, Routing
<1>2. \A d \in index' : /\ d.id \in DOMAIN events' /\ d.parent = events'[d.id].parent
                       /\ d.shard = Routing(d.id)'
  BY <1>1 DEF IndexRight, Grows
<1>. QED  BY <1>2 DEF IndexRight

\* Calls that only read change nothing of it.
LEMMA EventsStay ==
  ASSUME EventsTypeOK, IndexRight, UNCHANGED eventVars
  PROVE  EventsTypeOK' /\ IndexRight' /\ Grows
<1>1. UNCHANGED <<request, events, index>>
  BY DEF eventVars
<1>2. Grows /\ EventsTypeOK'
  BY <1>1 DEF EventsTypeOK, Stored, Grows
<1>. QED  BY <1>1, <1>2, IndexStays

LEMMA EventsBegin ==
  ASSUME EventsInit
  PROVE  EventsTypeOK /\ IndexRight
<1>1. events \in Seq(Event) /\ DOMAIN events = {} /\ index = {}
  BY DEF EventsInit
<1>2. Once(index)
  BY <1>1, FS_EmptySet DEF Once
<1>. QED  BY <1>1, <1>2 DEF EventsInit, EventsTypeOK, IndexRight

-----------------------------------------------------------------------------
(* Events. *)

\* Events that change as Grows says, of the right types, keep the events right if
\* every reply hangs on a stored event at the top and no document goes astray.
LEMMA InsertKeeps ==
  ASSUME EventsTypeOK, IndexRight, NEW id \in Identities, NEW kind \in Kinds,
         NEW parent \in Nat, Insert(id, kind, parent),
         parent # 0 => Stored(parent) /\ events[parent].parent = 0
  PROVE  EventsTypeOK' /\ IndexRight' /\ Grows
<1>. DEFINE new == [kind |-> kind, by |-> id, parent |-> parent, stored |-> FALSE]
<1>1. new \in Event
  BY DEF Event
<1>2. events' = Append(events, new) /\ request' = request /\ index' = index
  BY DEF Insert
<1>3. new.parent = parent
  OBVIOUS
<1>. HIDE DEF new
<1>4. /\ events' \in Seq(Event) /\ Len(events) \in Nat
      /\ DOMAIN events = 1 .. Len(events)
      /\ DOMAIN events' = 1 .. Len(events) + 1
      /\ \A i \in DOMAIN events : events'[i] = events[i]
      /\ events'[Len(events) + 1] = new
  BY <1>1, <1>2, EventForms, OneMoreEvent
<1>5. \A i \in DOMAIN events : i \in DOMAIN events'
  BY <1>4
<1>6. \A i : Stored(i) => i \in DOMAIN events /\ Stored(i)'
  BY <1>4, <1>5 DEF Stored
<1>7. ASSUME NEW i \in DOMAIN events', events'[i].parent # 0
      PROVE  /\ events'[i].parent < i
             /\ events'[i].parent \in DOMAIN events'
             /\ events'[events'[i].parent].stored
             /\ events'[events'[i].parent].parent = 0
  <2>1. CASE i \in DOMAIN events
    <3>1. LET p == events[i].parent IN
            p = events'[i].parent /\ p < i /\ Stored(p) /\ events[p].parent = 0
      BY <1>4, <1>7, <2>1 DEF EventsTypeOK
    <3>2. events[i].parent \in DOMAIN events /\ events[events[i].parent].stored
      BY <3>1 DEF Stored
    <3>. QED  BY <1>4, <1>5, <3>1, <3>2
  <2>2. CASE i = Len(events) + 1
    <3>1. events'[i].parent = parent
      BY <1>3, <1>4, <2>2
    <3>2. /\ parent \in DOMAIN events /\ events[parent].stored
          /\ events[parent].parent = 0
      BY <1>7, <3>1 DEF Stored
    <3>3. parent < i
      BY <1>4, <2>2, <3>2
    <3>. QED  BY <1>4, <1>5, <3>1, <3>2, <3>3
  <2>. QED  BY <1>4, <2>1, <2>2
<1>8. \A d \in index' : Stored(d.id)'
  BY <1>2, <1>6 DEF EventsTypeOK
<1>9. EventsTypeOK'
  BY <1>2, <1>4, <1>7, <1>8 DEF EventsTypeOK, Stored
<1>10. Grows
  BY <1>2, <1>4, <1>5 DEF Grows
<1>. QED  BY <1>2, <1>9, <1>10, IndexStays

\* A change of one event that leaves its author and its parent, and stores it if
\* it was stored.
LEMMA EditKeeps ==
  ASSUME EventsTypeOK, IndexRight, NEW i \in DOMAIN events, NEW event \in Event,
         events' = [events EXCEPT ![i] = event],
         event.by = events[i].by, event.parent = events[i].parent,
         events[i].stored => event.stored,
         UNCHANGED <<request, index>>
  PROVE  EventsTypeOK' /\ IndexRight' /\ Grows
<1>1. /\ events' \in Seq(Event) /\ DOMAIN events' = DOMAIN events
      /\ DOMAIN events = 1 .. Len(events) /\ Len(events) \in Nat
      /\ events'[i] = event
      /\ \A j \in DOMAIN events : j # i => events'[j] = events[j]
  BY EventForms
<1>2. Grows
  BY <1>1 DEF Grows
<1>3. \A j : Stored(j) => Stored(j)'
  BY <1>1, <1>2 DEF Grows, Stored
<1>4. ASSUME NEW j \in DOMAIN events', events'[j].parent # 0
      PROVE  /\ events'[j].parent < j
             /\ events'[j].parent \in DOMAIN events'
             /\ events'[events'[j].parent].stored
             /\ events'[events'[j].parent].parent = 0
  <2>1. LET p == events[j].parent IN
          p = events'[j].parent /\ p < j /\ Stored(p) /\ events[p].parent = 0
    BY <1>1, <1>2, <1>4 DEF EventsTypeOK, Grows
  <2>2. events'[j].parent \in DOMAIN events /\ events[events'[j].parent].stored
    BY <2>1 DEF Stored
  <2>3. \A k \in DOMAIN events :
          events'[k].parent = events[k].parent /\ (events[k].stored => events'[k].stored)
    BY <1>2 DEF Grows
  <2>. QED  BY <1>1, <2>1, <2>2, <2>3
<1>5. EventsTypeOK'
  BY <1>1, <1>3, <1>4 DEF EventsTypeOK, Stored
<1>. QED  BY <1>2, <1>5, IndexStays

\* A comment, a reply, a log event.
LEMMA WriteKeeps ==
  ASSUME EventsTypeOK, IndexRight, NEW id \in Identities,
         \/ Comment(id) \/ Log(id)
         \/ \E i \in DOMAIN events : Reply(id, i)
  PROVE  EventsTypeOK' /\ IndexRight' /\ Grows
<1>1. CASE Comment(id)
  BY <1>1, InsertKeeps DEF Comment, Kinds
<1>2. CASE Log(id)
  BY <1>2, InsertKeeps DEF Log, Kinds
<1>3. ASSUME NEW i \in DOMAIN events, Reply(id, i)
      PROVE  EventsTypeOK' /\ IndexRight' /\ Grows
  <2>1. i \in Nat
    BY EventForms
  <2>2. Insert(id, "comment", i) /\ Stored(i) /\ events[i].parent = 0
    BY <1>3 DEF Reply, MayReply
  <2>. QED  BY <2>1, <2>2, InsertKeeps DEF Kinds
<1>. QED  BY <1>1, <1>2, <1>3

\* A commit and a deletion.
LEMMA RowKeeps ==
  ASSUME EventsTypeOK, IndexRight, NEW i \in DOMAIN events,
         Commit(i) \/ \E id \in Identities : Delete(id, i)
  PROVE  EventsTypeOK' /\ IndexRight' /\ Grows
<1>1. events[i] \in Event
  BY EventForms
<1>2. CASE Commit(i)
  <2>. DEFINE event == [events[i] EXCEPT !.stored = TRUE]
  <2>1. event \in Event /\ event.by = events[i].by /\ event.parent = events[i].parent
        /\ event.stored
    BY <1>1 DEF Event
  <2>2. events' = [events EXCEPT ![i] = event] /\ UNCHANGED <<request, index>>
    BY <1>2 DEF Commit
  <2>. HIDE DEF event
  <2>. QED  BY <2>1, <2>2, EditKeeps
<1>3. CASE \E id \in Identities : Delete(id, i)
  <2>. DEFINE event == [events[i] EXCEPT !.kind = "log"]
  <2>1. event \in Event /\ event.by = events[i].by /\ event.parent = events[i].parent
        /\ event.stored = events[i].stored
    BY <1>1 DEF Event, Kinds
  <2>2. events' = [events EXCEPT ![i] = event] /\ UNCHANGED <<request, index>>
    BY <1>3 DEF Delete
  <2>. HIDE DEF event
  <2>. QED  BY <2>1, <2>2, EditKeeps
<1>. QED  BY <1>2, <1>3

\* The document that replaces another one is of the same event.
LEMMA RefreshKeeps ==
  ASSUME EventsTypeOK, IndexRight, NEW i \in DOMAIN events, Refresh(i)
  PROVE  EventsTypeOK' /\ IndexRight' /\ Grows
<1>1. /\ events' = events /\ request' = request
      /\ index' = {d \in index : d.id # i \/ d.shard # Routing(i)} \cup {DocOf(i)}
  BY DEF Refresh
<1>2. events[i] \in Event /\ i \in Nat
  BY EventForms
<1>3. Routing(i) \in Nat
  BY <1>2 DEF Routing, Event
<1>4. DocOf(i) \in Doc /\ DocOf(i).id = i /\ DocOf(i).parent = events[i].parent
  BY <1>2, <1>3 DEF DocOf, Doc, Event
<1>5. \A d \in index' : d \in index \/ d = DocOf(i)
  BY <1>1
<1>6. index' \in SUBSET Doc
  BY <1>4, <1>5 DEF EventsTypeOK
<1>7. \A d \in index' : Stored(d.id)
  BY <1>4, <1>5 DEF EventsTypeOK, Refresh
<1>8. IndexRight'
  <2>1. IsFiniteSet(index')
    <3>1. IsFiniteSet({d \in index : d.id # i \/ d.shard # Routing(i)})
      BY FS_Subset DEF IndexRight, Once
    <3>. QED  BY <1>1, <3>1, FS_AddElement
  <2>2. DocOf(i).shard = Routing(i) /\ \A j : Routing(j)' = Routing(j)
    BY <1>1 DEF DocOf, Routing
  <2>3. \A d \in index' : /\ d.id \in DOMAIN events' /\ d.parent = events'[d.id].parent
                         /\ d.shard = Routing(d.id)'
    BY <1>1, <1>4, <1>5, <2>2 DEF IndexRight
  <2>4. \A d \in index' : d.id = i => d = DocOf(i)
    BY <1>1 DEF IndexRight, Once
  <2>5. ASSUME NEW d \in index', NEW e \in index', d.id = e.id  PROVE d = e
    <3>1. CASE d.id = i
      BY <2>4, <2>5, <3>1
    <3>2. CASE d.id # i
      BY <1>4, <1>5, <2>5, <3>2 DEF IndexRight, Once
    <3>. QED  BY <3>1, <3>2
  <2>. QED  BY <2>1, <2>3, <2>5 DEF IndexRight, Once
<1>9. ASSUME NEW d \in index  PROVE \E e \in index' : e.id = d.id
  <2>1. d \in index' \/ d.id = i
    BY <1>1
  <2>. QED  BY <1>1, <1>4, <2>1
<1>10. Ids(index) \subseteq Ids(index')
  BY <1>9 DEF Ids
<1>11. EventsTypeOK'
  BY <1>1, <1>6, <1>7 DEF EventsTypeOK, Stored
<1>. QED  BY <1>1, <1>8, <1>10, <1>11 DEF Grows

\* Every change of events, index and lock.
LEMMA ChangeKeeps ==
  ASSUME EventsTypeOK, IndexRight, EventsAssumption, Change
  PROVE  EventsTypeOK' /\ IndexRight' /\ Grows
<1>1. ASSUME NEW id \in Writers, Write(id) \/ Log(id)
      PROVE  EventsTypeOK' /\ IndexRight' /\ Grows
  <2>1. id \in Identities
    BY DEF EventsAssumption
  <2>. QED  BY <1>1, <2>1, WriteKeeps, RowKeeps DEF Write
<1>2. ASSUME NEW i \in DOMAIN events, Commit(i) \/ Refresh(i)
      PROVE  EventsTypeOK' /\ IndexRight' /\ Grows
  BY <1>2, RowKeeps, RefreshKeeps
<1>3. ASSUME NEW id \in Identities, NEW locked \in BOOLEAN, SetLock(id, locked)
      PROVE  EventsTypeOK' /\ IndexRight' /\ Grows
  <2>1. events' = events /\ index' = index
        /\ request' = [request EXCEPT !.locked = locked]
    BY <1>3 DEF SetLock
  <2>2. request' \in [status: {"submitted"}, creator: {RequestedBy},
                      receiver: {RequestedOf}, reviewers: {{}}, locked: BOOLEAN]
    BY <2>1 DEF EventsTypeOK
  <2>3. Grows /\ EventsTypeOK'
    BY <2>1, <2>2 DEF EventsTypeOK, Stored, Grows
  <2>. QED  BY <2>1, <2>3, IndexStays
<1>. QED  BY <1>1, <1>2, <1>3 DEF Change


-----------------------------------------------------------------------------
(* The job. *)

\* A job that has not run yet was sent when the index showed less; one that has
\* run has told whom it had to.
JobRight ==
  /\ job.state \in {"started", "run"} =>
       /\ job.event \in DOMAIN events
       /\ job.found \subseteq DOMAIN events
  /\ job.state = "started" => job.found \subseteq Ids(index)

JobInv ==
  /\ JobTypeOK
  /\ IndexRight
  /\ JobRight
  /\ CommentToldToParticipants
  /\ ReplyToldToThread

\* Whatever happens to events and documents, the job stays right.
LEMMA GrowsKeepsJob ==
  ASSUME JobInv, Grows, EventsTypeOK', IndexRight', job' = job
  PROVE  JobInv'
<1>. DEFINE i == job.event
<1>1. job \in Job \cup {NoJob} /\ (job # NoJob => Stored(job.event))
  BY DEF JobInv, JobTypeOK
<1>2. JobTypeOK'
  <2>1. job # NoJob => Stored(job.event)'
    BY <1>1 DEF Grows, Stored
  <2>. QED  BY <1>1, <2>1 DEF JobTypeOK
<1>3. JobRight'
  BY DEF JobInv, JobRight, Grows
<1>4. ASSUME job.state = "run"
      PROVE  /\ i \in DOMAIN events /\ i \in DOMAIN events'
             /\ events'[i].by = events[i].by /\ events'[i].parent = events[i].parent
             /\ Authors(job.found)' = Authors(job.found)
             /\ \A p : Authors(Replies(job.found, p))' = Authors(Replies(job.found, p))
  <2>1. i \in DOMAIN events /\ job.found \subseteq DOMAIN events
    BY <1>4 DEF JobInv, JobRight
  <2>2. /\ Authors(job.found)' = Authors(job.found)
        /\ \A p : Authors(Replies(job.found, p))' = Authors(Replies(job.found, p))
    <3>1. /\ {events'[k].by : k \in job.found} = {events[k].by : k \in job.found}
          /\ \A p : {events'[k].by : k \in {j \in job.found : events'[j].parent = p}}
                      = {events[k].by : k \in {j \in job.found : events[j].parent = p}}
      BY <2>1 DEF Grows
    <3>. QED  BY <3>1 DEF Authors, Replies
  <2>. QED  BY <2>1, <2>2 DEF Grows
<1>5. CommentToldToParticipants'
  BY <1>4 DEF JobInv, CommentToldToParticipants
<1>6. ReplyToldToThread'
  <2>. SUFFICES ASSUME job.state = "run", events'[i].parent # 0
                PROVE  ReplyToldToThread'
    BY DEF ReplyToldToThread
  <2>. DEFINE parent == events[i].parent
  <2>1. /\ ({events[parent].by} \cup Authors(Replies(job.found, parent)))
             \ {System, events[i].by} \subseteq job.to
        /\ \A user \in job.to : \E k \in DOMAIN events :
             events[k].by = user /\ parent \in {k, events[k].parent}
        /\ events[i].by \notin job.to
    BY <1>4 DEF JobInv, ReplyToldToThread
  <2>2. parent \in DOMAIN events
    BY <1>4 DEF JobInv, JobTypeOK, EventsTypeOK, Stored
  <2>3. /\ events'[parent].by = events[parent].by
        /\ \A k \in DOMAIN events :
             /\ k \in DOMAIN events'
             /\ events'[k].by = events[k].by /\ events'[k].parent = events[k].parent
    BY <2>2 DEF Grows
  <2>4. \A user \in job.to : \E k \in DOMAIN events' :
          events'[k].by = user /\ parent \in {k, events'[k].parent}
    BY <2>1, <2>3
  <2>. QED  BY <1>4, <2>1, <2>3, <2>4 DEF ReplyToldToThread
<1>. QED  BY <1>2, <1>3, <1>5, <1>6 DEF JobInv

\* A job is sent for a stored comment, with the index as it is.
LEMMA StartKeeps ==
  ASSUME JobInv, NEW i \in DOMAIN events, StartJob(i)
  PROVE  JobInv'
<1>1. /\ job' = [state |-> "started", event |-> i, found |-> Ids(index), to |-> {}]
      /\ events' = events /\ request' = request /\ index' = index /\ Stored(i)
  BY DEF StartJob, eventVars
<1>2. Ids(index) \subseteq DOMAIN events
  BY DEF JobInv, IndexRight, Ids
<1>3. DOMAIN events \subseteq Nat
  BY EventForms DEF JobInv, JobTypeOK
<1>4. job' \in Job
  BY <1>1, <1>2, <1>3 DEF Job
<1>5. EventsTypeOK' /\ IndexRight'
  BY EventsStay DEF JobInv, JobTypeOK, StartJob
<1>6. job'.state = "started" /\ job'.event = i /\ job'.found = Ids(index)
  BY <1>1
<1>7. JobTypeOK'
  BY <1>1, <1>4, <1>5, <1>6 DEF JobTypeOK, Stored
<1>8. JobRight'
  BY <1>1, <1>2, <1>6 DEF JobRight
<1>. QED  BY <1>5, <1>6, <1>7, <1>8 DEF JobInv, CommentToldToParticipants, ReplyToldToThread

\* The people who are told are users.
LEMMA ToldAreUsers ==
  ASSUME JobInv, EventsAssumption, PolicyAssumption, NEW i \in DOMAIN events
  PROVE  ToldOf(i) \subseteq Users
<1>1. \A k \in DOMAIN events : events[k].by \in Identities
  BY EventForms DEF JobInv, JobTypeOK, Event
<1>2. \A d \in index : d.id \in DOMAIN events
  BY DEF JobInv, IndexRight
<1>3. Authors(Ids(index)) \subseteq Identities
  BY <1>1, <1>2 DEF Authors, Ids
<1>4. \A p : Authors(Replies(Ids(index), p)) \subseteq Identities
  BY <1>1, <1>2 DEF Authors, Ids, Replies
<1>5. events[i].parent # 0 => events[i].parent \in DOMAIN events
  BY DEF JobInv, JobTypeOK, EventsTypeOK, Stored
<1>6. events[i].parent # 0 => events[events[i].parent].by \in Identities
  BY <1>1, <1>5
<1>. QED  BY <1>3, <1>4, <1>6 DEF ToldOf, Participants, ThreadParticipants,
                                  Identities, EventsAssumption

\* A job tells those it was sent for and whoever has been found since.
LEMMA RunKeeps ==
  ASSUME JobInv, EventsAssumption, PolicyAssumption, RunJob
  PROVE  JobInv'
<1>. DEFINE i == job.event
<1>1. /\ job.state = "started" /\ job' = [job EXCEPT !.state = "run", !.to = ToldOf(i)]
      /\ events' = events /\ request' = request /\ index' = index
  BY DEF RunJob, eventVars
<1>2. job \in Job /\ job # NoJob
  BY <1>1 DEF JobInv, JobTypeOK, NoJob
<1>3. i \in DOMAIN events /\ Stored(i) /\ job.found \subseteq Ids(index)
      /\ job.found \subseteq DOMAIN events /\ Ids(index) \subseteq DOMAIN events
  BY <1>1, <1>2 DEF JobInv, JobTypeOK, JobRight, IndexRight, Ids
<1>4. ToldOf(i) \subseteq Users
  BY <1>3, ToldAreUsers
<1>5. /\ job'.state = "run" /\ job'.event = i /\ job'.found = job.found
      /\ job'.to = ToldOf(i) /\ job' \in Job
  BY <1>1, <1>2, <1>4 DEF Job
<1>6. JobTypeOK' /\ IndexRight' /\ JobRight'
  <2>1. EventsTypeOK' /\ IndexRight'
    BY EventsStay DEF JobInv, JobTypeOK, RunJob
  <2>2. JobRight'
    BY <1>1, <1>3, <1>5 DEF JobRight
  <2>. QED  BY <1>1, <1>3, <1>5, <2>1, <2>2 DEF JobTypeOK, Stored
<1>7. CommentToldToParticipants'
  <2>1. events[i].parent = 0 =>
          ToldOf(i) = ({RequestedBy, RequestedOf} \cup Authors(Ids(index)))
                        \ {System, events[i].by}
    BY DEF ToldOf, Participants
  <2>2. Authors(job.found) \subseteq Authors(Ids(index))
    BY <1>3 DEF Authors
  <2>. QED  BY <1>1, <1>5, <2>1, <2>2 DEF CommentToldToParticipants, Authors
<1>8. ReplyToldToThread'
  <2>. DEFINE parent == events[i].parent
  <2>. SUFFICES ASSUME parent # 0  PROVE ReplyToldToThread'
    BY <1>1, <1>5 DEF ReplyToldToThread
  <2>1. ToldOf(i) = ({events[parent].by} \cup Authors(Replies(Ids(index), parent)))
                      \ {System, events[i].by}
    BY DEF ToldOf, ThreadParticipants
  <2>2. Authors(Replies(job.found, parent)) \subseteq Authors(Replies(Ids(index), parent))
    BY <1>3 DEF Authors, Replies
  <2>3. parent \in DOMAIN events
    BY <1>3 DEF JobInv, JobTypeOK, EventsTypeOK, Stored
  <2>4. \A user \in Authors(Replies(Ids(index), parent)) : \E k \in DOMAIN events :
          events[k].by = user /\ events[k].parent = parent
    BY <1>3 DEF Authors, Replies
  <2>5. \A user \in ToldOf(i) : \E k \in DOMAIN events :
          events[k].by = user /\ parent \in {k, events[k].parent}
    BY <2>1, <2>3, <2>4
  <2>6. /\ ({events[parent].by} \cup Authors(Replies(job.found, parent)))
             \ {System, events[i].by} \subseteq ToldOf(i)
        /\ events[i].by \notin ToldOf(i)
    BY <2>1, <2>2
  <2>. QED  BY <1>1, <1>5, <2>5, <2>6 DEF ReplyToldToThread, Authors, Replies
<1>. QED  BY <1>6, <1>7, <1>8 DEF JobInv

-----------------------------------------------------------------------------
(* The invariant of the job. *)

\* There are no events and no job to begin with.
LEMMA JobInitHolds ==
  ASSUME JobInit
  PROVE  JobInv
<1>1. EventsTypeOK /\ IndexRight
  BY EventsBegin DEF JobInit
<1>. QED  BY <1>1 DEF JobInit, JobInv, JobTypeOK, JobRight, NoJob,
                      CommentToldToParticipants, ReplyToldToThread

\* Every step keeps the invariant, one that does nothing included.
LEMMA JobKept ==
  ASSUME JobInv, EventsAssumption, PolicyAssumption, [JobNext]_jobVars
  PROVE  JobInv'
<1>1. CASE UNCHANGED jobVars
  <2>1. EventsTypeOK' /\ IndexRight' /\ Grows
    BY <1>1, EventsStay DEF jobVars, eventVars, JobInv, JobTypeOK
  <2>. QED  BY <1>1, <2>1, GrowsKeepsJob DEF jobVars
<1>2. CASE Change /\ UNCHANGED job
  BY <1>2, ChangeKeeps, GrowsKeepsJob DEF JobInv, JobTypeOK
<1>. QED  BY <1>1, <1>2, StartKeeps, RunKeeps DEF JobNext

\* The invariant holds throughout.
LEMMA JobInvariant == JobSpec => []JobInv
<1>1. JobInit => JobInv
  BY JobInitHolds
<1>2. JobInv /\ [JobNext]_jobVars => JobInv'
  BY JobKept, EventsAssumption, PolicyAssumption
<1>. QED  BY <1>1, <1>2, PTL DEF JobSpec

\* Events, documents and jobs keep their types; a reply hangs on a stored event at
\* the top that is older than it, and a document is of a stored event.
THEOREM JobTypeCorrect == JobSpec => []JobTypeOK
<1>1. JobInv => JobTypeOK
  BY DEF JobInv
<1>. QED  BY <1>1, JobInvariant, PTL

\* However late a job for a comment runs, it tells creator, receiver and all whose
\* events had been found when it was sent, and never the author.
THEOREM CommentIsTold == JobSpec => []CommentToldToParticipants
<1>1. JobInv => CommentToldToParticipants
  BY DEF JobInv
<1>. QED  BY <1>1, JobInvariant, PTL

\* A job for a reply tells the author above, found or not, and those who had been
\* found to reply to it, and nobody who is not of the thread.
THEOREM ReplyIsTold == JobSpec => []ReplyToldToThread
<1>1. JobInv => ReplyToldToThread
  BY DEF JobInv
<1>. QED  BY <1>1, JobInvariant, PTL

\* What the schema and the links offer on a document that is up to date, the
\* events service admits.
THEOREM OffersAreAdmitted == JobSpec => []OfferedIsAdmitted
<1>1. ASSUME JobInv  PROVE OfferedIsAdmitted
  <2>. SUFFICES ASSUME NEW d \in index, NEW id \in CanRead(request),
                       d.kind = events[d.id].kind
                PROVE  /\ OffersUpdate(id, d) => MayUpdate(id, d.id)
                       /\ OffersDelete(id, d) => MayDelete(id, d.id)
                       /\ OffersReply(id, d)  => MayReply(id, d.id)
    BY DEF OfferedIsAdmitted
  <2>1. Stored(d.id) /\ d.parent = events[d.id].parent
    BY <1>1 DEF JobInv, JobTypeOK, EventsTypeOK, IndexRight
  <2>. QED  BY <2>1 DEF OffersUpdate, MayUpdate, OffersDelete, MayDelete,
                        OffersReply, MayReply
<1>2. JobInv => OfferedIsAdmitted
  BY <1>1
<1>. QED  BY <1>2, JobInvariant, PTL


-----------------------------------------------------------------------------
(* Order: the places of a list. *)

\* The elements of S that R puts before x.
Below(S, R, x) == {y \in S : <<y, x>> \in R}

\* R orders S, strictly and totally.
Orders(R, S) ==
  /\ \A x \in S : <<x, x>> \notin R
  /\ \A x, y, z \in S : <<x, y>> \in R /\ <<y, z>> \in R => <<x, z>> \in R
  /\ \A x, y \in S : x # y => <<x, y>> \in R \/ <<y, x>> \in R

\* Whatever orders a finite set gives every element a number of its own, from 0
\* upwards, and leaves out none.
LEMMA Numbering ==
  ASSUME NEW S, IsFiniteSet(S), NEW R, Orders(R, S)
  PROVE  /\ Cardinality(S) \in Nat
         /\ \A x \in S : Cardinality(Below(S, R, x)) \in 0 .. Cardinality(S) - 1
         /\ \A x, y \in S :
              <<x, y>> \in R <=> Cardinality(Below(S, R, x)) < Cardinality(Below(S, R, y))
         /\ \A k \in 0 .. Cardinality(S) - 1 :
              \E x \in S : Cardinality(Below(S, R, x)) = k
<1>. DEFINE n == Cardinality(S)
            rank(x) == Cardinality(Below(S, R, x))
<1>1. n \in Nat
  BY FS_CardinalityType
<1>2. \A x \in S : Below(S, R, x) \in SUBSET S /\ IsFiniteSet(Below(S, R, x))
  BY FS_Subset DEF Below
<1>3. \A x \in S : rank(x) \in Nat
  BY <1>2, FS_CardinalityType
<1>4. ASSUME NEW x \in S  PROVE rank(x) < n
  <2>1. x \notin Below(S, R, x)
    BY DEF Below, Orders
  <2>2. rank(x) <= n /\ rank(x) # n
    BY <1>2, <2>1, FS_Subset
  <2>. QED  BY <1>1, <1>3, <2>2
<1>5. ASSUME NEW x \in S, NEW y \in S, <<x, y>> \in R  PROVE rank(x) < rank(y)
  <2>1. Below(S, R, x) \in SUBSET Below(S, R, y)
    BY <1>5 DEF Below, Orders
  <2>2. x \in Below(S, R, y) /\ x \notin Below(S, R, x)
    BY <1>5 DEF Below, Orders
  <2>3. rank(x) <= rank(y) /\ rank(x) # rank(y)
    BY <1>2, <2>1, <2>2, FS_Subset
  <2>. QED  BY <1>3, <2>3
<1>6. ASSUME NEW x \in S, NEW y \in S, rank(x) < rank(y)  PROVE <<x, y>> \in R
  <2>1. x # y /\ <<y, x>> \notin R
    BY <1>3, <1>5, <1>6
  <2>. QED  BY <2>1 DEF Orders
<1>7. \A k \in 0 .. n - 1 : \E x \in S : rank(x) = k
  <2>. DEFINE f == [x \in S |-> rank(x)]
  <2>1. f \in [S -> 0 .. n - 1]
    BY <1>1, <1>3, <1>4
  <2>2. \A x, y \in S : f[x] = f[y] => x = y
    <3>1. ASSUME NEW x \in S, NEW y \in S, rank(x) = rank(y), x # y  PROVE FALSE
      <4>1. rank(x) < rank(y) \/ rank(y) < rank(x)
        BY <1>5, <3>1 DEF Orders
      <4>. QED  BY <1>3, <3>1, <4>1
    <3>. QED  BY <3>1
  <2>3. f \in Injection(S, 0 .. n - 1)
    BY <2>1, <2>2 DEF Injection, IsInjective
  <2>4. IsFiniteSet(0 .. n - 1) /\ Cardinality(0 .. n - 1) = n
    BY <1>1, FS_Interval
  <2>5. f \in Surjection(S, 0 .. n - 1)
    <3>. HIDE DEF f
    <3>. QED BY <2>3, <2>4, FS_Injection
  <2>. QED  BY <2>5 DEF Surjection
<1>. QED  BY <1>1, <1>3, <1>4, <1>5, <1>6, <1>7

\* How many of K come before i: its place, as the list is numbered from 0.
Rank(K, sort, i) == Cardinality({j \in K : Before(sort, j, i)})

\* The first n of a list, and those from place m up to n.
Firsts(K, sort, n) == {i \in K : Rank(K, sort, i) < n}
Places(K, sort, m, n) == {i \in K : Rank(K, sort, i) \in m .. n - 1}

\* Every element of a list has a place, and every place an element.
LEMMA RankRight ==
  ASSUME NEW K \in SUBSET Nat, IsFiniteSet(K), NEW sort \in Sorts
  PROVE  /\ Cardinality(K) \in Nat
         /\ \A i : Rank(K, sort, i) \in Nat /\ Rank(K, sort, i) <= Cardinality(K)
         /\ \A i \in K : Rank(K, sort, i) < Cardinality(K)
         /\ \A k \in 0 .. Cardinality(K) - 1 : \E i \in K : Rank(K, sort, i) = k
<1>. DEFINE R == {r \in K \X K : Before(sort, r[1], r[2])}
<1>1. \A x, y : <<x, y>> \in R <=> x \in K /\ y \in K /\ Before(sort, x, y)
  OBVIOUS
<1>. HIDE DEF R
<1>2. \A x, y \in Nat : Before(sort, x, y) <=> IF sort = "oldest" THEN x < y ELSE x > y
  BY DEF Before
<1>3. Orders(R, K)
  <2>1. \A x \in K : <<x, x>> \notin R
    BY <1>1, <1>2
  <2>2. \A x, y, z \in K : <<x, y>> \in R /\ <<y, z>> \in R => <<x, z>> \in R
    BY <1>1, <1>2
  <2>3. \A x, y \in K : x # y => <<x, y>> \in R \/ <<y, x>> \in R
    BY <1>1, <1>2
  <2>. QED  BY <2>1, <2>2, <2>3 DEF Orders
<1>4. \A i \in K : Below(K, R, i) = {j \in K : Before(sort, j, i)}
  BY <1>1 DEF Below
<1>5. \A i \in K : Rank(K, sort, i) = Cardinality(Below(K, R, i))
  BY <1>4 DEF Rank
<1>6. Cardinality(K) \in Nat
  BY FS_CardinalityType
<1>7. \A i \in K : Cardinality(Below(K, R, i)) \in 0 .. Cardinality(K) - 1
  BY <1>3, Numbering
<1>8. \A k \in 0 .. Cardinality(K) - 1 : \E i \in K : Cardinality(Below(K, R, i)) = k
  BY <1>3, Numbering
<1>9. \A i : Rank(K, sort, i) \in Nat /\ Rank(K, sort, i) <= Cardinality(K)
  <2>. SUFFICES ASSUME NEW i
                PROVE  Rank(K, sort, i) \in Nat /\ Rank(K, sort, i) <= Cardinality(K)
    OBVIOUS
  <2>. DEFINE before == {j \in K : Before(sort, j, i)}
  <2>1. before \in SUBSET K
    OBVIOUS
  <2>2. IsFiniteSet(before) /\ Cardinality(before) <= Cardinality(K)
    BY <2>1, FS_Subset
  <2>. HIDE DEF before
  <2>3. Cardinality(before) \in Nat
    BY <2>2, FS_CardinalityType
  <2>. QED  BY <2>2, <2>3 DEF before, Rank
<1>10. \A i \in K : Rank(K, sort, i) < Cardinality(K)
  BY <1>5, <1>6, <1>7
<1>11. \A k \in 0 .. Cardinality(K) - 1 : \E i \in K : Rank(K, sort, i) = k
  BY <1>5, <1>8
<1>. QED  BY <1>6, <1>9, <1>10, <1>11

\* In a longer list places come no earlier; the same, if nothing new comes before
\* them; and after all that was there, if nothing new came before anything.
LEMMA RankGrows ==
  ASSUME NEW L \in SUBSET Nat, IsFiniteSet(L), NEW K \in SUBSET L, NEW sort \in Sorts
  PROVE  /\ \A i : Rank(K, sort, i) <= Rank(L, sort, i)
         /\ \A i : (\A new \in L \ K : ~Before(sort, new, i)) =>
                     Rank(L, sort, i) = Rank(K, sort, i)
         /\ ~Overtakes(sort, K, L) =>
              \A new \in L \ K : Cardinality(K) <= Rank(L, sort, new)
<1>1. IsFiniteSet(K)
  BY FS_Subset
<1>2. ASSUME NEW i  PROVE Rank(K, sort, i) <= Rank(L, sort, i)
  <2>. DEFINE k == {j \in K : Before(sort, j, i)}
              l == {j \in L : Before(sort, j, i)}
  <2>1. k \in SUBSET l /\ l \in SUBSET L
    OBVIOUS
  <2>. HIDE DEF k, l
  <2>2. IsFiniteSet(l)
    BY <2>1, FS_Subset
  <2>3. Cardinality(k) <= Cardinality(l)
    BY <2>1, <2>2, FS_Subset
  <2>. QED  BY <2>3 DEF k, l, Rank
<1>3. ASSUME NEW i, \A new \in L \ K : ~Before(sort, new, i)
      PROVE  Rank(L, sort, i) = Rank(K, sort, i)
  <2>1. {j \in L : Before(sort, j, i)} = {j \in K : Before(sort, j, i)}
    BY <1>3, Zenon
  <2>. QED  BY <2>1 DEF Rank
<1>4. ASSUME ~Overtakes(sort, K, L), NEW new \in L \ K
      PROVE  Cardinality(K) <= Rank(L, sort, new)
  <2>. DEFINE before == {j \in L : Before(sort, j, new)}
  <2>1. \A old \in K : ~Before(sort, new, old)
    BY <1>4 DEF Overtakes
  <2>2. \A old \in K : Before(sort, old, new)
    <3>. SUFFICES ASSUME NEW old \in K  PROVE Before(sort, old, new)
      OBVIOUS
    <3>1. old \in Nat /\ new \in Nat /\ old # new /\ sort \in {"oldest", "newest"}
      BY <1>4 DEF Sorts
    <3>. QED  BY <2>1, <3>1 DEF Before
  <2>3. K \in SUBSET before /\ before \in SUBSET L
    BY <2>2
  <2>. HIDE DEF before
  <2>4. IsFiniteSet(before)
    BY <2>3, FS_Subset
  <2>5. Cardinality(K) <= Cardinality(before)
    BY <2>3, <2>4, FS_Subset
  <2>. QED  BY <2>5 DEF before, Rank
<1>. QED  BY <1>2, <1>3, <1>4

\* Pages cover the list: the place of an element lies on its page.
LEMMA PlaceOnPage ==
  ASSUME NEW r \in Nat, NEW size \in Nat \ {0}
  PROVE  /\ r \div size \in Nat
         /\ (r \div size) * size <= r /\ r <= (r \div size) * size + size - 1
OBVIOUS


-----------------------------------------------------------------------------
(* Lists of documents, and the events they are of. *)

\* As many documents as events.
LEMMA DocsAreEvents ==
  ASSUME NEW S, Once(S), NEW docs \in SUBSET S
  PROVE  /\ IsFiniteSet(docs) /\ IsFiniteSet(Ids(docs))
         /\ Cardinality(docs) = Cardinality(Ids(docs))
<1>. DEFINE f == [d \in docs |-> d.id]
<1>1. IsFiniteSet(docs)
  BY FS_Subset DEF Once
<1>2. f \in Bijection(docs, Ids(docs))
  <2>1. f \in [docs -> Ids(docs)]
    BY DEF Ids
  <2>2. \A d, e \in docs : f[d] = f[e] => d = e
    BY DEF Once
  <2>3. \A i \in Ids(docs) : \E d \in docs : f[d] = i
    BY DEF Ids
  <2>. HIDE DEF f
  <2>. QED  BY <2>1, <2>2, <2>3 DEF Bijection, Injection, Surjection, IsInjective
<1>3. ExistsBijection(docs, Ids(docs))
  BY <1>2 DEF ExistsBijection
<1>. QED  BY <1>1, <1>3, FS_Bijection

\* The place of a document is that of its event.
LEMMA PlaceIsRank ==
  ASSUME IndexRight, NEW docs \in SUBSET index, NEW sort, NEW i
  PROVE  Place(docs, sort, i) = Rank(Ids(docs), sort, i)
<1>. DEFINE before == {d \in docs : Before(sort, d.id, i)}
<1>1. before \in SUBSET index
  OBVIOUS
<1>2. Ids(before) = {j \in Ids(docs) : Before(sort, j, i)}
  <2>1. \A j : j \in Ids(before) <=> j \in Ids(docs) /\ Before(sort, j, i)
    BY DEF Ids
  <2>. QED  BY <2>1, Zenon
<1>. HIDE DEF before
<1>3. Cardinality(before) = Cardinality(Ids(before))
  BY <1>1, DocsAreEvents DEF IndexRight
<1>. QED  BY <1>2, <1>3 DEF before, Place, Rank

\* A page holds the events in its places, each once.
LEMMA PageRight ==
  ASSUME IndexRight, NEW docs \in SUBSET index, NEW sort, NEW size, NEW page
  PROVE  /\ Ids(Page(docs, sort, size, page)) =
              Places(Ids(docs), sort, (page - 1) * size, page * size)
         /\ Cardinality(Page(docs, sort, size, page)) =
              Cardinality(Ids(Page(docs, sort, size, page)))
<1>. DEFINE places == (page - 1) * size .. page * size - 1
            hits   == Page(docs, sort, size, page)
<1>1. \A d : d \in hits <=> d \in docs /\ Rank(Ids(docs), sort, d.id) \in places
  BY PlaceIsRank, Zenon DEF Page
<1>2. hits \in SUBSET index
  BY <1>1
<1>. HIDE DEF hits, places
<1>3. \A i : i \in Ids(hits) <=> i \in Ids(docs) /\ Rank(Ids(docs), sort, i) \in places
  BY <1>1 DEF Ids
<1>4. Ids(hits) = {i \in Ids(docs) : Rank(Ids(docs), sort, i) \in places}
  BY <1>3, Zenon
<1>5. Cardinality(hits) = Cardinality(Ids(hits))
  BY <1>2, DocsAreEvents DEF IndexRight
<1>. QED  BY <1>4, <1>5 DEF hits, places, Places

\* A list holds stored events, and gets longer.
LEMMA FoundRight ==
  ASSUME EventsTypeOK, IndexRight, NEW parent
  PROVE  /\ Found(parent) \in SUBSET index
         /\ Ids(Found(parent)) \in SUBSET Nat /\ IsFiniteSet(Ids(Found(parent)))
         /\ 0 \notin Ids(Found(parent))
         /\ \A i : i \in Ids(Found(parent)) <=> i \in Ids(index) /\ events[i].parent = parent
<1>1. Found(parent) \in SUBSET index
  BY DEF Found
<1>2. IsFiniteSet(Ids(Found(parent)))
  BY <1>1, DocsAreEvents DEF IndexRight
<1>3. \A i : i \in Ids(Found(parent)) <=> i \in Ids(index) /\ events[i].parent = parent
  BY DEF Found, Ids, IndexRight
<1>4. \A i \in Ids(index) : i \in DOMAIN events
  BY DEF Ids, IndexRight
<1>5. \A i \in DOMAIN events : i \in Nat /\ i # 0
  BY EventForms
<1>. QED  BY <1>1, <1>2, <1>3, <1>4, <1>5

LEMMA FoundGrows ==
  ASSUME EventsTypeOK, IndexRight, Grows, EventsTypeOK', IndexRight', NEW parent
  PROVE  /\ Ids(Found(parent)) \in SUBSET Ids(Found(parent)')
         /\ Ids(Found(parent)') \in SUBSET Nat /\ IsFiniteSet(Ids(Found(parent)'))
<1>1. Ids(Found(parent)) \in SUBSET Ids(Found(parent)')
  <2>. SUFFICES ASSUME NEW i \in Ids(Found(parent))  PROVE i \in Ids(Found(parent)')
    OBVIOUS
  <2>1. i \in Ids(index) /\ events[i].parent = parent
    BY FoundRight
  <2>2. i \in Ids(index') /\ i \in DOMAIN events
    BY <2>1 DEF Grows, Ids, IndexRight
  <2>3. events'[i].parent = parent
    BY <2>1, <2>2 DEF Grows
  <2>4. PICK d \in index' : d.id = i
    BY <2>2 DEF Ids
  <2>5. d.parent = parent
    BY <2>3, <2>4 DEF IndexRight
  <2>. QED  BY <2>4, <2>5 DEF Found, Ids
<1>2. Found(parent)' \in SUBSET index' /\ Once(index') /\ index' \in SUBSET Doc
  BY DEF Found, IndexRight, EventsTypeOK
<1>3. IsFiniteSet(Ids(Found(parent)'))
  BY <1>2, DocsAreEvents
<1>4. Ids(Found(parent)') \in SUBSET Nat
  BY <1>2 DEF Ids, Doc
<1>. QED  BY <1>1, <1>3, <1>4


-----------------------------------------------------------------------------
(* The list a client is reading. *)

\* Where a walk is: nothing that was there at its start lies behind it unread; and
\* as long as nothing came in ahead of what was there, it has read all that lies
\* behind it, each event once.
WalkRight ==
  query.mode = "walk" =>
    LET now  == Ids(Found(query.parent))
        next == (query.page - 1) * query.size
    IN
    /\ query.page >= 1
    /\ query.first \subseteq query.known /\ query.known \subseteq now
    /\ next <= Cardinality(query.known)
    /\ \A i \in query.first : Rank(now, query.sort, i) < next => i \in query.seen
    /\ ~query.late =>
         /\ query.seen = Firsts(query.known, query.sort, next)
         /\ query.hits = Cardinality(query.seen)

\* The page is that of the target in the list as it was counted.
CountRight ==
  query.mode = "counted" =>
    /\ query.known \subseteq Ids(Found(query.parent))
    /\ query.target # 0 =>
         query.page = Rank(query.known, DefaultSort(query.parent), query.target)
                        \div query.size + 1

IInv ==
  /\ TypeOK
  /\ IndexRight
  /\ WalkRight /\ WalkSkipsNothing /\ WalkIsExact
  /\ CountRight /\ FocusShown

\* A query is what its mode says.
LEMMA QueryForms ==
  ASSUME TypeOK
  PROVE  /\ query.mode \in {"walk", "walked"} => query \in Walk
         /\ query.mode \in {"counted", "focused"} => query \in Focus
<1>1. query \in Walk => query.mode \in {"walk", "walked"}
  BY DEF Walk
<1>2. query \in Focus => query.mode \in {"counted", "focused"}
  BY DEF Focus
<1>3. Idle.mode = "idle"
  BY DEF Idle
<1>. QED  BY <1>1, <1>2, <1>3 DEF TypeOK

\* Whatever is written and indexed, what a client has read stays right.
LEMMA GrowsKeepsQuery ==
  ASSUME IInv, Grows, EventsTypeOK', IndexRight', query' = query
  PROVE  IInv'
<1>. DEFINE now   == Ids(Found(query.parent))
            later == Ids({d \in index' : d.parent = query.parent})
<1>1. TypeOK'
  BY DEF IInv, TypeOK
<1>2. Ids(Found(query.parent))' = later
  BY DEF Found
<1>3. now \in SUBSET later /\ later \in SUBSET Nat /\ IsFiniteSet(later)
  <2>1. \A parent : /\ Ids(Found(parent)) \in SUBSET Ids({d \in index' : d.parent = parent})
                    /\ Ids({d \in index' : d.parent = parent}) \in SUBSET Nat
                    /\ IsFiniteSet(Ids({d \in index' : d.parent = parent}))
    BY FoundGrows DEF Found, IInv, TypeOK
  <2>. QED  BY <2>1
<1>4. WalkRight'
  <2>. SUFFICES ASSUME query.mode = "walk"  PROVE WalkRight'
    BY DEF WalkRight
  <2>. DEFINE next == (query.page - 1) * query.size
  <2>1. /\ query.page >= 1
        /\ query.first \subseteq query.known /\ query.known \subseteq now
        /\ next <= Cardinality(query.known)
        /\ \A i \in query.first : Rank(now, query.sort, i) < next => i \in query.seen
        /\ ~query.late =>
             /\ query.seen = Firsts(query.known, query.sort, next)
             /\ query.hits = Cardinality(query.seen)
    BY DEF IInv, WalkRight
  <2>2. query.sort \in Sorts /\ next \in Int
    <3>1. query \in Walk
      BY QueryForms DEF IInv
    <3>2. query.sort \in Sorts /\ query.page \in Nat /\ query.size \in Nat
      BY <3>1, TimelineAssumption DEF Walk
    <3>. QED  BY <3>2
  <2>. HIDE DEF now, later, next
  <2>3. \A i \in query.first : Rank(later, query.sort, i) < next => i \in query.seen
    <3>. SUFFICES ASSUME NEW i \in query.first, Rank(later, query.sort, i) < next
                  PROVE  i \in query.seen
      OBVIOUS
    <3>1. Rank(now, query.sort, i) <= Rank(later, query.sort, i)
      BY <1>3, <2>2, RankGrows
    <3>2. now \in SUBSET Nat /\ IsFiniteSet(now)
      BY <1>3, FS_Subset
    <3>3. Rank(now, query.sort, i) \in Nat /\ Rank(later, query.sort, i) \in Nat
      BY <1>3, <2>2, <3>2, RankRight
    <3>4. Rank(now, query.sort, i) < next
      BY <2>2, <3>1, <3>3
    <3>. QED  BY <2>1, <3>4
  <2>4. query.known \subseteq later
    BY <1>3, <2>1
  <2>. QED  BY <1>2, <2>1, <2>3, <2>4 DEF WalkRight, next, Firsts, Rank, Before
<1>5. CountRight'
  BY <1>2, <1>3 DEF IInv, CountRight, Rank, Before, DefaultSort
<1>6. WalkSkipsNothing' /\ WalkIsExact' /\ FocusShown'
  BY DEF IInv, WalkSkipsNothing, WalkIsExact, FocusShown, Focused, DefaultSort
<1>. QED  BY <1>1, <1>4, <1>5, <1>6 DEF IInv


\* A walk begins at the first page with nothing read.
LEMMA StartWalkKeeps ==
  ASSUME IInv, TimelineAssumption, NEW id, NEW parent \in {0} \cup DOMAIN events,
         NEW sort \in Sorts, NEW size \in PageSizes, StartWalk(id, parent, sort, size)
  PROVE  IInv'
<1>. DEFINE now == Ids(Found(parent))
<1>1. /\ query' = [mode |-> "walk", parent |-> parent, sort |-> sort, size |-> size,
                   page |-> 1, first |-> now, known |-> now, seen |-> {}, hits |-> 0,
                   late |-> FALSE]
      /\ UNCHANGED eventVars /\ UNCHANGED <<request, events, index>>
  BY DEF StartWalk, eventVars
<1>2. now \in SUBSET Nat /\ IsFiniteSet(now)
  BY FoundRight DEF IInv, TypeOK
<1>3. parent \in Nat
  BY EventForms DEF IInv, TypeOK
<1>4. size \in Nat \ {0}
  BY DEF TimelineAssumption
<1>5. EventsTypeOK' /\ IndexRight'
  BY <1>1, EventsStay DEF IInv, TypeOK
<1>6. Ids(Found(parent))' = now
  BY <1>1 DEF Found
<1>. HIDE DEF now
<1>7. query' \in Walk
  BY <1>1, <1>2, <1>3 DEF Walk
<1>8. /\ query'.mode = "walk" /\ query'.parent = parent /\ query'.sort = sort
      /\ query'.size = size /\ query'.page = 1 /\ query'.first = now
      /\ query'.known = now /\ query'.seen = {} /\ query'.hits = 0 /\ query'.late = FALSE
  BY <1>1
<1>9. (query'.page - 1) * query'.size = 0
  BY <1>4, <1>8
<1>10. \A i : ~(Rank(now, sort, i) < 0)
  <2>1. \A i : Rank(now, sort, i) \in Nat
    BY <1>2, RankRight
  <2>. QED  BY <2>1
<1>11. Cardinality(now) \in Nat /\ 0 <= Cardinality(now) /\ Cardinality({}) = 0
  BY <1>2, FS_CardinalityType, FS_EmptySet
<1>12. Ids(Found(query.parent))' = now
  BY <1>1, <1>6, <1>8 DEF Found
<1>13. \A i : Rank(now, query'.sort, i) = Rank(now, sort, i)
  BY <1>8
<1>14. WalkRight'
  <2>. DEFINE next == (query'.page - 1) * query'.size
  <2>1. next = 0
    BY <1>9
  <2>. HIDE DEF next
  <2>2. /\ query'.page >= 1
        /\ query'.first \subseteq query'.known /\ query'.known \subseteq now
        /\ next <= Cardinality(query'.known)
    BY <1>8, <1>11, <2>1
  <2>3. Firsts(query'.known, query'.sort, next) = {}
    BY <1>8, <1>10, <2>1 DEF Firsts
  <2>4. \A i \in query'.first : ~(Rank(now, query'.sort, i) < next)
    BY <1>8, <1>10, <2>1
  <2>5. query'.seen = {} /\ query'.hits = Cardinality(query'.seen)
    BY <1>8, <1>11
  <2>. QED  BY <1>12, <2>2, <2>3, <2>4, <2>5 DEF WalkRight, next, Firsts, Rank, Before
<1>15. CountRight' /\ WalkSkipsNothing' /\ WalkIsExact' /\ FocusShown'
  BY <1>8 DEF CountRight, WalkSkipsNothing, WalkIsExact, FocusShown
<1>. QED  BY <1>5, <1>7, <1>14, <1>15 DEF IInv, TypeOK

\* The first m of K and the places from m up to n of L are the first n of L, no
\* element in both.
Joins(K, L, sort, m, n) ==
  LET firsts == Firsts(K, sort, m)
      places == Places(L, sort, m, n)
  IN  /\ firsts \cup places = Firsts(L, sort, n)
      /\ Cardinality(firsts \cup places) = Cardinality(firsts) + Cardinality(places)

\* A page joins what was read before it if nothing came in ahead of that.
LEMMA ReadOn ==
  ASSUME NEW now, NEW known, NEW sort, NEW next, NEW end,
         now \in SUBSET Nat, IsFiniteSet(now), known \in SUBSET now, sort \in Sorts,
         next \in Nat, end \in Nat, next <= end, next <= Cardinality(known),
         ~Overtakes(sort, known, now)
  PROVE  Joins(known, now, sort, next, end)
<1>. DEFINE seen == Firsts(known, sort, next)
            read == Places(now, sort, next, end)
<1>1. \A i : Rank(now, sort, i) \in Nat
  BY RankRight
<1>2. \A i \in known : Rank(now, sort, i) = Rank(known, sort, i)
  BY RankGrows DEF Overtakes
<1>3. \A i \in now \ known : next <= Rank(now, sort, i)
  <2>. SUFFICES ASSUME NEW i \in now \ known  PROVE next <= Rank(now, sort, i)
    OBVIOUS
  <2>1. Cardinality(known) <= Rank(now, sort, i)
    BY RankGrows
  <2>2. Cardinality(known) \in Nat /\ Rank(now, sort, i) \in Nat
    BY <1>1, FS_Subset, FS_CardinalityType
  <2>. QED  BY <2>1, <2>2
<1>4. \A i : i \in seen <=> i \in now /\ Rank(now, sort, i) < next
  <2>1. \A i \in now \ known : ~(Rank(now, sort, i) < next)
    BY <1>1, <1>3
  <2>. QED  BY <1>2, <2>1 DEF Firsts
<1>5. \A i : i \in read <=> i \in now /\ next <= Rank(now, sort, i) /\ Rank(now, sort, i) < end
  BY <1>1 DEF Places
<1>. HIDE DEF seen, read
<1>6. \A i : i \in seen \cup read <=> i \in now /\ Rank(now, sort, i) < end
  BY <1>1, <1>4, <1>5
<1>7. seen \cup read = Firsts(now, sort, end)
  BY <1>6, Zenon DEF Firsts
<1>8. seen \cap read = {}
  BY <1>1, <1>4, <1>5
<1>9. seen \in SUBSET now /\ read \in SUBSET now
  BY <1>4, <1>5
<1>10. /\ IsFiniteSet(seen) /\ IsFiniteSet(read)
       /\ Cardinality(seen) \in Nat /\ Cardinality(read) \in Nat
  BY <1>9, FS_Subset, FS_CardinalityType
<1>11. Cardinality(seen \cup read) = Cardinality(seen) + Cardinality(read) - Cardinality(seen \cap read)
  BY <1>10, FS_Union
<1>12. Cardinality(seen \cap read) = 0
  BY <1>8, FS_EmptySet
<1>13. Cardinality(seen \cup read) = Cardinality(seen) + Cardinality(read)
  BY <1>10, <1>11, <1>12
<1>. QED  BY <1>7, <1>13 DEF seen, read, Joins


\* The next page: with the last one, all that was there at the start has been read.
LEMMA NextPageKeeps ==
  ASSUME IInv, TimelineAssumption, NextPage
  PROVE  IInv'
<1>. DEFINE found == Found(query.parent)
            now   == Ids(found)
            sort  == query.sort
            next  == (query.page - 1) * query.size
            end   == query.page * query.size
            page  == Page(found, query.sort, query.size, query.page)
            read  == Ids(page)
            known == query.known
            more  == end < Cardinality(found)
            overtaken == Overtakes(sort, known, now)
<1>1. /\ query.mode = "walk" /\ UNCHANGED eventVars /\ UNCHANGED <<request, events, index>>
      /\ query' = [query EXCEPT
           !.mode = IF more THEN "walk" ELSE "walked",
           !.page = @ + 1,
           !.known = now,
           !.seen = @ \cup read,
           !.hits = @ + Cardinality(page),
           !.late = @ \/ overtaken]
  BY DEF NextPage, eventVars
<1>2. query \in Walk
  BY <1>1, QueryForms DEF IInv
<1>3. /\ query.parent \in Nat /\ sort \in Sorts /\ query.size \in PageSizes
      /\ query.page \in Nat /\ query.first \in SUBSET Nat /\ query.known \in SUBSET Nat
      /\ query.seen \in SUBSET Nat /\ query.hits \in Nat /\ query.late \in BOOLEAN
  BY <1>2 DEF Walk
<1>4. query.size \in Nat \ {0}
  BY <1>3 DEF TimelineAssumption
<1>5. /\ query.page >= 1 /\ query.first \subseteq known /\ known \subseteq now
      /\ next <= Cardinality(known)
      /\ \A i \in query.first : Rank(now, sort, i) < next => i \in query.seen
      /\ ~query.late => /\ query.seen = Firsts(known, sort, next)
                        /\ query.hits = Cardinality(query.seen)
  BY <1>1 DEF IInv, WalkRight
<1>6. found \in SUBSET index /\ now \in SUBSET Nat /\ IsFiniteSet(now)
  BY FoundRight DEF IInv, TypeOK
<1>7. /\ read = Places(now, sort, next, end)
      /\ Cardinality(page) = Cardinality(read)
  BY <1>6, PageRight DEF IInv
<1>8. Cardinality(found) = Cardinality(now)
  BY <1>6, DocsAreEvents DEF IInv, IndexRight
<1>9. next \in Nat /\ end \in Nat /\ end = next + query.size /\ next <= end
  BY <1>3, <1>4, <1>5
<1>10. Ids(Found(query.parent))' = Ids({d \in index : d.parent = query'.parent})
  BY <1>1 DEF Found
<1>11. EventsTypeOK' /\ IndexRight'
  BY <1>1, EventsStay DEF IInv, TypeOK
<1>12. /\ query'.parent = query.parent /\ query'.sort = sort /\ query'.size = query.size
       /\ query'.mode = (IF more THEN "walk" ELSE "walked")
       /\ query'.page = query.page + 1 /\ query'.first = query.first
       /\ query'.known = now /\ query'.seen = query.seen \cup read
       /\ query'.hits = query.hits + Cardinality(page)
       /\ query'.late = (query.late \/ overtaken)
       /\ query' = [mode |-> query'.mode, parent |-> query'.parent, sort |-> query'.sort,
                    size |-> query'.size, page |-> query'.page, first |-> query'.first,
                    known |-> query'.known, seen |-> query'.seen, hits |-> query'.hits,
                    late |-> query'.late]
  <2>. DEFINE after == [mode |-> IF more THEN "walk" ELSE "walked", parent |-> query.parent,
                        sort |-> query.sort, size |-> query.size, page |-> query.page + 1,
                        first |-> query.first, known |-> now, seen |-> query.seen \cup read,
                        hits |-> query.hits + Cardinality(page),
                        late |-> (query.late \/ overtaken)]
  <2>. HIDE DEF now, read, more, overtaken, page
  <2>1. query' = after
    BY <1>1, <1>2 DEF Walk
  <2>. QED  BY <2>1
<1>13. (query'.page - 1) * query'.size = end
  BY <1>3, <1>12
<1>14. Ids(Found(query.parent))' = now
  BY <1>10, <1>12 DEF Found
<1>15. /\ Cardinality(now) \in Nat
       /\ \A i : Rank(now, sort, i) \in Nat
       /\ \A i \in now : Rank(now, sort, i) < Cardinality(now)
  BY <1>3, <1>6, RankRight
<1>16. Cardinality(page) \in Nat
  <2>1. read \in SUBSET now
    BY <1>7 DEF Places
  <2>. QED  BY <1>6, <1>7, <2>1, FS_Subset, FS_CardinalityType
<1>17. read \in SUBSET Nat
  BY <1>6, <1>7 DEF Places
<1>. HIDE DEF next, end, page, read, now, sort, known, more, overtaken
<1>18. query' \in Walk
  <2>1. more \in BOOLEAN /\ overtaken \in BOOLEAN
    BY DEF more, overtaken, Overtakes
  <2>2. /\ query'.mode \in {"walk", "walked"} /\ query'.parent \in Nat
        /\ query'.sort \in Sorts /\ query'.size \in PageSizes /\ query'.page \in Nat
        /\ query'.first \in SUBSET Nat /\ query'.known \in SUBSET Nat
        /\ query'.seen \in SUBSET Nat /\ query'.hits \in Nat /\ query'.late \in BOOLEAN
    <3>1. sort \in Sorts
      BY <1>3 DEF sort
    <3>. QED  BY <1>3, <1>6, <1>12, <1>16, <1>17, <2>1, <3>1
  <2>. QED  BY <1>12, <2>2 DEF Walk
<1>19. \A i \in query.first : Rank(now, sort, i) < end => i \in query'.seen
  <2>. SUFFICES ASSUME NEW i \in query.first, Rank(now, sort, i) < end  PROVE i \in query'.seen
    OBVIOUS
  <2>1. i \in now /\ Rank(now, sort, i) \in Nat
    BY <1>5, <1>15
  <2>2. CASE Rank(now, sort, i) < next
    BY <1>5, <1>12, <2>2
  <2>3. CASE ~(Rank(now, sort, i) < next)
    <3>1. Rank(now, sort, i) \in next .. end - 1
      BY <1>9, <2>1, <2>3
    <3>. QED  BY <1>7, <1>12, <2>1, <3>1 DEF Places
  <2>. QED  BY <2>2, <2>3
<1>20. ~query'.late => /\ query'.seen = Firsts(now, sort, end)
                       /\ query'.hits = Cardinality(query'.seen)
  <2>. SUFFICES ASSUME ~query'.late
                PROVE  /\ query'.seen = Firsts(now, sort, end)
                       /\ query'.hits = Cardinality(query'.seen)
    OBVIOUS
  <2>1. ~query.late /\ ~Overtakes(sort, known, now)
    BY <1>12 DEF overtaken
  <2>2. /\ query.seen = Firsts(known, sort, next)
        /\ query.hits = Cardinality(query.seen)
    BY <1>5, <2>1
  <2>3. /\ query.seen \cup read = Firsts(now, sort, end)
        /\ Cardinality(query.seen \cup read) = Cardinality(query.seen) + Cardinality(read)
    <3>1. known \in SUBSET now /\ sort \in Sorts /\ next <= Cardinality(known)
      BY <1>3, <1>5 DEF sort
    <3>2. Joins(known, now, sort, next, end)
      BY <1>6, <1>9, <2>1, <3>1, ReadOn
    <3>. QED  BY <1>7, <2>2, <3>2 DEF Joins
  <2>. QED  BY <1>7, <1>12, <2>2, <2>3
<1>21. WalkRight'
  <2>. SUFFICES ASSUME more  PROVE WalkRight'
    BY <1>12 DEF WalkRight
  <2>1. end <= Cardinality(now)
    BY <1>8, <1>9, <1>15 DEF more
  <2>2. query'.page >= 1
    BY <1>3, <1>12
  <2>3. query'.first \subseteq query'.known /\ query'.known \subseteq now
    BY <1>5, <1>12
  <2>4. \A i \in query'.first : Rank(now, query'.sort, i) < end => i \in query'.seen
    BY <1>12, <1>19
  <2>5. ~query'.late =>
           /\ query'.seen = Firsts(query'.known, query'.sort, end)
           /\ query'.hits = Cardinality(query'.seen)
    BY <1>12, <1>20
  <2>6. end <= Cardinality(query'.known)
    BY <1>12, <2>1
  <2>. QED  BY <1>13, <1>14, <2>2, <2>3, <2>4, <2>5, <2>6 DEF WalkRight, Firsts, Rank, Before
<1>22. ASSUME ~more  PROVE \A i \in now : Rank(now, sort, i) < end
  <2>1. Cardinality(now) <= end
    BY <1>8, <1>9, <1>15, <1>22 DEF more
  <2>. QED  BY <1>9, <1>15, <2>1
<1>23. WalkSkipsNothing'
  <2>. SUFFICES ASSUME ~more  PROVE query'.first \subseteq query'.seen
    BY <1>12 DEF WalkSkipsNothing
  <2>1. query.first \subseteq now
    BY <1>5
  <2>. QED  BY <1>12, <1>19, <1>22, <2>1
<1>24. WalkIsExact'
  <2>. SUFFICES ASSUME ~more, ~query'.late
                PROVE  query'.seen = query'.known /\ query'.hits = Cardinality(query'.known)
    BY <1>12 DEF WalkIsExact
  <2>1. Firsts(now, sort, end) = now
    BY <1>22, Zenon DEF Firsts
  <2>. QED  BY <1>12, <1>20, <2>1
<1>25. CountRight' /\ FocusShown'
  BY <1>12 DEF CountRight, FocusShown
<1>. QED  BY <1>11, <1>18, <1>21, <1>23, <1>24, <1>25 DEF IInv, TypeOK


\* The target is counted to in the order of the list's default.
LEMMA CountKeeps ==
  ASSUME IInv, TimelineAssumption, NEW parent \in Nat, NEW sort \in Sorts, NEW size \in PageSizes,
         NEW target \in Nat, Count(parent, DefaultSort(parent), sort, size, target)
  PROVE  IInv'
<1>. DEFINE docs  == Found(parent)
            now   == Ids(docs)
            order == DefaultSort(parent)
            page  == IF target = 0 THEN 1 ELSE PageOf(docs, order, size, target)
<1>1. /\ query' = [mode |-> "counted", parent |-> parent, sort |-> sort, size |-> size,
                   target |-> target, known |-> now, page |-> page, hits |-> {},
                   late |-> FALSE]
      /\ UNCHANGED eventVars /\ UNCHANGED <<request, events, index>>
  BY DEF Count, eventVars
<1>2. docs \in SUBSET index /\ now \in SUBSET Nat /\ IsFiniteSet(now)
  BY FoundRight DEF IInv, TypeOK
<1>3. order \in Sorts /\ size \in Nat \ {0}
  BY DEF DefaultSort, Sorts, TimelineAssumption
<1>4. EventsTypeOK' /\ IndexRight'
  BY <1>1, EventsStay DEF IInv, TypeOK
<1>5. Place(docs, order, target) = Rank(now, order, target)
  BY <1>2, PlaceIsRank DEF IInv
<1>. HIDE DEF docs, now, order
<1>6. target # 0 => page = Rank(now, order, target) \div size + 1
  BY <1>5 DEF PageOf
<1>7. page \in Nat
  <2>1. Rank(now, order, target) \in Nat
    BY <1>2, <1>3, RankRight
  <2>2. Rank(now, order, target) \div size \in Nat
    BY <1>3, <2>1, PlaceOnPage
  <2>3. Rank(now, order, target) \div size + 1 \in Nat
    BY <2>2
  <2>. QED  BY <1>6, <2>3
<1>. HIDE DEF page
<1>8. /\ query'.mode = "counted" /\ query'.parent = parent /\ query'.size = size
      /\ query'.target = target /\ query'.known = now /\ query'.page = page
  BY <1>1
<1>9. query' \in Focus
  BY <1>1, <1>2, <1>7 DEF Focus
<1>10. Ids(Found(query.parent))' = now
  BY <1>1, <1>8 DEF Found, now, docs
<1>11. CountRight'
  <2>1. target # 0 => page = Rank(now, DefaultSort(parent), target) \div size + 1
    BY <1>6 DEF order
  <2>. QED  BY <1>8, <1>10, <2>1 DEF CountRight, Rank, Before, DefaultSort
<1>12. WalkRight' /\ WalkSkipsNothing' /\ WalkIsExact' /\ FocusShown'
  BY <1>8 DEF WalkRight, WalkSkipsNothing, WalkIsExact, FocusShown
<1>. QED  BY <1>4, <1>9, <1>11, <1>12 DEF IInv, TypeOK

\* What the two lists that focus on an event count to.
LEMMA FocusedListKeeps ==
  ASSUME IInv, TimelineAssumption, NEW id, NEW size \in PageSizes, NEW i \in DOMAIN events,
         \/ FocusedList(id, i, size)
         \/ \E parent \in DOMAIN events, sort \in Sorts :
              FocusedReplyList(id, parent, i, sort, size)
  PROVE  IInv'
<1>1. \A j \in DOMAIN events : j \in Nat /\ j # 0 /\ events[j].parent \in Nat
  BY EventForms DEF IInv, TypeOK, Event
<1>2. CASE FocusedList(id, i, size)
  <2>. DEFINE target == IF ~Stored(i) THEN 0
                        ELSE IF events[i].parent = 0 THEN i ELSE events[i].parent
  <2>1. target \in Nat
    BY <1>1
  <2>2. Count(0, "oldest", "oldest", size, target)
    BY <1>2 DEF FocusedList
  <2>3. DefaultSort(0) = "oldest" /\ "oldest" \in Sorts
    BY DEF DefaultSort, Sorts
  <2>. HIDE DEF target
  <2>. QED  BY <2>1, <2>2, <2>3, CountKeeps
<1>3. ASSUME NEW parent \in DOMAIN events, NEW sort \in Sorts,
             FocusedReplyList(id, parent, i, sort, size)
      PROVE  IInv'
  <2>. DEFINE target == IF Stored(i) THEN i ELSE 0
  <2>1. target \in Nat /\ parent \in Nat
    BY <1>1
  <2>2. Count(parent, "newest", sort, size, target)
    BY <1>3 DEF FocusedReplyList
  <2>3. DefaultSort(parent) = "newest"
    BY <1>1 DEF DefaultSort
  <2>. HIDE DEF target
  <2>. QED  BY <2>1, <2>2, <2>3, CountKeeps
<1>. QED  BY <1>2, <1>3

\* The page that was counted holds something while the target is in the list, for
\* the list got longer only; and the target, if nothing came in before it.
LEMMA FocusedPageKeeps ==
  ASSUME IInv, TimelineAssumption, FocusedPage
  PROVE  IInv'
<1>. DEFINE found  == Found(query.parent)
            now    == Ids(found)
            sort   == query.sort
            known  == query.known
            target == query.target
            size   == query.size
            hits   == Ids(Page(found, sort, size, query.page))
            late   == \E new \in now \ known : Before(sort, new, target)
<1>1. /\ query.mode = "counted" /\ UNCHANGED eventVars /\ UNCHANGED <<request, events, index>>
      /\ query' = [query EXCEPT !.mode = "focused", !.known = now, !.hits = hits, !.late = late]
  BY DEF FocusedPage, eventVars
<1>2. query \in Focus
  BY <1>1, QueryForms DEF IInv
<1>3. /\ query.parent \in Nat /\ sort \in Sorts /\ size \in PageSizes /\ target \in Nat
      /\ query.page \in Nat /\ size \in Nat \ {0}
  BY <1>2, TimelineAssumption DEF Focus
<1>4. /\ known \subseteq now
      /\ target # 0 =>
           query.page = Rank(known, DefaultSort(query.parent), target) \div size + 1
  BY <1>1 DEF IInv, CountRight
<1>5. found \in SUBSET index /\ now \in SUBSET Nat /\ IsFiniteSet(now) /\ 0 \notin now
  BY FoundRight DEF IInv, TypeOK
<1>6. hits = Places(now, sort, (query.page - 1) * size, query.page * size)
  BY <1>5, PageRight DEF IInv
<1>7. EventsTypeOK' /\ IndexRight'
  BY <1>1, EventsStay DEF IInv, TypeOK
<1>. HIDE DEF hits, now, late
<1>8. /\ query'.mode = "focused" /\ query'.parent = query.parent /\ query'.sort = sort
      /\ query'.size = size /\ query'.target = target /\ query'.page = query.page
      /\ query'.known = now /\ query'.hits = hits /\ query'.late = late
      /\ query' = [mode |-> "focused", parent |-> query.parent, sort |-> sort, size |-> size,
                   target |-> target, page |-> query.page, known |-> now, hits |-> hits,
                   late |-> late]
  <2>. DEFINE after == [mode |-> "focused", parent |-> query.parent, sort |-> sort,
                        size |-> size, target |-> target, page |-> query.page,
                        known |-> now, hits |-> hits, late |-> late]
  <2>1. query' = after
    BY <1>1, <1>2 DEF Focus
  <2>. QED  BY <2>1
<1>9. query' \in Focus
  <2>1. hits \in SUBSET Nat
    BY <1>5, <1>6 DEF Places
  <2>2. late \in BOOLEAN
    BY DEF late
  <2>. QED  BY <1>3, <1>5, <1>8, <2>1, <2>2 DEF Focus
<1>10. FocusShown'
  <2>. SUFFICES ASSUME sort = DefaultSort(query.parent), target \in now
                PROVE  hits # {} /\ (~late => target \in hits)
    BY <1>8 DEF FocusShown, Focused, DefaultSort
  <2>. DEFINE was  == Rank(known, sort, target)
              is   == Rank(now, sort, target)
              page == was \div size
              last == Cardinality(now)
  <2>1. known \in SUBSET now /\ target # 0
    BY <1>4, <1>5
  <2>2. known \in SUBSET Nat /\ IsFiniteSet(known)
    BY <1>5, <2>1, FS_Subset
  <2>3. was \in Nat /\ is \in Nat /\ last \in Nat /\ is < last
    BY <1>3, <1>5, <2>2, RankRight
  <2>4. was <= is
    BY <1>3, <1>5, <2>1, RankGrows
  <2>5. ~late => is = was
    BY <1>3, <1>5, <2>1, RankGrows DEF late
  <2>6. query.page = page + 1
    BY <1>4, <2>1
  <2>7. \A k \in 0 .. last - 1 : \E i \in now : Rank(now, sort, i) = k
    BY <1>3, <1>5, RankRight
  <2>. HIDE DEF was, is, last, size
  <2>8. page \in Nat /\ page * size <= was /\ was <= page * size + size - 1
    BY <1>3, <2>3, PlaceOnPage
  <2>. HIDE DEF page
  <2>. DEFINE m == page * size
              n == m + size
  <2>9. (query.page - 1) * size = m /\ query.page * size = n
    BY <1>3, <2>6, <2>8
  <2>10. /\ m \in Nat /\ size \in Nat \ {0} /\ n \in Nat
         /\ m <= was /\ was <= n - 1 /\ m \in m .. n - 1
    BY <1>3, <2>8
  <2>. HIDE DEF m, n
  <2>11. \A i : i \in hits <=> i \in now /\ Rank(now, sort, i) \in m .. n - 1
    <3>1. hits = Places(now, sort, m, n)
      BY <1>6, <2>9
    <3>2. \A i : i \in Places(now, sort, m, n) <=> i \in now /\ Rank(now, sort, i) \in m .. n - 1
      BY Zenon DEF Places
    <3>. QED  BY <3>1, <3>2
  <2>12. hits # {}
    <3>1. m \in 0 .. last - 1
      BY <2>3, <2>4, <2>10
    <3>2. PICK i \in now : Rank(now, sort, i) = m
      BY <2>7, <3>1
    <3>. QED  BY <2>10, <2>11, <3>2
  <2>13. ASSUME ~late  PROVE target \in hits
    <3>1. Rank(now, sort, target) = was
      BY <2>5, <2>13 DEF is
    <3>2. was \in m .. n - 1
      BY <2>3, <2>10
    <3>. QED  BY <2>11, <3>1, <3>2
  <2>. QED  BY <2>12, <2>13
<1>11. WalkRight' /\ WalkSkipsNothing' /\ WalkIsExact' /\ CountRight'
  BY <1>8 DEF WalkRight, WalkSkipsNothing, WalkIsExact, CountRight
<1>. QED  BY <1>7, <1>9, <1>10, <1>11 DEF IInv, TypeOK

-----------------------------------------------------------------------------
(* The invariant of the lists. *)

\* Nobody reads anything to begin with.
LEMMA InitHolds ==
  ASSUME Init
  PROVE  IInv
<1>1. EventsTypeOK /\ IndexRight
  BY EventsBegin DEF Init
<1>2. query = Idle /\ query.mode = "idle"
  BY DEF Init, Idle
<1>. QED  BY <1>1, <1>2 DEF IInv, TypeOK, WalkRight, WalkSkipsNothing, WalkIsExact, CountRight,
                            FocusShown

\* Every step keeps the invariant, one that does nothing included.
LEMMA NextKeeps ==
  ASSUME IInv, EventsAssumption, TimelineAssumption, [Next]_vars
  PROVE  IInv'
<1>1. CASE UNCHANGED vars
  <2>1. EventsTypeOK' /\ IndexRight' /\ Grows
    BY <1>1, EventsStay DEF vars, eventVars, IInv, TypeOK
  <2>. QED  BY <1>1, <2>1, GrowsKeepsQuery DEF vars
<1>2. CASE Change /\ UNCHANGED query
  BY <1>2, ChangeKeeps, GrowsKeepsQuery DEF IInv, TypeOK
<1>3. ASSUME NEW id \in Identities, Read(id)
      PROVE  IInv'
  BY <1>3, StartWalkKeeps, FocusedListKeeps DEF Read
<1>. QED  BY <1>1, <1>2, <1>3, NextPageKeeps, FocusedPageKeeps DEF Next

\* The invariant holds throughout.
LEMMA Invariant == Spec => []IInv
<1>1. Init => IInv
  BY InitHolds
<1>2. IInv /\ [Next]_vars => IInv'
  BY NextKeeps, EventsAssumption, TimelineAssumption
<1>. QED  BY <1>1, <1>2, PTL DEF Spec

\* Events, documents and the list a client reads keep their types.
THEOREM TypeCorrect == Spec => []TypeOK
<1>1. IInv => TypeOK
  BY DEF IInv
<1>. QED  BY <1>1, Invariant, PTL

\* Whoever reads a list to its last page has read all that was to be found when the
\* reading began, for any number of events and any size of a page.
THEOREM NothingIsSkipped == Spec => []WalkSkipsNothing
<1>1. IInv => WalkSkipsNothing
  BY DEF IInv
<1>. QED  BY <1>1, Invariant, PTL

\* If nothing came in ahead of what was there, exactly what is to be found at the
\* end, each event once.
THEOREM WalksAreExact == Spec => []WalkIsExact
<1>1. IInv => WalkIsExact
  BY DEF IInv
<1>. QED  BY <1>1, Invariant, PTL

\* A list that is focused on an event shows it unless something came in before it
\* between the two queries, and something in any case.
THEOREM FocusIsShown == Spec => []FocusShown
<1>1. IInv => FocusShown
  BY DEF IInv
<1>. QED  BY <1>1, Invariant, PTL

\* The join on the shard of a parent finds the replies that the filter finds on all
\* of them, because every reply lies where its parent does.
THEOREM PreviewsAgree == Spec => []PreviewAgrees
<1>1. ASSUME IInv, NEW d \in Found(0)
      PROVE  /\ ChildrenCount(d) = Cardinality(Found(d.id))
             /\ Preview(d) = Page(Found(d.id), "newest", PreviewSize, 1)
  <2>1. d \in index /\ d.id \in DOMAIN events /\ events[d.id].parent = 0 /\ d.shard = d.id
    BY <1>1 DEF IInv, Found, IndexRight, Routing
  <2>2. d.id # 0
    BY <1>1, <2>1, EventForms DEF IInv, TypeOK
  <2>3. \A c \in index : c.parent = d.id => c.shard = d.shard
    BY <1>1, <2>1, <2>2 DEF IInv, IndexRight, Routing
  <2>4. Children(d) = Found(d.id)
    BY <2>3, Zenon DEF Children, Found
  <2>. DEFINE docs == Found(d.id)
  <2>5. \A c : Place(docs, "newest", c) \in Nat
    <3>1. docs \in SUBSET index /\ Ids(docs) \in SUBSET Nat /\ IsFiniteSet(Ids(docs))
      BY <1>1, FoundRight DEF IInv, TypeOK
    <3>2. \A c : Rank(Ids(docs), "newest", c) \in Nat
      BY <3>1, RankRight DEF Sorts
    <3>. HIDE DEF docs
    <3>. QED  BY <1>1, <3>1, <3>2, PlaceIsRank DEF IInv
  <2>6. PreviewSize \in Nat
    BY TimelineAssumption DEF TimelineAssumption
  <2>. HIDE DEF docs
  <2>7. \A c : Place(docs, "newest", c) < PreviewSize
                 <=> Place(docs, "newest", c) \in (1 - 1) * PreviewSize .. 1 * PreviewSize - 1
    BY <2>5, <2>6
  <2>8. {c \in docs : Place(docs, "newest", c.id) < PreviewSize}
          = Page(docs, "newest", PreviewSize, 1)
    BY <2>7, Zenon DEF Page
  <2>. QED  BY <2>4, <2>8 DEF docs, Preview, ChildrenCount
<1>2. IInv => PreviewAgrees
  BY <1>1 DEF PreviewAgrees
<1>. QED  BY <1>2, Invariant, PTL

=============================================================================
