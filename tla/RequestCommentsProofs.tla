------------------------ MODULE RequestCommentsProofs ------------------------
(***************************************************************************)
(* Proofs about RequestComments, for every set of workers, users and files *)
(* and every bound.                                                        *)
(*                                                                         *)
(* The invariant says what an open unit of work still knows when others    *)
(* have committed: as long as the row it read is the row there is, what it *)
(* decided stands.  ReferencesExist needs, besides, that no two events and *)
(* units of work claim one file, but those that edit the same comment, of  *)
(* which the version of the event lets one commit.                         *)
(***************************************************************************)
EXTENDS RequestComments, SequenceTheorems, TLAPS

Working(w) == tx[w] # NoTx

\* What an open unit of work knows of the request and of the events.
Sound(t) ==
  /\ t.read <= request.version
  /\ t.adds \subseteq uploaded
  /\ request.version = t.read /\ WritesRequest(t) => t.id \in CanManageFiles(request)
  /\ t.change = "add" /\ t.event.parent # 0 =>
       t.event.parent \in DOMAIN events /\ events[t.event.parent].parent = 0
  /\ t.change = "edit" =>
       /\ t.target \in DOMAIN events
       /\ t.event.parent = events[t.target].parent
       /\ t.event.version <= events[t.target].version
       /\ t.event.version = events[t.target].version =>
            events[t.target].kind = "comment"

WorkSound == \A w \in Workers : Working(w) => Sound(tx[w])

Claims(t) == t.event.files \cup t.removes

Edits(t, i) == t.change = "edit" /\ t.target = i

ClearOf(t, i) == Edits(t, i) \/ Claims(t) \cap events[i].files = {}

Apart(t, u) ==
  \/ t.change = "edit" /\ Edits(u, t.target)
  \/ Claims(t) \cap Claims(u) = {}

\* No file is claimed twice, but by units of work that edit the same comment.
FilesApart ==
  habits = {} =>
    /\ \A i, j \in DOMAIN events : i # j => events[i].files \cap events[j].files = {}
    /\ \A w \in Workers, i \in DOMAIN events : Working(w) => ClearOf(tx[w], i)
    /\ \A v, w \in Workers : Working(v) /\ Working(w) /\ v # w => Apart(tx[v], tx[w])

\* The files a unit of work is about to list are there, unless the event it has
\* read was edited since.
Backed(t) ==
  /\ t.change = "none" => t.event.files = {}
  /\ t.change = "add" => t.removes = {}
  /\ EventVersionMatches(t) /\ t.event.kind = "comment" =>
       t.event.files \subseteq attached /\ t.event.files \cap t.removes = {}

WorkBacked == habits = {} => \A w \in Workers : Working(w) => Backed(tx[w])

IInv ==
  /\ TypeOK
  /\ WorkSound
  /\ FilesApart
  /\ WorkBacked
  /\ ReferencesExist

-----------------------------------------------------------------------------
(* Data. *)

\* An open unit of work is a record of Tx.
LEMMA WorkingIsTx ==
  ASSUME TypeOK, NEW w \in Workers
  PROVE  Working(w) => tx[w] \in Tx
BY DEF TypeOK, Working

\* The events of a timeline and its length.
LEMMA EventForms ==
  ASSUME TypeOK
  PROVE  /\ events \in Seq(Event) /\ Len(events) \in Nat
         /\ DOMAIN events = 1 .. Len(events)
         /\ \A i \in DOMAIN events : events[i] \in Event
BY DEF TypeOK

\* A timeline with one more event.
LEMMA OneMoreEvent ==
  ASSUME NEW s \in Seq(Event), NEW event \in Event
  PROVE  /\ Append(s, event) \in Seq(Event)
         /\ Len(s) \in Nat /\ DOMAIN s = 1 .. Len(s)
         /\ DOMAIN Append(s, event) = 1 .. Len(s) + 1
         /\ \A i \in DOMAIN s : Append(s, event)[i] = s[i]
         /\ Append(s, event)[Len(s) + 1] = event
<1>. DEFINE longer == Append(s, event)
<1>1. longer \in Seq(Event) /\ Len(longer) = Len(s) + 1 /\ Len(s) \in Nat
  OBVIOUS
<1>2. DOMAIN s = 1 .. Len(s) /\ DOMAIN longer = 1 .. Len(longer)
  BY <1>1
<1>3. /\ \A i \in 1 .. Len(s) : longer[i] = s[i]
      /\ longer[Len(s) + 1] = event
  OBVIOUS
<1>. QED  BY <1>1, <1>2, <1>3

\* The entry of a lock is an event that lists no file and replies to none.
LEMMA LogIsEvent ==
  ASSUME PolicyAssumption, NEW id \in Identities, NEW n \in Nat
  PROVE  [NoEvent EXCEPT !.by = id, !.version = n] \in Event
BY DEF NoEvent, Event

\* Whoever attaches or deletes files of a locked request is an administrator, a
\* superuser or the system.
LEMMA LockedManagers ==
  ASSUME NEW req, req.locked, LockingEnabled
  PROVE  CanManageFiles(req) \subseteq Granted(Admins \cup SystemProcess)
BY DEF CanManageFiles, CanCreateComment, Granted, IfLocked

-----------------------------------------------------------------------------
(* Beginning a unit of work. *)

\* A unit of work that is sound, and claims no file that is claimed, may begin.
LEMMA BeginKeeps ==
  ASSUME IInv, NEW w \in Workers, NEW t \in Tx, tx[w] = NoTx,
         tx' = [tx EXCEPT ![w] = t],
         UNCHANGED <<request, attached, events, habits>>,
         uploaded \subseteq uploaded', uploaded' \subseteq Files,
         t.adds \subseteq uploaded', t.read = request.version,
         WritesRequest(t) => t.id \in CanManageFiles(request),
         t.change = "add" /\ t.event.parent # 0 =>
           t.event.parent \in DOMAIN events /\ events[t.event.parent].parent = 0,
         t.change = "edit" =>
           /\ t.target \in DOMAIN events
           /\ t.event.parent = events[t.target].parent
           /\ t.event.version = events[t.target].version
           /\ events[t.target].kind = "comment",
         habits = {} =>
           /\ Backed(t)
           /\ \A i \in DOMAIN events : ClearOf(t, i)
           /\ \A v \in Workers : Working(v) => Apart(t, tx[v])
  PROVE  IInv'
<1>1. /\ \A v \in Workers : v # w => tx'[v] = tx[v] /\ (Working(v)' <=> Working(v))
      /\ tx'[w] = t
  BY DEF IInv, TypeOK, Working
<1>2. TypeOK'
  <2>1. tx' \in [Workers -> Tx \cup {NoTx}]
    BY DEF IInv, TypeOK
  <2>2. RepliesFlat'
    BY DEF IInv, TypeOK, RepliesFlat
  <2>. QED  BY <2>1, <2>2 DEF IInv, TypeOK
<1>3. WorkSound'
  <2>. SUFFICES ASSUME NEW v \in Workers, Working(v)'  PROVE Sound(tx[v])'
    BY DEF WorkSound
  <2>1. CASE v = w
    <3>1. t.read \in Nat /\ t.read <= request.version
      BY DEF Tx, IInv, TypeOK, Request
    <3>2. t.change = "edit" => t.event.version <= events[t.target].version
      BY EventForms DEF IInv, Event
    <3>. QED  BY <1>1, <2>1, <3>1, <3>2 DEF Sound, WritesRequest
  <2>2. CASE v # w
    BY <1>1, <2>2 DEF IInv, WorkSound, Sound, WritesRequest
  <2>. QED  BY <2>1, <2>2
<1>4. FilesApart'
  <2>. SUFFICES ASSUME habits = {}  PROVE FilesApart'
    BY DEF FilesApart
  <2>1. \A v \in Workers, i \in DOMAIN events : Working(v)' => ClearOf(tx[v], i)'
    BY <1>1 DEF IInv, FilesApart, ClearOf, Claims, Edits
  <2>2. ASSUME NEW u \in Workers, NEW v \in Workers, Working(u)', Working(v)', u # v
        PROVE  Apart(tx[u], tx[v])'
    <3>1. \A a, b : Apart(a, b) => Apart(b, a)
      BY DEF Apart, Edits
    <3>2. CASE u = w
      BY <1>1, <2>2, <3>2 DEF Apart, Claims, Edits
    <3>3. CASE v = w
      <4>1. Apart(t, tx[u]) /\ tx'[u] = tx[u]
        BY <1>1, <2>2, <3>3
      <4>. QED  BY <1>1, <3>1, <3>3, <4>1 DEF Apart, Claims, Edits
    <3>4. CASE u # w /\ v # w
      BY <1>1, <2>2, <3>4 DEF IInv, FilesApart, Apart, Claims, Edits
    <3>. QED  BY <3>2, <3>3, <3>4
  <2>. QED  BY <2>1, <2>2 DEF IInv, FilesApart
<1>5. WorkBacked'
  BY <1>1 DEF IInv, WorkBacked, Backed, EventVersionMatches
<1>6. ReferencesExist'
  BY DEF IInv, ReferencesExist
<1>. QED  BY <1>2, <1>3, <1>4, <1>5, <1>6 DEF IInv

-----------------------------------------------------------------------------
(* The end of a unit of work. *)

\* What a commit does to the timeline.
LEMMA CommitEvents ==
  ASSUME IInv, NEW w \in Workers, Commit(w), NEW t, t = tx[w]
  PROVE  /\ t \in Tx /\ Working(w)
         /\ events' \in Seq(Event)
         /\ DOMAIN events \subseteq DOMAIN events'
         /\ \A i \in DOMAIN events :
              /\ events'[i].parent = events[i].parent
              /\ events[i].version <= events'[i].version
              /\ ~Edits(t, i) => events'[i] = events[i]
         /\ t.change # "add" => DOMAIN events' = DOMAIN events
         /\ t.change = "add" =>
              /\ DOMAIN events' = DOMAIN events \cup {Len(events) + 1}
              /\ events'[Len(events) + 1] = t.event
         /\ t.change = "edit" =>
              /\ t.target \in DOMAIN events
              /\ events[t.target].kind = "comment"
              /\ events'[t.target].version = events[t.target].version + 1
              /\ events'[t.target].files = t.event.files
              /\ events'[t.target].kind = t.event.kind
<1>1. t \in Tx /\ Working(w)
  BY WorkingIsTx DEF IInv, Commit, Working
<1>2. Sound(t) /\ t.change \in Changes /\ t.event \in Event
  BY <1>1 DEF IInv, WorkSound, Tx
<1>3. /\ events \in Seq(Event) /\ Len(events) \in Nat
      /\ DOMAIN events = 1 .. Len(events)
      /\ \A i \in DOMAIN events : events[i] \in Event /\ events[i].version \in Nat
  BY EventForms DEF IInv, Event
<1>4. CASE t.change = "none"
  <2>1. events' = events
    BY <1>4 DEF Commit
  <2>. QED  BY <1>1, <1>3, <1>4, <2>1
<1>5. CASE t.change = "add"
  <2>1. events' = Append(events, t.event)
    BY <1>5 DEF Commit
  <2>2. /\ events' \in Seq(Event)
        /\ DOMAIN events' = 1 .. Len(events) + 1
        /\ \A i \in DOMAIN events : events'[i] = events[i]
        /\ events'[Len(events) + 1] = t.event
    BY <1>2, <1>3, <2>1, OneMoreEvent
  <2>3. 1 .. Len(events) + 1 = (1 .. Len(events)) \cup {Len(events) + 1}
    BY <1>3
  <2>. QED  BY <1>1, <1>3, <1>5, <2>2, <2>3
<1>6. CASE t.change = "edit"
  <2>. DEFINE next == [t.event EXCEPT !.version = @ + 1]
  <2>1. events' = [events EXCEPT ![t.target] = next]
    BY <1>6 DEF Commit
  <2>2. /\ next \in Event /\ next.parent = t.event.parent
        /\ next.version = t.event.version + 1
        /\ next.files = t.event.files /\ next.kind = t.event.kind
    BY <1>2 DEF Event
  <2>3. /\ t.target \in DOMAIN events
        /\ t.event.version = events[t.target].version
        /\ t.event.parent = events[t.target].parent
        /\ events[t.target].kind = "comment"
    BY <1>2, <1>6 DEF Sound, Commit, EventVersionMatches
  <2>. HIDE DEF next
  <2>4. /\ events' \in Seq(Event) /\ DOMAIN events' = DOMAIN events
        /\ events'[t.target] = next
        /\ \A i \in DOMAIN events : i # t.target => events'[i] = events[i]
    BY <1>3, <2>1, <2>2, <2>3
  <2>5. \A i \in DOMAIN events : events[i].version <= events'[i].version
    BY <1>3, <2>2, <2>3, <2>4
  <2>. QED  BY <1>1, <1>3, <1>6, <2>2, <2>3, <2>4, <2>5 DEF Edits
<1>. QED  BY <1>2, <1>4, <1>5, <1>6 DEF Changes

\* The others' claims are on files the commit does not delete.
LEMMA CommitKeepsOthers ==
  ASSUME IInv, NEW w \in Workers, Commit(w), NEW v \in Workers, v # w, Working(v)
  PROVE  /\ tx'[v] = tx[v]
         /\ Sound(tx[v])'
         /\ habits = {} => Backed(tx[v])'
<1>. DEFINE t == tx[w]
            u == tx[v]
<1>1. t \in Tx /\ u \in Tx /\ Sound(u) /\ Working(w) /\ Sound(t)
  BY CommitEvents, WorkingIsTx DEF IInv, WorkSound
<1>2. tx'[v] = tx[v]
  BY DEF Commit, IInv, TypeOK
<1>3. /\ DOMAIN events \subseteq DOMAIN events'
      /\ \A i \in DOMAIN events :
           /\ events'[i].parent = events[i].parent
           /\ events[i].version <= events'[i].version
           /\ ~Edits(t, i) => events'[i] = events[i]
      /\ t.change = "edit" =>
           /\ t.target \in DOMAIN events
           /\ events'[t.target].version = events[t.target].version + 1
  BY CommitEvents
<1>4. /\ request' = request \/ request'.version = request.version + 1
      /\ request.version \in Nat /\ u.read \in Nat
      /\ uploaded' = uploaded
  BY <1>1 DEF Commit, RequestVersionMatches, IInv, TypeOK, Request, Tx
<1>5. u.change = "edit" =>
        /\ u.target \in DOMAIN events
        /\ u.event.version \in Nat /\ events[u.target].version \in Nat
        /\ u.event.version <= events[u.target].version
  BY <1>1, EventForms DEF Sound, IInv, Tx, Event
<1>. HIDE DEF t, u
<1>6. Edits(u, u.target) /\ Edits(t, u.target) =>
        u.event.version < events'[u.target].version
  BY <1>3, <1>5 DEF Edits
<1>7. /\ u.read <= request'.version
      /\ request'.version = u.read => request' = request
  BY <1>1, <1>4 DEF Sound
<1>8. u.change = "edit" =>
        /\ u.event.version <= events'[u.target].version
        /\ u.event.version = events'[u.target].version =>
             events'[u.target] = events[u.target]
  <2>. SUFFICES ASSUME u.change = "edit"
                PROVE  /\ u.event.version <= events'[u.target].version
                       /\ u.event.version = events'[u.target].version =>
                            events'[u.target] = events[u.target]
    OBVIOUS
  <2>1. events'[u.target] \in Event
    <3>1. events' \in Seq(Event) /\ u.target \in DOMAIN events'
      BY <1>3, <1>5, CommitEvents
    <3>. QED  BY <3>1
  <2>2. events'[u.target].version \in Nat
    BY <2>1 DEF Event
  <2>3. u.event.version <= events'[u.target].version
    BY <1>3, <1>5, <2>2
  <2>4. CASE Edits(t, u.target)
    BY <1>5, <1>6, <2>2, <2>3, <2>4 DEF Edits
  <2>5. CASE ~Edits(t, u.target)
    BY <1>3, <1>5, <2>3, <2>5
  <2>. QED  BY <2>4, <2>5
<1>9. Sound(u)'
  <2>1. u' = u
    BY <1>2 DEF u
  <2>. QED  BY <1>1, <1>3, <1>4, <1>5, <1>7, <1>8, <2>1 DEF Sound, WritesRequest
<1>10. ASSUME habits = {}  PROVE Backed(u)'
  <2>1. Backed(u) /\ Backed(t) /\ Apart(u, t)
    BY <1>1, <1>10 DEF IInv, WorkBacked, FilesApart, u, t
  <2>2. u' = u
    BY <1>2 DEF u
  <2>3. EventVersionMatches(u)' =>
          EventVersionMatches(u) /\ Claims(u) \cap Claims(t) = {}
    <3>1. CASE u.change = "edit"
      <4>. SUFFICES ASSUME u.event.version = events'[u.target].version
                    PROVE  /\ u.event.version = events[u.target].version
                           /\ Claims(u) \cap Claims(t) = {}
        BY <2>2, <3>1 DEF EventVersionMatches
      <4>1. events'[u.target] = events[u.target]
        BY <1>8, <3>1
      <4>2. ~Edits(t, u.target)
        BY <1>5, <1>6, <3>1 DEF Edits
      <4>. QED  BY <2>1, <4>1, <4>2 DEF Apart
    <3>2. CASE u.change # "edit"
      BY <2>1, <3>2 DEF Apart, EventVersionMatches
    <3>. QED  BY <3>1, <3>2
  <2>4. attached' = (attached \cup t.adds) \ t.removes
    BY DEF Commit, t
  <2>. QED  BY <2>1, <2>2, <2>3, <2>4 DEF Backed, Claims
<1>. QED  BY <1>2, <1>9, <1>10 DEF u

\* A timeline that grows or changes as a commit or a lock does stays flat.
LEMMA StaysFlat ==
  ASSUME TypeOK, events' \in Seq(Event), DOMAIN events \subseteq DOMAIN events',
         \A i \in DOMAIN events : events'[i].parent = events[i].parent,
         \A i \in DOMAIN events' \ DOMAIN events :
           /\ i > Len(events)
           /\ events'[i].parent # 0 =>
                events'[i].parent \in DOMAIN events /\ events[events'[i].parent].parent = 0
  PROVE  RepliesFlat'
<1>. SUFFICES ASSUME NEW i \in DOMAIN events', events'[i].parent # 0
              PROVE  events'[i].parent < i /\ events'[events'[i].parent].parent = 0
  BY DEF RepliesFlat
<1>. DEFINE p == events'[i].parent
<1>1. DOMAIN events = 1 .. Len(events) /\ Len(events) \in Nat
  BY EventForms
<1>2. CASE i \in DOMAIN events
  <2>1. p = events[i].parent /\ p < i /\ events[p].parent = 0
    BY <1>2 DEF TypeOK, RepliesFlat
  <2>2. p \in Nat
    BY <1>2, <2>1, EventForms DEF Event
  <2>. HIDE DEF p
  <2>3. p \in DOMAIN events
    BY <1>1, <1>2, <2>1, <2>2, p # 0 DEF p
  <2>. QED  BY <2>1, <2>3 DEF p
<1>3. CASE i \notin DOMAIN events
  <2>1. /\ i > Len(events) /\ p \in DOMAIN events /\ events[p].parent = 0
        /\ events'[p].parent = 0
    BY <1>3
  <2>2. i \in Nat
    <3>1. DOMAIN events' = 1 .. Len(events')
      OBVIOUS
    <3>. QED  BY <3>1
  <2>. HIDE DEF p
  <2>3. p < i
    BY <1>1, <2>1, <2>2
  <2>. QED  BY <2>1, <2>3 DEF p
<1>. QED  BY <1>2, <1>3

\* A commit keeps the types.
LEMMA CommitKeepsType ==
  ASSUME IInv, NEW w \in Workers, Commit(w)
  PROVE  TypeOK'
<1>. DEFINE t == tx[w]
<1>1. /\ t \in Tx /\ Sound(t)
      /\ events' \in Seq(Event)
      /\ DOMAIN events \subseteq DOMAIN events'
      /\ \A i \in DOMAIN events : events'[i].parent = events[i].parent
      /\ t.change # "add" => DOMAIN events' = DOMAIN events
      /\ t.change = "add" => /\ DOMAIN events' = DOMAIN events \cup {Len(events) + 1}
                             /\ events'[Len(events) + 1] = t.event
  BY CommitEvents DEF IInv, WorkSound
<1>2. request' \in Request /\ attached' \subseteq uploaded' /\ uploaded' \subseteq Files
  BY <1>1 DEF Commit, IInv, TypeOK, Request, Tx, Sound
<1>3. tx' \in [Workers -> Tx \cup {NoTx}] /\ habits' \in Habits
  BY DEF Commit, IInv, TypeOK
<1>4. RepliesFlat'
  <2>1. Len(events) \in Nat
    BY EventForms DEF IInv
  <2>. HIDE DEF t
  <2>2. \A i \in DOMAIN events' \ DOMAIN events :
          /\ i > Len(events)
          /\ events'[i].parent # 0 =>
               events'[i].parent \in DOMAIN events /\ events[events'[i].parent].parent = 0
    BY <1>1, <2>1 DEF Sound
  <2>. QED  BY <1>1, <2>2, StaysFlat DEF IInv
<1>. QED  BY <1>1, <1>2, <1>3, <1>4 DEF TypeOK

\* A commit keeps the claims apart, and what is listed attached.
LEMMA CommitKeepsFiles ==
  ASSUME IInv, NEW w \in Workers, Commit(w), habits = {}
  PROVE  /\ FilesApart'
         /\ ReferencesExist'
<1>. DEFINE t == tx[w]
<1>1. /\ t \in Tx /\ Working(w) /\ Backed(t) /\ t.change \in Changes
      /\ DOMAIN events \subseteq DOMAIN events'
      /\ \A i \in DOMAIN events : ~Edits(t, i) => events'[i] = events[i]
      /\ t.change # "add" => DOMAIN events' = DOMAIN events
      /\ t.change = "add" => /\ DOMAIN events' = DOMAIN events \cup {Len(events) + 1}
                             /\ events'[Len(events) + 1] = t.event
      /\ t.change = "edit" => /\ t.target \in DOMAIN events
                              /\ events'[t.target].files = t.event.files
                              /\ events'[t.target].kind = t.event.kind
  <2>1. /\ t \in Tx /\ Working(w)
        /\ DOMAIN events \subseteq DOMAIN events'
        /\ \A i \in DOMAIN events : ~Edits(t, i) => events'[i] = events[i]
        /\ t.change # "add" => DOMAIN events' = DOMAIN events
        /\ t.change = "add" => /\ DOMAIN events' = DOMAIN events \cup {Len(events) + 1}
                               /\ events'[Len(events) + 1] = t.event
        /\ t.change = "edit" => /\ t.target \in DOMAIN events
                                /\ events'[t.target].files = t.event.files
                                /\ events'[t.target].kind = t.event.kind
    BY CommitEvents
  <2>2. Backed(t)
    BY <2>1 DEF IInv, WorkBacked
  <2>3. t.change \in Changes
    BY <2>1 DEF Tx
  <2>. QED  BY <2>1, <2>2, <2>3
<1>2. /\ \A v \in Workers : v # w => tx'[v] = tx[v] /\ (Working(v)' <=> Working(v))
      /\ ~Working(w)'
      /\ attached' = (attached \cup t.adds) \ t.removes
      /\ habits' = habits
      /\ EventVersionMatches(t)
  BY DEF Commit, IInv, TypeOK, Working
<1>3. /\ \A i, j \in DOMAIN events : i # j => events[i].files \cap events[j].files = {}
      /\ \A v \in Workers, i \in DOMAIN events : Working(v) => ClearOf(tx[v], i)
      /\ \A v \in Workers : Working(v) /\ v # w => Apart(tx[v], t)
  BY <1>1 DEF IInv, FilesApart
<1>4. \A i \in DOMAIN events : ClearOf(t, i)
  BY <1>1, <1>3
<1>5. \A i \in DOMAIN events :
        events[i].kind = "comment" => events[i].files \subseteq attached
  BY DEF IInv, ReferencesExist
<1>6. \A i \in DOMAIN events' :
        \/ i \in DOMAIN events /\ ~Edits(t, i) /\ events'[i] = events[i]
        \/ /\ i \in DOMAIN events => Edits(t, i)
           /\ i \notin DOMAIN events => t.change = "add"
           /\ events'[i].files = t.event.files /\ events'[i].kind = t.event.kind
  BY <1>1 DEF Edits
<1>7. \A i, j \in DOMAIN events' :
        (i \in DOMAIN events => Edits(t, i)) /\ (i \notin DOMAIN events => t.change = "add")
          /\ (j \in DOMAIN events => Edits(t, j)) /\ (j \notin DOMAIN events => t.change = "add")
          => i = j
  <2>. SUFFICES ASSUME NEW i \in DOMAIN events', NEW j \in DOMAIN events',
                       i \in DOMAIN events => Edits(t, i),
                       i \notin DOMAIN events => t.change = "add",
                       j \in DOMAIN events => Edits(t, j),
                       j \notin DOMAIN events => t.change = "add"
                PROVE  i = j
    OBVIOUS
  <2>. HIDE DEF t
  <2>1. CASE t.change = "edit"
    BY <1>1, <2>1 DEF Edits
  <2>2. CASE t.change = "add"
    <3>1. i \notin DOMAIN events /\ j \notin DOMAIN events
      BY <2>2 DEF Edits
    <3>. QED  BY <1>1, <2>2, <3>1
  <2>3. CASE t.change = "none"
    BY <1>1, <2>3 DEF Edits
  <2>. QED  BY <1>1, <2>1, <2>2, <2>3 DEF Changes
<1>. HIDE DEF t
<1>8. ASSUME NEW i \in DOMAIN events', NEW j \in DOMAIN events', i # j
      PROVE  events'[i].files \cap events'[j].files = {}
  <2>1. CASE /\ i \in DOMAIN events /\ ~Edits(t, i) /\ events'[i] = events[i]
             /\ j \in DOMAIN events /\ ~Edits(t, j) /\ events'[j] = events[j]
    BY <1>3, <1>8, <2>1
  <2>2. CASE /\ i \in DOMAIN events /\ ~Edits(t, i) /\ events'[i] = events[i]
             /\ events'[j].files = t.event.files
    BY <1>4, <2>2 DEF ClearOf, Claims
  <2>3. CASE /\ j \in DOMAIN events /\ ~Edits(t, j) /\ events'[j] = events[j]
             /\ events'[i].files = t.event.files
    BY <1>4, <2>3 DEF ClearOf, Claims
  <2>. QED  BY <1>6, <1>7, <1>8, <2>1, <2>2, <2>3
<1>9. ASSUME NEW v \in Workers, NEW i \in DOMAIN events', Working(v)'
      PROVE  ClearOf(tx[v], i)'
  <2>1. v # w /\ Working(v) /\ tx'[v] = tx[v] /\ Apart(tx[v], t)
    BY <1>2, <1>3, <1>9
  <2>. DEFINE u == tx[v]
  <2>2. u' = u
    BY <2>1
  <2>3. CASE i \in DOMAIN events /\ ~Edits(t, i) /\ events'[i] = events[i]
    <3>1. ClearOf(u, i)
      BY <1>3, <2>1, <2>3
    <3>. QED  BY <2>2, <2>3, <3>1 DEF ClearOf, Claims, Edits
  <2>4. CASE /\ i \in DOMAIN events => Edits(t, i)
             /\ i \notin DOMAIN events => t.change = "add"
             /\ events'[i].files = t.event.files
    <3>1. Claims(u) \cap Claims(t) = {} => Claims(u) \cap events'[i].files = {}
      BY <2>4 DEF Claims
    <3>2. CASE u.change = "edit" /\ Edits(t, u.target)
      <4>1. u.target = i
        BY <2>4, <3>2 DEF Edits
      <4>. QED  BY <2>2, <3>2, <4>1 DEF ClearOf, Edits
    <3>3. CASE Claims(u) \cap Claims(t) = {}
      BY <2>2, <3>1, <3>3 DEF ClearOf, Claims
    <3>. QED  BY <2>1, <3>2, <3>3 DEF Apart
  <2>. QED  BY <1>6, <2>3, <2>4
<1>10. ASSUME NEW u \in Workers, NEW v \in Workers, Working(u)', Working(v)', u # v
       PROVE  Apart(tx[u], tx[v])'
  BY <1>2, <1>10 DEF IInv, FilesApart, Apart, Claims, Edits
<1>11. FilesApart'
  BY <1>8, <1>9, <1>10 DEF FilesApart
<1>12. ReferencesExist'
  <2>. SUFFICES ASSUME NEW i \in DOMAIN events', events'[i].kind = "comment"
                PROVE  events'[i].files \subseteq attached'
    BY DEF ReferencesExist
  <2>1. CASE i \in DOMAIN events /\ ~Edits(t, i) /\ events'[i] = events[i]
    BY <1>2, <1>4, <1>5, <2>1 DEF ClearOf, Claims
  <2>2. CASE events'[i].files = t.event.files /\ events'[i].kind = t.event.kind
    BY <1>1, <1>2, <2>2 DEF Backed
  <2>. QED  BY <1>6, <2>1, <2>2
<1>. QED  BY <1>11, <1>12

\* A commit keeps the invariant.
LEMMA CommitKeeps ==
  ASSUME IInv, NEW w \in Workers, Commit(w)
  PROVE  IInv'
<1>1. ASSUME NEW v \in Workers, Working(v)'
      PROVE  Sound(tx[v])' /\ (habits = {} => Backed(tx[v])')
  <2>1. v # w /\ Working(v)
    BY <1>1 DEF Commit, Working, IInv, TypeOK
  <2>. QED  BY <2>1, CommitKeepsOthers
<1>2. habits' = habits
  BY DEF Commit
<1>3. WorkSound' /\ WorkBacked'
  BY <1>1, <1>2 DEF WorkSound, WorkBacked
<1>4. FilesApart' /\ ReferencesExist'
  <2>1. CASE habits = {}
    BY <2>1, CommitKeepsFiles
  <2>2. CASE habits # {}
    BY <1>2, <2>2 DEF FilesApart, ReferencesExist
  <2>. QED  BY <2>1, <2>2
<1>. QED  BY <1>3, <1>4, CommitKeepsType DEF IInv

\* A rollback keeps the invariant.
LEMMA RollbackKeeps ==
  ASSUME IInv, NEW w \in Workers, Rollback(w)
  PROVE  IInv'
<1>1. /\ \A v \in Workers : Working(v)' => tx'[v] = tx[v] /\ Working(v)
      /\ UNCHANGED <<request, attached, uploaded, events, habits>>
  BY DEF Rollback, IInv, TypeOK, Working
<1>2. TypeOK'
  BY DEF Rollback, IInv, TypeOK, RepliesFlat
<1>3. WorkSound'
  BY <1>1 DEF IInv, WorkSound, Sound, WritesRequest
<1>4. FilesApart'
  BY <1>1 DEF IInv, FilesApart, ClearOf, Apart, Claims, Edits
<1>5. WorkBacked'
  BY <1>1 DEF IInv, WorkBacked, Backed, EventVersionMatches
<1>6. ReferencesExist'
  BY <1>1 DEF IInv, ReferencesExist
<1>. QED  BY <1>2, <1>3, <1>4, <1>5, <1>6 DEF IInv

\* A lock or unlock keeps it: what open units of work have read is stale.
LEMMA SetLockKeeps ==
  ASSUME IInv, PolicyAssumption, NEW id \in Identities, NEW locked \in BOOLEAN,
         SetLock(id, locked)
  PROVE  IInv'
<1>. DEFINE entry == [NoEvent EXCEPT !.by = id, !.version = 1]
<1>1. entry \in Event /\ entry.files = {} /\ entry.parent = 0 /\ entry.kind = "log"
  BY LogIsEvent DEF NoEvent
<1>2. /\ events' = Append(events, entry)
      /\ request' = [request EXCEPT !.locked = locked, !.version = @ + 1]
      /\ UNCHANGED <<attached, uploaded, tx, habits>>
  BY DEF SetLock
<1>3. /\ events' \in Seq(Event) /\ Len(events) \in Nat
      /\ DOMAIN events = 1 .. Len(events)
      /\ DOMAIN events' = 1 .. Len(events) + 1
      /\ \A i \in DOMAIN events : events'[i] = events[i]
      /\ events'[Len(events) + 1] = entry
  <2>. HIDE DEF entry
  <2>. QED  BY <1>1, <1>2, OneMoreEvent DEF IInv, TypeOK
<1>. HIDE DEF entry
<1>4. /\ request' \in Request /\ request'.version = request.version + 1
      /\ request.version \in Nat
  <2>1. request \in Request /\ request.version \in Nat
    BY DEF IInv, TypeOK, Request
  <2>. DEFINE n == request.version + 1
              relocked == [request EXCEPT !.locked = locked]
  <2>2. n \in Nat
    BY <2>1
  <2>3. request' = [relocked EXCEPT !.version = n]
    BY <1>2, <2>1 DEF Request
  <2>. HIDE DEF n
  <2>4. relocked \in Request
    BY <2>1, Zenon DEF Request
  <2>. HIDE DEF relocked
  <2>5. request' \in Request /\ request'.version = n
    BY <2>2, <2>3, <2>4 DEF Request
  <2>. QED  BY <2>1, <2>5 DEF n
<1>5. \A i \in DOMAIN events' : i \in DOMAIN events \/ (i = Len(events) + 1 /\ events'[i] = entry)
  BY <1>3
<1>6. RepliesFlat'
  BY <1>1, <1>3, <1>5, StaysFlat DEF IInv
<1>7. TypeOK'
  BY <1>2, <1>3, <1>4, <1>6 DEF IInv, TypeOK
<1>8. WorkSound'
  <2>. SUFFICES ASSUME NEW v \in Workers, Working(v)  PROVE Sound(tx[v])'
    BY <1>2 DEF WorkSound, Working
  <2>. DEFINE u == tx[v]
  <2>1. u \in Tx /\ u.read \in Nat /\ Sound(u) /\ u' = u
    BY <1>2, WorkingIsTx DEF IInv, WorkSound, Tx
  <2>. HIDE DEF u
  <2>2. u.read <= request'.version /\ request'.version # u.read
    BY <1>4, <2>1 DEF Sound
  <2>3. DOMAIN events \subseteq DOMAIN events'
    BY <1>3
  <2>4. Sound(u)'
    BY <1>2, <1>3, <2>1, <2>2, <2>3 DEF Sound, WritesRequest
  <2>. QED  BY <2>4 DEF u
<1>9. FilesApart'
  <2>. SUFFICES ASSUME habits = {}  PROVE FilesApart'
    BY <1>2 DEF FilesApart
  <2>1. \A i, j \in DOMAIN events' : i # j => events'[i].files \cap events'[j].files = {}
    BY <1>1, <1>3, <1>5 DEF IInv, FilesApart
  <2>2. ASSUME NEW v \in Workers, NEW i \in DOMAIN events', Working(v)
        PROVE  ClearOf(tx[v], i)'
    <3>1. CASE i \in DOMAIN events
      BY <1>2, <1>3, <2>2, <3>1 DEF IInv, FilesApart, ClearOf, Claims, Edits
    <3>2. CASE events'[i] = entry
      BY <1>1, <3>2 DEF ClearOf
    <3>. QED  BY <1>5, <3>1, <3>2
  <2>3. \A v, w \in Workers : Working(v) /\ Working(w) /\ v # w => Apart(tx[v], tx[w])'
    BY <1>2 DEF IInv, FilesApart, Apart, Claims, Edits
  <2>. QED  BY <1>2, <2>1, <2>2, <2>3 DEF FilesApart, Working
<1>10. WorkBacked'
  <2>. SUFFICES ASSUME habits = {}, NEW v \in Workers, Working(v)  PROVE Backed(tx[v])'
    BY <1>2 DEF WorkBacked, Working
  <2>. DEFINE u == tx[v]
  <2>1. Backed(u) /\ Sound(u) /\ u' = u
    BY <1>2 DEF IInv, WorkBacked, WorkSound
  <2>. HIDE DEF u
  <2>2. Backed(u)'
    BY <1>2, <1>3, <2>1 DEF Backed, EventVersionMatches, Sound
  <2>. QED  BY <2>2 DEF u
<1>11. ReferencesExist'
  BY <1>1, <1>2, <1>3, <1>5 DEF IInv, ReferencesExist
<1>. QED  BY <1>7, <1>8, <1>9, <1>10, <1>11 DEF IInv

-----------------------------------------------------------------------------
(* The calls of clients. *)

\* Files that nobody claims are apart from all that is claimed.
LEMMA UnclaimedApart ==
  ASSUME NEW S, \A file \in S : ~Claimed(file)
  PROVE  /\ \A i \in DOMAIN events : S \cap events[i].files = {}
         /\ \A v \in Workers : Working(v) => S \cap Claims(tx[v]) = {}
BY DEF Claimed, Working, Claims

\* The record a call begins with.
Work(id, adds, removes, change, target, event) ==
  [open |-> TRUE, id |-> id, read |-> request.version, adds |-> adds,
   removes |-> removes, change |-> change, target |-> target, event |-> event]

\* A new comment keeps the invariant.
LEMMA CreateKeeps ==
  ASSUME IInv, NEW w \in Workers, NEW id \in Identities,
         NEW files \in SUBSET Files, NEW parent \in {0} \cup DOMAIN events,
         Create(w, id, files, parent)
  PROVE  IInv'
<1>. DEFINE event == [kind |-> "comment", by |-> id, files |-> files,
                      parent |-> parent, version |-> 1]
            t == Work(id, {}, {}, "add", 0, event)
<1>1. /\ event \in Event /\ event.files = files /\ event.parent = parent
      /\ event.kind = "comment"
  BY EventForms DEF IInv, Event
<1>2. /\ Begin(w, id, {}, {}, "add", 0, event) /\ uploaded' = uploaded
      /\ files \subseteq attached
      /\ parent # 0 => parent \in DOMAIN events /\ events[parent].parent = 0
      /\ habits = {} => \A file \in files : ~Claimed(file)
  BY DEF Create, MayList, CheckFileReferences, ParentAllowed
<1>. HIDE DEF event
<1>3. /\ t \in Tx /\ tx[w] = NoTx /\ tx' = [tx EXCEPT ![w] = t]
      /\ UNCHANGED <<request, attached, events, habits>>
      /\ t.read = request.version /\ t.adds = {} /\ t.removes = {}
      /\ t.change = "add" /\ t.event = event
  BY <1>1, <1>2 DEF Begin, MayBegin, Work, Tx, Changes, IInv, TypeOK, Request
<1>. HIDE DEF t
<1>4. habits = {} =>
        /\ Backed(t)
        /\ \A i \in DOMAIN events : ClearOf(t, i)
        /\ \A v \in Workers : Working(v) => Apart(t, tx[v])
  BY <1>1, <1>2, <1>3, UnclaimedApart DEF Backed, ClearOf, Apart, Claims
<1>5. /\ uploaded \subseteq uploaded' /\ uploaded' \subseteq Files
      /\ t.adds \subseteq uploaded' /\ ~WritesRequest(t)
  BY <1>2, <1>3 DEF IInv, TypeOK, WritesRequest
<1>. QED  BY <1>1, <1>2, <1>3, <1>4, <1>5, BeginKeeps

\* An edit or a deletion, which claims what the comment lists and what nobody
\* does, keeps the invariant.
LEMMA EditKeeps ==
  ASSUME IInv, NEW w \in Workers, NEW id \in Identities,
         NEW i \in DOMAIN events, NEW event \in Event, NEW removes \in SUBSET Files,
         Begin(w, id, {}, removes, "edit", i, event), uploaded' = uploaded,
         events[i].kind = "comment", removes \subseteq events[i].files,
         removes # {} => id \in CanManageFiles(request),
         event.parent = events[i].parent, event.version = events[i].version,
         habits = {} =>
           /\ \A file \in event.files \ events[i].files : ~Claimed(file)
           /\ event.kind = "comment" =>
                event.files \subseteq attached /\ event.files \cap removes = {}
  PROVE  IInv'
<1>. DEFINE t == Work(id, {}, removes, "edit", i, event)
<1>1. /\ t \in Tx /\ tx[w] = NoTx /\ tx' = [tx EXCEPT ![w] = t]
      /\ UNCHANGED <<request, attached, events, habits>>
      /\ t.id = id /\ t.read = request.version /\ t.adds = {} /\ t.removes = removes
      /\ t.change = "edit" /\ t.target = i /\ t.event = event
  <2>1. i \in Nat
    BY EventForms DEF IInv
  <2>. QED  BY <2>1 DEF Begin, MayBegin, Work, Tx, Changes, IInv, TypeOK, Request
<1>. HIDE DEF t
<1>2. ASSUME habits = {}
      PROVE  /\ Backed(t)
             /\ \A j \in DOMAIN events : ClearOf(t, j)
             /\ \A v \in Workers : Working(v) => Apart(t, tx[v])
  <2>. DEFINE new == event.files \ events[i].files
  <2>1. /\ \A j \in DOMAIN events : new \cap events[j].files = {}
        /\ \A v \in Workers : Working(v) => new \cap Claims(tx[v]) = {}
    BY <1>2, UnclaimedApart
  <2>2. Claims(t) \subseteq new \cup events[i].files
    BY <1>1 DEF Claims
  <2>. HIDE DEF new
  <2>3. ASSUME NEW j \in DOMAIN events  PROVE ClearOf(t, j)
    <3>1. CASE j = i
      BY <1>1, <3>1 DEF ClearOf, Edits
    <3>2. CASE j # i
      <4>1. events[i].files \cap events[j].files = {}
        BY <1>2, <3>2 DEF IInv, FilesApart
      <4>. QED  BY <2>1, <2>2, <4>1 DEF ClearOf
    <3>. QED  BY <3>1, <3>2
  <2>4. ASSUME NEW v \in Workers, Working(v)  PROVE Apart(t, tx[v])
    <3>1. ClearOf(tx[v], i)
      BY <1>2, <2>4 DEF IInv, FilesApart
    <3>2. CASE Edits(tx[v], i)
      BY <1>1, <3>2 DEF Apart
    <3>3. CASE Claims(tx[v]) \cap events[i].files = {}
      BY <2>1, <2>2, <2>4, <3>3 DEF Apart
    <3>. QED  BY <3>1, <3>2, <3>3 DEF ClearOf
  <2>5. Backed(t)
    BY <1>1, <1>2 DEF Backed
  <2>. QED  BY <2>3, <2>4, <2>5
<1>3. /\ uploaded \subseteq uploaded' /\ uploaded' \subseteq Files
      /\ t.adds \subseteq uploaded'
      /\ WritesRequest(t) => t.id \in CanManageFiles(request)
  BY <1>1 DEF IInv, TypeOK, WritesRequest
<1>. QED  BY <1>1, <1>2, <1>3, BeginKeeps

\* So an update of a comment does,
LEMMA UpdateKeeps ==
  ASSUME IInv, NEW w \in Workers, NEW id \in Identities, NEW i \in DOMAIN events,
         NEW files \in SUBSET Files, NEW listed \in BOOLEAN,
         Update(w, id, i, files, listed)
  PROVE  IInv'
<1>. DEFINE old     == events[i]
            dropped == old.files \ files
            event   == IF listed THEN [old EXCEPT !.files = files] ELSE old
<1>1. /\ Begin(w, id, {}, dropped, "edit", i, event) /\ uploaded' = uploaded
      /\ old.kind = "comment"
      /\ dropped # {} => id \in CanManageFiles(request)
      /\ files \subseteq attached
      /\ habits = {} => listed /\ \A file \in files \ old.files : ~Claimed(file)
  BY DEF Update, DroppedFiles, MayDeleteFiles, MayList, CheckFileReferences
<1>2. old \in Event /\ dropped \in SUBSET Files
  BY EventForms DEF IInv, Event
<1>3. /\ event \in Event /\ event.parent = old.parent /\ event.version = old.version
      /\ listed => event.files = files
  BY <1>2 DEF Event
<1>. HIDE DEF event
<1>4. habits = {} =>
        /\ \A file \in event.files \ old.files : ~Claimed(file)
        /\ event.kind = "comment" =>
             event.files \subseteq attached /\ event.files \cap dropped = {}
  BY <1>1, <1>3
<1>5. dropped \subseteq old.files
  OBVIOUS
<1>. HIDE DEF dropped
<1>. QED  BY <1>1, <1>2, <1>3, <1>4, <1>5, EditKeeps

\* and a deletion,
LEMMA DeleteKeeps ==
  ASSUME IInv, NEW w \in Workers, NEW id \in Identities, NEW i \in DOMAIN events,
         Delete(w, id, i)
  PROVE  IInv'
<1>. DEFINE old   == events[i]
            event == [old EXCEPT !.kind = "log"]
<1>1. /\ Begin(w, id, {}, old.files, "edit", i, event) /\ uploaded' = uploaded
      /\ old.kind = "comment"
      /\ old.files # {} => id \in CanManageFiles(request)
  BY DEF Delete, MayDeleteFiles
<1>2. old \in Event /\ old.files \in SUBSET Files
  BY EventForms DEF IInv, Event
<1>3. /\ event \in Event /\ event.parent = old.parent /\ event.version = old.version
      /\ event.files = old.files /\ event.kind # "comment"
  BY <1>2 DEF Event
<1>. HIDE DEF event
<1>4. habits = {} =>
        /\ \A file \in event.files \ old.files : ~Claimed(file)
        /\ event.kind = "comment" =>
             event.files \subseteq attached /\ event.files \cap old.files = {}
  BY <1>3
<1>. QED  BY <1>1, <1>2, <1>3, <1>4, EditKeeps

\* and a call on a file alone, which lists nothing.
LEMMA FileKeeps ==
  ASSUME IInv, PolicyAssumption, NEW w \in Workers, NEW id \in Identities,
         NEW file \in Files, CreateFile(w, id, file) \/ DeleteFile(w, id, file)
  PROVE  IInv'
<1>1. NoEvent \in Event /\ NoEvent.files = {} /\ NoEvent.kind # "comment"
  BY DEF NoEvent, Event, Identities
<1>2. CASE CreateFile(w, id, file)
  <2>. DEFINE t == Work(id, {file}, {}, "none", 0, NoEvent)
  <2>1. /\ Begin(w, id, {file}, {}, "none", 0, NoEvent)
        /\ uploaded' = uploaded \cup {file} /\ id \in CanManageFiles(request)
    BY <1>2 DEF CreateFile
  <2>2. /\ t \in Tx /\ tx[w] = NoTx /\ tx' = [tx EXCEPT ![w] = t]
        /\ UNCHANGED <<request, attached, events, habits>>
        /\ t.id = id /\ t.read = request.version /\ t.adds = {file}
        /\ t.removes = {} /\ t.change = "none" /\ t.event = NoEvent
    BY <1>1, <2>1 DEF Begin, MayBegin, Work, Tx, Changes, IInv, TypeOK, Request
  <2>. HIDE DEF t
  <2>3. /\ Backed(t)
        /\ \A i \in DOMAIN events : ClearOf(t, i)
        /\ \A v \in Workers : Working(v) => Apart(t, tx[v])
    BY <1>1, <2>2 DEF Backed, ClearOf, Apart, Claims
  <2>4. /\ uploaded \subseteq uploaded' /\ uploaded' \subseteq Files
        /\ t.adds \subseteq uploaded'
    BY <2>1, <2>2 DEF IInv, TypeOK
  <2>. QED  BY <2>1, <2>2, <2>3, <2>4, BeginKeeps
<1>3. CASE DeleteFile(w, id, file)
  <2>. DEFINE t == Work(id, {}, {file}, "none", 0, NoEvent)
  <2>1. /\ Begin(w, id, {}, {file}, "none", 0, NoEvent)
        /\ uploaded' = uploaded /\ id \in CanManageFiles(request)
        /\ habits = {} => ~Claimed(file)
    BY <1>3 DEF DeleteFile, MayDeleteFiles, MayRemove
  <2>2. /\ t \in Tx /\ tx[w] = NoTx /\ tx' = [tx EXCEPT ![w] = t]
        /\ UNCHANGED <<request, attached, events, habits>>
        /\ t.id = id /\ t.read = request.version /\ t.adds = {}
        /\ t.removes = {file} /\ t.change = "none" /\ t.event = NoEvent
    BY <1>1, <2>1 DEF Begin, MayBegin, Work, Tx, Changes, IInv, TypeOK, Request
  <2>. HIDE DEF t
  <2>3. habits = {} =>
          /\ Backed(t)
          /\ \A i \in DOMAIN events : ClearOf(t, i)
          /\ \A v \in Workers : Working(v) => Apart(t, tx[v])
    BY <1>1, <2>1, <2>2, UnclaimedApart DEF Backed, ClearOf, Apart, Claims
  <2>4. /\ uploaded \subseteq uploaded' /\ uploaded' \subseteq Files
        /\ t.adds \subseteq uploaded'
    BY <2>1, <2>2 DEF IInv, TypeOK
  <2>. QED  BY <2>1, <2>2, <2>3, <2>4, BeginKeeps
<1>. QED  BY <1>2, <1>3

-----------------------------------------------------------------------------
(* The invariant. *)

\* A request starts with no event, no file and no unit of work.
LEMMA InitHolds ==
  ASSUME PolicyAssumption, CommentsAssumption, Init
  PROVE  IInv
<1>1. request \in Request
  <2>1. PICK creator \in Creators, receiver \in Receivers :
          request = [status |-> "submitted", creator |-> creator,
                     receiver |-> receiver, reviewers |-> {}, locked |-> FALSE,
                     version |-> 1]
    BY DEF Init
  <2>2. creator \in Users /\ receiver \in Users
    BY DEF CommentsAssumption
  <2>. QED  BY <2>1, <2>2 DEF Request
<1>2. events \in Seq(Event) /\ DOMAIN events = {}
  BY DEF Init
<1>3. \A w \in Workers : ~Working(w)
  BY DEF Init, Working
<1>4. TypeOK
  BY <1>1, <1>2 DEF Init, TypeOK, RepliesFlat
<1>. QED  BY <1>2, <1>3, <1>4 DEF IInv, WorkSound, FilesApart, WorkBacked, ReferencesExist

\* Every step keeps the invariant, one that does nothing included.
LEMMA NextKeeps ==
  ASSUME IInv, PolicyAssumption, [Next]_vars
  PROVE  IInv'
<1>1. CASE UNCHANGED vars
  BY <1>1 DEF vars, IInv, TypeOK, RepliesFlat, WorkSound, Sound, WritesRequest,
              FilesApart, ClearOf, Apart, Claims, Edits, WorkBacked, Backed,
              EventVersionMatches, ReferencesExist, Working
<1>2. ASSUME NEW w \in Workers, NEW id \in Identities, Call(w, id)  PROVE IInv'
  BY <1>2, CreateKeeps, UpdateKeeps, DeleteKeeps, FileKeeps DEF Call
<1>. QED  BY <1>1, <1>2, CommitKeeps, RollbackKeeps, SetLockKeeps DEF Next

\* The invariant holds throughout.
LEMMA Invariant == Spec => []IInv
<1>1. Init => IInv
  BY InitHolds, PolicyAssumption, CommentsAssumption
<1>2. IInv /\ [Next]_vars => IInv'
  BY NextKeeps, PolicyAssumption
<1>. QED  BY <1>1, <1>2, PTL DEF Spec

\* The request, its files, its events and the units of work keep their types, and
\* replies stay one level deep.
THEOREM TypeCorrect == Spec => []TypeOK
<1>1. IInv => TypeOK
  BY DEF IInv
<1>. QED  BY <1>1, Invariant, PTL

\* The files a comment lists are attached, however calls overlap, as long as no
\* client lists a file twice, edits without a list or deletes a listed file.
THEOREM ListedFilesExist == Spec => []ReferencesExist
<1>1. IInv => ReferencesExist
  BY DEF IInv
<1>. QED  BY <1>1, Invariant, PTL

-----------------------------------------------------------------------------
(* Action properties. *)

\* Only a commit changes the events that are there, or the files attached.
LEMMA OnlyCommitsChange ==
  ASSUME IInv, PolicyAssumption, [Next]_vars
  PROVE  \/ /\ attached' = attached
            /\ \A i \in DOMAIN events : events'[i] = events[i]
         \/ \E w \in Workers : Commit(w)
<1>1. CASE UNCHANGED vars
  BY <1>1 DEF vars
<1>2. ASSUME NEW w \in Workers, NEW id \in Identities, Call(w, id)
      PROVE  attached' = attached /\ events' = events
  BY <1>2 DEF Call, Create, Update, Delete, CreateFile, DeleteFile, Begin
<1>3. ASSUME NEW id \in Identities, NEW locked \in BOOLEAN, SetLock(id, locked)
      PROVE  /\ attached' = attached
             /\ \A i \in DOMAIN events : events'[i] = events[i]
  <2>. DEFINE entry == [NoEvent EXCEPT !.by = id, !.version = 1]
  <2>1. attached' = attached /\ events' = Append(events, entry) /\ events \in Seq(Event)
    BY <1>3 DEF SetLock, IInv, TypeOK
  <2>2. entry \in Event
    BY LogIsEvent
  <2>. HIDE DEF entry
  <2>. QED  BY <2>1, <2>2, OneMoreEvent
<1>. QED  BY <1>1, <1>2, <1>3 DEF Next, Rollback

\* While a request is locked no file joins or leaves it but at the hands of
\* administrators and the system, even in a call that began before the lock.
THEOREM LockKeepsFiles == LockingEnabled => (Spec => LockHoldsFiles)
<1>. SUFFICES ASSUME LockingEnabled  PROVE Spec => LockHoldsFiles
  OBVIOUS
<1>1. ASSUME IInv, PolicyAssumption, [Next]_vars, request.locked, attached' # attached
      PROVE  \E w \in Workers :
               /\ tx[w] # NoTx /\ tx'[w] = NoTx
               /\ tx[w].id \in Granted(Admins \cup SystemProcess)
  <2>1. PICK w \in Workers : Commit(w)
    BY <1>1, OnlyCommitsChange
  <2>2. Sound(tx[w])
    BY <1>1, <2>1, CommitEvents DEF IInv, WorkSound
  <2>3. WritesRequest(tx[w]) /\ request.version = tx[w].read
    BY <1>1, <2>1 DEF Commit, WritesRequest, RequestVersionMatches
  <2>4. tx[w].id \in CanManageFiles(request)
    BY <2>2, <2>3 DEF Sound
  <2>5. CanManageFiles(request) \subseteq Granted(Admins \cup SystemProcess)
    BY <1>1, LockedManagers
  <2>6. tx[w] # NoTx /\ tx'[w] = NoTx
    BY <1>1, <2>1 DEF Commit, IInv, TypeOK
  <2>. QED  BY <2>4, <2>5, <2>6
<1>2. IInv /\ [Next]_vars =>
        [request.locked /\ attached' # attached =>
           \E w \in Workers :
             /\ tx[w] # NoTx /\ tx'[w] = NoTx
             /\ tx[w].id \in Granted(Admins \cup SystemProcess)]_vars
  BY <1>1, PolicyAssumption
<1>. QED  BY <1>2, Invariant, PTL DEF Spec, LockHoldsFiles

\* A comment that was deleted stays deleted, even if an edit was open.
THEOREM DeletedForGood == Spec => DeletedStaysDeleted
<1>1. ASSUME IInv, PolicyAssumption, [Next]_vars,
             NEW i \in DOMAIN events, events[i].kind = "log"
      PROVE  events'[i] = events[i]
  <2>1. ASSUME NEW w \in Workers, Commit(w)  PROVE events'[i] = events[i]
    <3>1. /\ ~Edits(tx[w], i) => events'[i] = events[i]
          /\ tx[w].change = "edit" => events[tx[w].target].kind = "comment"
      BY <1>1, <2>1, CommitEvents
    <3>. QED  BY <1>1, <3>1 DEF Edits
  <2>. QED  BY <1>1, <2>1, OnlyCommitsChange
<1>2. IInv /\ [Next]_vars =>
        [\A i \in DOMAIN events : events[i].kind = "log" => events'[i] = events[i]]_vars
  BY <1>1, PolicyAssumption
<1>. QED  BY <1>2, Invariant, PTL DEF Spec, DeletedStaysDeleted

=============================================================================
