------------------------- MODULE RequestSearchProofs -------------------------
(***************************************************************************)
(* Proofs about RequestSearch, for every set of users, groups and          *)
(* communities.                                                            *)
(*                                                                         *)
(* The properties compare a document with a row, so the invariant says     *)
(* what the two have in common: while the last write is indexed, all that  *)
(* is in the row and nothing of what the topic grants (Mirrors); however   *)
(* old the document is, what no call changes any more (Kept).              *)
(***************************************************************************)
EXTENDS RequestSearch, TLAPS

\* The tokens of a document that was dumped from row r when the topic was shared
\* with the entities of some set.
GrantsOf(r, entities) ==
  Tokens("created_by", {r.creator}) \cup Tokens("receiver", {r.receiver})
    \cup Tokens("topic", entities) \cup Tokens("reviewers", r.reviewers)

Mirrors ==
  indexed =>
    \/ row = None /\ doc = None
    \/ /\ row # None /\ doc # None
       /\ doc.status = row.status /\ doc.creator = row.creator
       /\ doc.receiver = row.receiver /\ doc.topical = row.topical
       /\ \E entities \in SUBSET Sharable : doc.grants = GrantsOf(row, entities)

Kept ==
  doc # None /\ row # None =>
    /\ doc.creator = row.creator
    /\ doc.status # "created" =>
         row.status # "created" /\ doc.receiver = row.receiver

IInv == TypeOK /\ Mirrors /\ Kept

-----------------------------------------------------------------------------
(* The invariant. *)

\* A row is no absent row, and what is dumped from it is a document.
LEMMA Dumped ==
  ASSUME SearchAssumption, NEW r \in Row, shared \subseteq Sharable
  PROVE  /\ r # None
         /\ DumpOf(r) \in Doc /\ DumpOf(r) # None
         /\ DumpOf(r).grants = GrantsOf(r, shared)
<1>1. r # None
  BY DEF Row, None, Statuses
<1>2. /\ {r.creator} \subseteq Entities /\ {r.receiver} \subseteq Entities
      /\ shared \subseteq Entities /\ r.reviewers \subseteq Entities
  BY DEF Row, SearchAssumption, Entities
<1>3. DumpOf(r).grants \subseteq Grants
  BY <1>2 DEF DumpOf, Tokens, Grants, Fields
<1>4. DumpOf(r) \in Doc
  BY <1>3 DEF DumpOf, Doc, Row
<1>5. DumpOf(r) # None
  BY <1>4 DEF Doc, None, Statuses
<1>. QED  BY <1>1, <1>4, <1>5 DEF DumpOf, GrantsOf

\* A write of the row, of a new one only if nothing is indexed, keeps the
\* invariant if it keeps the creator, never goes back to a draft, and leaves the
\* receiver of what is no draft.
LEMMA WriteKeeps ==
  ASSUME IInv, NEW new \in Row \cup {None}, Write(new),
         new # None /\ row = None => doc = None,
         new # None /\ row # None =>
           /\ new.creator = row.creator
           /\ row.status # "created" =>
                new.status # "created" /\ new.receiver = row.receiver
  PROVE  IInv'
<1>1. TypeOK'
  BY DEF IInv, TypeOK, Write
<1>2. Mirrors'
  BY DEF Mirrors, Write
<1>3. Kept'
  <2>1. row' = new /\ doc' = doc
    BY DEF Write
  <2>2. CASE row = None
    BY <2>1, <2>2 DEF Kept
  <2>3. CASE row # None
    BY <2>1, <2>3 DEF IInv, Kept
  <2>. QED  BY <2>2, <2>3
<1>. QED  BY <1>1, <1>2, <1>3 DEF IInv

\* Nothing is indexed and nothing is in the index at the start.
THEOREM InvariantInit == ASSUME SearchAssumption, Init PROVE IInv
<1>1. TypeOK
  BY DEF Init, TypeOK
<1>2. Mirrors /\ Kept
  BY DEF Init, Mirrors, Kept
<1>. QED  BY <1>1, <1>2 DEF IInv

\* Every operation keeps the invariant (RequestsService and what changes around
\* the request).
THEOREM InvariantNext ==
  ASSUME SearchAssumption, IInv, [Next]_vars
  PROVE  IInv'
<1>1. CASE Create
  <2>1. PICK creator \in Creators, receiver \in Receivers, topical \in BOOLEAN :
          Write([status |-> "created", creator |-> creator, receiver |-> receiver,
                 reviewers |-> {}, topical |-> topical])
    BY <1>1 DEF Create
  <2>2. [status |-> "created", creator |-> creator, receiver |-> receiver,
         reviewers |-> {}, topical |-> topical] \in Row
    BY DEF Row, Statuses
  <2>. QED  BY <1>1, <2>1, <2>2, WriteKeeps DEF Create
<1>2. CASE Submit
  <2>1. row \in Row
    BY <1>2 DEF Submit, IInv, TypeOK, None
  <2>. DEFINE new == [row EXCEPT !.status = "submitted"]
  <2>2. new \in Row /\ new.creator = row.creator
    BY <2>1 DEF Row, Statuses
  <2>3. Write(new) /\ row.status = "created" /\ row # None
    BY <1>2 DEF Submit, None
  <2>. HIDE DEF new
  <2>. QED  BY <2>2, <2>3, WriteKeeps
<1>3. CASE Close
  <2>1. row \in Row
    BY <1>3 DEF Close, IInv, TypeOK, None
  <2>. DEFINE new == [row EXCEPT !.status = "closed"]
  <2>2. /\ new \in Row /\ new.creator = row.creator
        /\ new.status = "closed" /\ new.receiver = row.receiver
    BY <2>1 DEF Row, Statuses
  <2>3. Write(new) /\ row # None
    BY <1>3 DEF Close, None
  <2>. HIDE DEF new
  <2>. QED  BY <2>2, <2>3, WriteKeeps
<1>4. CASE Delete
  BY <1>4, WriteKeeps DEF Delete
<1>5. ASSUME NEW receiver \in Receivers, UpdateReceiver(receiver)
      PROVE  IInv'
  <2>1. row \in Row
    BY <1>5 DEF UpdateReceiver, IInv, TypeOK, None
  <2>. DEFINE new == [row EXCEPT !.receiver = receiver]
  <2>2. new \in Row /\ new.creator = row.creator
    BY <2>1 DEF Row
  <2>3. Write(new) /\ row.status = "created" /\ row # None
    BY <1>5 DEF UpdateReceiver, None
  <2>. HIDE DEF new
  <2>. QED  BY <2>2, <2>3, WriteKeeps
<1>6. ASSUME NEW reviewers \in SUBSET Reviewable, UpdateReviewers(reviewers)
      PROVE  IInv'
  <2>1. row \in Row
    BY <1>6 DEF UpdateReviewers, IInv, TypeOK
  <2>. DEFINE new == [row EXCEPT !.reviewers = reviewers]
  <2>2. /\ new \in Row /\ new.creator = row.creator
        /\ new.status = row.status /\ new.receiver = row.receiver
    BY <2>1 DEF Row
  <2>3. Write(new) /\ row # None
    BY <1>6 DEF UpdateReviewers
  <2>. HIDE DEF new
  <2>. QED  BY <2>2, <2>3, WriteKeeps
<1>7. CASE Index
  <2>0. shared \subseteq Sharable /\ row' = row /\ indexed' = TRUE
    BY <1>7 DEF Index, IInv, TypeOK
  <2>1. CASE row = None
    <3>1. doc' = None
      BY <1>7, <2>1 DEF Index
    <3>. QED  BY <1>7, <2>0, <2>1, <3>1 DEF Index, IInv, TypeOK, Mirrors, Kept
  <2>2. CASE row # None
    <3>1. row \in Row /\ doc' = DumpOf(row)
      BY <1>7, <2>2 DEF Index, IInv, TypeOK
    <3>2. doc' \in Doc /\ doc' # None /\ doc'.grants = GrantsOf(row, shared)
      BY <2>0, <3>1, Dumped
    <3>3. /\ doc'.status = row.status /\ doc'.creator = row.creator
          /\ doc'.receiver = row.receiver /\ doc'.topical = row.topical
      BY <3>1 DEF DumpOf
    <3>4. TypeOK'
      BY <1>7, <3>2 DEF Index, IInv, TypeOK
    <3>5. GrantsOf(row', shared) = GrantsOf(row, shared)
      BY <2>0
    <3>6. Mirrors'
      BY <2>0, <2>2, <3>2, <3>3, <3>5 DEF Mirrors, GrantsOf, Tokens
    <3>7. Kept'
      BY <2>0, <3>3 DEF Kept
    <3>. QED  BY <3>4, <3>6, <3>7 DEF IInv
  <2>. QED  BY <2>1, <2>2
<1>8. ASSUME NEW entities \in SUBSET Sharable, Share(entities)
      PROVE  IInv'
  BY <1>8 DEF Share, IInv, TypeOK, Mirrors, Kept, GrantsOf, Tokens
<1>9. ASSUME NEW group \in DOMAIN members, NEW users \in SUBSET Joiners,
             Members(group, users)
      PROVE  IInv'
  BY <1>9 DEF Members, IInv, TypeOK, Mirrors, Kept, GrantsOf, Tokens
<1>10. CASE Reconfigure
  BY <1>10 DEF Reconfigure, IInv, TypeOK, Mirrors, Kept, GrantsOf, Tokens
<1>11. CASE UNCHANGED vars
  BY <1>11 DEF vars, IInv, TypeOK, Mirrors, Kept, GrantsOf, Tokens
<1>. QED
  BY <1>1, <1>2, <1>3, <1>4, <1>5, <1>6, <1>7, <1>8, <1>9, <1>10, <1>11 DEF Next

\* The invariant holds throughout.
THEOREM Invariant == Spec => []IInv
<1>1. Init => IInv
  BY SearchAssumption, InvariantInit
<1>2. IInv /\ [Next]_vars => IInv'
  BY SearchAssumption, InvariantNext
<1>. QED  BY <1>1, <1>2, PTL DEF Spec

\* Rows, documents and what is around them keep their types.
THEOREM TypeCorrect == Spec => []TypeOK
<1>1. IInv => TypeOK
  BY DEF IInv
<1>. QED  BY <1>1, Invariant, PTL

-----------------------------------------------------------------------------
(* What lists offer. *)

\* An action that a list offers on an old document is admitted if the status is
\* still the one shown (ActionsEndpointLinks).
THEOREM OffersAdmitted == Spec => []OffersHold
<1>1. ASSUME IInv PROVE OffersHold
  <2>1. SUFFICES ASSUME doc # None, row # None, doc.status = row.status,
                        NEW user \in Users, NEW action \in Actions,
                        IsActionAvailable(user, action, doc)
                 PROVE  IsActionAvailable(user, action, row)
    BY DEF OffersHold
  <2>2. doc.creator = row.creator
    BY <1>1, <2>1 DEF IInv, Kept
  <2>3. CASE action \in {"submit", "cancel"}
    BY <2>1, <2>2, <2>3 DEF IsActionAvailable, Holders, Creator
  <2>4. CASE action \notin {"submit", "cancel"}
    <3>1. doc.status = "submitted"
      BY <2>1, <2>4 DEF IsActionAvailable, StatusFrom
    <3>2. doc.receiver = row.receiver
      BY <1>1, <2>1, <3>1 DEF IInv, Kept
    <3>. QED  BY <2>1, <2>4, <3>2 DEF IsActionAvailable, Holders, Receiver
  <2>. QED  BY <2>3, <2>4
<1>. QED  BY <1>1, Invariant, PTL

-----------------------------------------------------------------------------
(* What searches find. *)

\* A user has the grant of a field if the document has the token of that field
\* for an entity whose need the user provides.
LEMMA GrantOf ==
  ASSUME NEW user, NEW field
  PROVE  HasGrant(user, field) <=>
           \E e \in Provides(user) : <<field, e>> \in doc.grants
<1>1. \A x : x \in {field} \X Provides(user) <=>
               \E e \in Provides(user) : x = <<field, e>>
  OBVIOUS
<1>2. HasGrant(user, field) <=>
        \E x \in {field} \X Provides(user) : x \in doc.grants
  BY Zenon DEF HasGrant, Tokens
<1>. QED  BY <1>1, <1>2, Zenon

\* Which tokens of a document an indexed row has put there.
LEMMA GrantsMean ==
  ASSUME IInv, indexed, row # None, NEW user
  PROVE  /\ doc # None
         /\ doc.status = row.status /\ doc.creator = row.creator
         /\ doc.receiver = row.receiver /\ doc.topical = row.topical
         /\ HasGrant(user, "created_by") <=> row.creator \in Provides(user)
         /\ HasGrant(user, "receiver") <=> row.receiver \in Provides(user)
         /\ HasGrant(user, "reviewers") <=> row.reviewers \cap Provides(user) # {}
         /\ \A e : <<"reviewers", e>> \in doc.grants <=> e \in row.reviewers
<1>1. /\ doc # None
      /\ doc.status = row.status /\ doc.creator = row.creator
      /\ doc.receiver = row.receiver /\ doc.topical = row.topical
  BY DEF IInv, Mirrors
<1>2. PICK entities \in SUBSET Sharable : doc.grants = GrantsOf(row, entities)
  BY DEF IInv, Mirrors
<1>3. \A e : /\ <<"created_by", e>> \in doc.grants <=> e = row.creator
             /\ <<"receiver", e>> \in doc.grants <=> e = row.receiver
             /\ <<"reviewers", e>> \in doc.grants <=> e \in row.reviewers
  BY <1>2 DEF GrantsOf, Tokens
<1>5. HasGrant(user, "created_by") <=> row.creator \in Provides(user)
  BY <1>3, GrantOf, Zenon
<1>6. HasGrant(user, "receiver") <=> row.receiver \in Provides(user)
  BY <1>3, GrantOf, Zenon
<1>7. HasGrant(user, "reviewers") <=> row.reviewers \cap Provides(user) # {}
  BY <1>3, GrantOf, Zenon
<1>. QED  BY <1>1, <1>3, <1>5, <1>6, <1>7, Zenon

\* For users whose standing with the topic the document has right, so has the
\* query.
LEMMA TopicMeans ==
  ASSUME doc # None, NEW user, ~TopicStale(user)
  PROVE  /\ QueryTopic(user) <=> doc.topical /\ shared \cap Provides(user) # {}
         /\ doc.topical => \A e \in Provides(user) :
                             <<"topic", e>> \in doc.grants <=> e \in shared
<1>1. doc.topical => \A e \in Provides(user) :
                       <<"topic", e>> \in doc.grants <=> e \in shared
  BY DEF TopicStale
<1>2. HasGrant(user, "topic") <=>
        \E e \in Provides(user) : <<"topic", e>> \in doc.grants
  BY GrantOf
<1>. QED  BY <1>1, <1>2 DEF QueryTopic

\* Once the last write is indexed, searches find what may be read (the two forms
\* of every generator of can_read), but for changes of the topic's own access.
THEOREM FoundAsReadable == Spec => []FoundIfReadable
<1>1. ASSUME IInv PROVE FoundIfReadable
  <2>1. SUFFICES ASSUME indexed, NEW user \in Users, ~TopicStale(user)
                 PROVE  Finds(user) <=> MayRead(user)
    BY DEF FoundIfReadable
  <2>2. CASE row = None
    BY <1>1, <2>1, <2>2 DEF IInv, Mirrors, Finds, MayRead
  <2>3. CASE row # None
    <3>1. row.status \in {"created", "submitted", "closed"}
      BY <1>1, <2>3 DEF IInv, TypeOK, Row, Statuses
    <3>2. CASE row.status = "created"
      <4>1. Finds(user) <=> row.creator \in Provides(user)
        BY <1>1, <2>1, <2>3, <3>2, GrantsMean DEF Finds, PublicStatuses
      <4>2. MayRead(user) <=> row.creator \in Provides(user)
        BY <2>3, <3>2 DEF MayRead, NeedsToRead, Creator
      <4>. QED  BY <4>1, <4>2
    <3>3. CASE row.status # "created"
      <4>. DEFINE Entitled == \/ row.creator \in Provides(user)
                              \/ row.receiver \in Provides(user)
                              \/ reviewing /\ row.reviewers \cap Provides(user) # {}
                              \/ row.topical /\ shared \cap Provides(user) # {}
      <4>1. doc # None /\ doc.status = row.status /\ doc.topical = row.topical
        BY <1>1, <2>1, <2>3, GrantsMean
      <4>2. QueryTopic(user) <=> row.topical /\ shared \cap Provides(user) # {}
        BY <2>1, <4>1, TopicMeans
      <4>3. QueryReviewers(user) <=>
              reviewing /\ row.reviewers \cap Provides(user) # {}
        BY <1>1, <2>1, <2>3, GrantsMean DEF QueryReviewers
      <4>4. Finds(user) <=> Entitled
        BY <1>1, <2>1, <2>3, <3>1, <3>3, <4>1, <4>2, <4>3, GrantsMean
           DEF Finds, PublicStatuses
      <4>5. MayRead(user) <=> Entitled
        BY <2>3, <3>3 DEF MayRead, NeedsToRead, Creator, Receiver, Reviewers, Topic
      <4>. QED  BY <4>4, <4>5
    <3>. QED  BY <3>2, <3>3
  <2>. QED  BY <2>2, <2>3
<1>. QED  BY <1>1, Invariant, PTL

\* Whoever takes part in a request has it in one of the two lists, and in one
\* only (SharedOrMyRequestsParam).
THEOREM ListedInOne == Spec => []ListedOnce
<1>1. ASSUME IInv PROVE ListedOnce
  <2>1. SUFFICES ASSUME indexed, row # None, row.status # "created",
                        NEW user \in Users, TakesPart(user), ~TopicStale(user)
                 PROVE  Listed(user, TRUE) # Listed(user, FALSE)
    BY DEF ListedOnce
  <2>2. /\ doc # None /\ doc.status = row.status /\ doc.creator = row.creator
        /\ doc.receiver = row.receiver /\ doc.topical = row.topical
    BY <1>1, <2>1, GrantsMean
  <2>3. doc.status \in PublicStatuses /\ doc.status # "created"
    BY <1>1, <2>1, <2>2 DEF IInv, TypeOK, Row, Statuses, PublicStatuses
  <2>4. user \in Provides(user) /\ Personal(user) \subseteq Provides(user)
    BY DEF Provides, Personal
  <2>5. CASE OwnQuery(user)
    <3>1. row.creator \in Provides(user) \/ row.receiver \in Provides(user)
      BY <2>2, <2>4, <2>5 DEF OwnQuery
    <3>2. Finds(user)
      BY <1>1, <2>1, <2>2, <2>3, <3>1, GrantsMean DEF Finds
    <3>3. Listed(user, TRUE) = TRUE /\ Listed(user, FALSE) = FALSE
      BY <2>3, <2>5, <3>2 DEF Listed, SharedQuery
    <3>. QED  BY <3>3
  <2>6. CASE ~OwnQuery(user)
    <3>1. PICK e \in Personal(user) : e \in Reviewers(row) \cup Topic(row)
      BY <2>1, <2>2, <2>6 DEF TakesPart, OwnQuery
    <3>2. e \in Provides(user)
      BY <2>4, <3>1
    <3>3. CASE e \in Reviewers(row)
      <4>1. reviewing /\ e \in row.reviewers
        BY <3>3 DEF Reviewers
      <4>2. <<"reviewers", e>> \in doc.grants
        BY <1>1, <2>1, <4>1, GrantsMean
      <4>3. QueryReviewers(user)
        BY <1>1, <2>1, <3>2, <4>1, GrantsMean DEF QueryReviewers
      <4>4. Finds(user)
        BY <2>2, <2>3, <4>3 DEF Finds
      <4>5. SharedQuery(user)
        BY <2>6, <3>1, <4>2 DEF SharedQuery
      <4>6. Listed(user, TRUE) = FALSE /\ Listed(user, FALSE) = TRUE
        BY <2>3, <2>6, <4>4, <4>5 DEF Listed
      <4>. QED  BY <4>6
    <3>4. CASE e \in Topic(row)
      <4>1. row.topical /\ e \in shared
        BY <3>4 DEF Topic
      <4>2. <<"topic", e>> \in doc.grants
        BY <2>1, <2>2, <3>2, <4>1, TopicMeans
      <4>3. QueryTopic(user)
        BY <2>1, <2>2, <3>2, <4>1, TopicMeans
      <4>4. Finds(user)
        BY <2>2, <2>3, <4>3 DEF Finds
      <4>5. SharedQuery(user)
        BY <2>6, <3>1, <4>2 DEF SharedQuery
      <4>6. Listed(user, TRUE) = FALSE /\ Listed(user, FALSE) = TRUE
        BY <2>3, <2>6, <4>4, <4>5 DEF Listed
      <4>. QED  BY <4>6
    <3>. QED  BY <3>1, <3>3, <3>4
  <2>. QED  BY <2>5, <2>6
<1>. QED  BY <1>1, Invariant, PTL

=============================================================================
