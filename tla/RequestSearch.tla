---------------------------- MODULE RequestSearch ----------------------------
(***************************************************************************)
(* Who finds a request in a search, beside who may read it.                *)
(*                                                                         *)
(* The policy is evaluated twice: as needs, on the row and on the entities *)
(* it refers to as they are now, when a request is read; and as a query,   *)
(* on the tokens that were dumped into its document when it was indexed,   *)
(* when requests are searched.  Each generator of the policy has both      *)
(* forms.  Administrators, superusers and the system read and find all and *)
(* are left out.                                                           *)
(*                                                                         *)
(* A query looks at one document at a time, so one request is enough.  A   *)
(* need is named by the entity it is the need of.                          *)
(***************************************************************************)

CONSTANTS
  Users,        \* user accounts; the need of one has the method "id"
  Groups,       \* groups (roles); the need of one has the method "role"
  Communities,  \* entities whose need has a method of its own
  Creators,     \* bound: who creates the request
  Receivers,    \* bound: to whom it may be addressed
  Reviewable,   \* bound: who may become a reviewer
  Sharable,     \* bound: with whom the topic may be shared
  Joiners       \* bound: who joins and leaves groups and communities

Entities == Users \cup Groups \cup Communities

ASSUME SearchAssumption ==
  /\ Users \cap Groups = {}
  /\ (Users \cup Groups) \cap Communities = {}
  /\ Creators \subseteq Users \cup Groups
  /\ Receivers \subseteq Entities
  /\ Reviewable \subseteq Users \cup Groups
  /\ Sharable \subseteq Entities
  /\ Joiners \subseteq Users

VARIABLES
  row,       \* the request row
  doc,       \* its document in the index
  indexed,   \* whether an index operation ran since the row was written last
  shared,    \* the entities whose needs the topic of the request asks for
  members,   \* members[g]: the users that provide the need of g
  reviewing  \* REQUESTS_REVIEWERS_ENABLED

vars == <<row, doc, indexed, shared, members, reviewing>>

None == [status |-> "none"]

\* "closed" stands for the four outcomes, which the policy does not tell apart.
Statuses       == {"created", "submitted", "closed"}
PublicStatuses == {"submitted", "closed"}

\* topical is resolve_topic_needs of the type of the request.
Row == [status: Statuses, creator: Creators, receiver: Receivers,
        reviewers: SUBSET Reviewable, topical: BOOLEAN]

Fields == {"created_by", "receiver", "topic", "reviewers"}
Grants == Fields \X Entities

Doc == [status: Statuses, creator: Creators, receiver: Receivers,
        topical: BOOLEAN, grants: SUBSET Grants]

TypeOK ==
  /\ row \in Row \cup {None}
  /\ doc \in Doc \cup {None}
  /\ indexed \in BOOLEAN
  /\ shared \subseteq Sharable
  /\ members \in [Groups \cup Communities -> SUBSET Joiners]
  /\ reviewing \in BOOLEAN

Provides(user) == {user} \cup {g \in DOMAIN members : user \in members[g]}

-----------------------------------------------------------------------------
(* Needs: the policy of a row. *)

\* What an entity reference grants: the tokens of a field.
Tokens(field, entities) == {field} \X entities

Creator(r)   == {r.creator}
Receiver(r)  == {r.receiver}
Reviewers(r) == IF reviewing THEN r.reviewers ELSE {}
Topic(r)     == IF r.topical THEN shared ELSE {}

NeedsToRead(r) ==
  IF r.status = "created" THEN Creator(r)
  ELSE Creator(r) \cup Receiver(r) \cup Reviewers(r) \cup Topic(r)

MayRead(user) == row # None /\ Provides(user) \cap NeedsToRead(row) # {}

-----------------------------------------------------------------------------
(* Queries: the policy of a document. *)

\* Mutant of DumpOf: reviewers are dumped only where they are enabled.
DumpOfEnabled(r) ==
  [status |-> r.status, creator |-> r.creator, receiver |-> r.receiver,
   topical |-> r.topical,
   grants |-> Tokens("created_by", {r.creator}) \cup Tokens("receiver", {r.receiver})
              \cup Tokens("topic", shared) \cup Tokens("reviewers", Reviewers(r))]

\* The dumper resolves the topic of every type and the reviewers whatever the
\* configuration: the queries leave out what does not count.
DumpOf(r) ==
  [status |-> r.status, creator |-> r.creator, receiver |-> r.receiver,
   topical |-> r.topical,
   grants |-> Tokens("created_by", {r.creator}) \cup Tokens("receiver", {r.receiver})
              \cup Tokens("topic", shared) \cup Tokens("reviewers", r.reviewers)]

HasGrant(user, field) == doc.grants \cap Tokens(field, Provides(user)) # {}

QueryReviewers(user) == reviewing /\ HasGrant(user, "reviewers")

\* Types that do not resolve their topic are excluded.
QueryTopic(user) == HasGrant(user, "topic") /\ doc.topical

\* Whether the query of can_read lets the document through.
Finds(user) ==
  /\ doc # None
  /\ \/ doc.status = "created" /\ HasGrant(user, "created_by")
     \/ /\ doc.status \in PublicStatuses
        /\ \/ HasGrant(user, "created_by") \/ HasGrant(user, "receiver")
           \/ QueryReviewers(user) \/ QueryTopic(user)

\* The two lists of the requests of a user, which show no drafts.
OwnQuery(user) == user \in {doc.creator, doc.receiver}

Personal(user) == Provides(user) \cap (Users \cup Groups)

\* Mutant of SharedQuery: the grants of reviewers are not looked for.
SharedQueryOfTopic(user) ==
  doc.grants \cap Tokens("topic", Personal(user)) # {} /\ ~OwnQuery(user)

SharedQuery(user) ==
  /\ doc.grants \cap ({"topic", "reviewers"} \X Personal(user)) # {}
  /\ ~OwnQuery(user)

Listed(user, own) ==
  /\ Finds(user)
  /\ doc.status # "created"
  /\ IF own THEN OwnQuery(user) ELSE SharedQuery(user)

-----------------------------------------------------------------------------
(* What a list offers on a request it found. *)

Actions == {"submit", "cancel", "accept", "decline"}

StatusFrom(action) == IF action = "submit" THEN "created" ELSE "submitted"

Holders(action, r) ==
  IF action \in {"submit", "cancel"} THEN Creator(r) ELSE Receiver(r)

\* _is_action_available: of a request loaded from a document in a list, of a row
\* in the service that executes it.
IsActionAvailable(user, action, r) ==
  r.status = StatusFrom(action) /\ Provides(user) \cap Holders(action, r) # {}

-----------------------------------------------------------------------------
(* Calls on the request. *)

Write(new) ==
  /\ row' = new
  /\ indexed' = FALSE
  /\ UNCHANGED <<doc, shared, members, reviewing>>

\* Ids are not used again: what a deleted request left is gone before another.
Create ==
  /\ row = None /\ doc = None
  /\ \E creator \in Creators, receiver \in Receivers, topical \in BOOLEAN :
       Write([status |-> "created", creator |-> creator, receiver |-> receiver,
              reviewers |-> {}, topical |-> topical])

\* Mutant of UpdateReceiver: a submitted request may still change receiver.
UpdateReceiverOfAny(receiver) ==
  row # None /\ Write([row EXCEPT !.receiver = receiver])

UpdateReceiver(receiver) ==
  row.status = "created" /\ Write([row EXCEPT !.receiver = receiver])

\* An administrator who may accept changes them in any status.
UpdateReviewers(reviewers) ==
  row # None /\ reviewing /\ Write([row EXCEPT !.reviewers = reviewers])

Submit == row.status = "created" /\ Write([row EXCEPT !.status = "submitted"])

Close == row.status = "submitted" /\ Write([row EXCEPT !.status = "closed"])

\* Mutant of Delete: the delete action runs and the row stays.
DeleteMarksOnly ==
  row.status = "created" /\ Write([row EXCEPT !.status = "deleted"])

Delete == row.status = "created" /\ Write(None)

\* The index operation of a call, or a reindexing of all requests.
Index ==
  /\ doc' = IF row = None THEN None ELSE DumpOf(row)
  /\ indexed' = TRUE
  /\ UNCHANGED <<row, shared, members, reviewing>>

-----------------------------------------------------------------------------
(* What changes around it, and indexes nothing. *)

Share(entities) ==
  /\ shared' = entities
  /\ UNCHANGED <<row, doc, indexed, members, reviewing>>

Members(group, users) ==
  /\ members' = [members EXCEPT ![group] = users]
  /\ UNCHANGED <<row, doc, indexed, shared, reviewing>>

\* A restart with the other configuration.
Reconfigure ==
  /\ reviewing' = ~reviewing
  /\ UNCHANGED <<row, doc, indexed, shared, members>>

Init ==
  /\ row = None /\ doc = None /\ indexed = TRUE
  /\ shared = {}
  /\ members = [g \in Groups \cup Communities |-> {}]
  /\ reviewing \in BOOLEAN

Next ==
  \/ Create \/ Submit \/ Close \/ Delete
  \/ \E receiver \in Receivers : UpdateReceiver(receiver)
  \/ \E reviewers \in SUBSET Reviewable : UpdateReviewers(reviewers)
  \/ Index
  \/ \E entities \in SUBSET Sharable : Share(entities)
  \/ \E group \in DOMAIN members, users \in SUBSET Joiners :
       Members(group, users)
  \/ Reconfigure

Spec == Init /\ [][Next]_vars

-----------------------------------------------------------------------------
(* Properties. *)

\* A user whose standing with the topic, where it counts, is not what the
\* document says.
TopicStale(user) ==
  /\ doc # None
  /\ doc.topical
  /\ \E e \in Provides(user) : (<<"topic", e>> \in doc.grants) # (e \in shared)

\* Once the last write has been indexed, a user finds the request in a search
\* exactly if the user may read it, through every later change of groups and of
\* configuration; only a change of the topic's own access makes the two differ,
\* and only for those it concerns (generators.py: needs and query_filter).
FoundIfReadable ==
  indexed => \A user \in Users :
    TopicStale(user) \/ (Finds(user) <=> MayRead(user))

\* Whose part in a request the lists of user requests are about: who created it,
\* whom it is addressed to, or who may read it as a reviewer or by the topic
\* personally or through a group.
TakesPart(user) ==
  \/ user \in {row.creator, row.receiver}
  \/ (Reviewers(row) \cup Topic(row)) \cap Personal(user) # {}

\* Whoever takes part in a request that is no draft has it in exactly one of the
\* two lists once it is indexed: it is not lost between them
\* (SharedOrMyRequestsParam works on references and tokens, not on the policy).
ListedOnce ==
  indexed /\ row # None /\ row.status # "created" => \A user \in Users :
    TakesPart(user) /\ ~TopicStale(user) =>
      Listed(user, TRUE) # Listed(user, FALSE)

\* A list shows what its index had: an action it offers on an old document is
\* still admitted if the request has kept the status the list showed, however
\* long ago it was indexed (ActionsEndpointLinks on the loaded document).
OffersHold ==
  doc # None /\ row # None /\ doc.status = row.status =>
    \A user \in Users, action \in Actions :
      IsActionAvailable(user, action, doc) => IsActionAvailable(user, action, row)

=============================================================================
