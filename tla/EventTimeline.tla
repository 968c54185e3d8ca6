---------------------------- MODULE EventTimeline ----------------------------
(***************************************************************************)
(* The lists of events: the timeline of a request and the replies to one   *)
(* of its events, page by page or from the page of one event.              *)
(*                                                                         *)
(* All of them are queries to the index, each of which sees it at one      *)
(* moment.  A client that follows the links from page to page, and a call  *)
(* that counts the events before the one it wants and then asks for the    *)
(* page this makes, both query an index that changes in between.           *)
(***************************************************************************)
EXTENDS RequestEvents, FiniteSets

CONSTANTS
  PageSizes,    \* the sizes clients ask for
  PreviewSize   \* REQUESTS_COMMENT_PREVIEW_LIMIT

ASSUME TimelineAssumption ==
  PageSizes \subseteq Nat \ {0} /\ PreviewSize \in Nat

VARIABLE query  \* the list a client is reading

vars == <<request, events, index, query>>

Idle == [mode |-> "idle"]

Sorts == {"oldest", "newest"}

\* A walk: the next page, what was to be found when it began and at the last
\* page, the hits received, and whether something came in ahead of them.
Walk == [mode: {"walk", "walked"}, parent: Nat, sort: Sorts, size: PageSizes,
         page: Nat, first: SUBSET Nat, known: SUBSET Nat, seen: SUBSET Nat, hits: Nat,
         late: BOOLEAN]

\* A list focused on an event: counted, then answered with its hits.
Focus == [mode: {"counted", "focused"}, parent: Nat, sort: Sorts,
          size: PageSizes, target: Nat, page: Nat, known: SUBSET Nat, hits: SUBSET Nat, late: BOOLEAN]

TypeOK ==
  /\ EventsTypeOK
  /\ query \in Walk \cup Focus \cup {Idle}

-----------------------------------------------------------------------------
(* Queries. *)

\* The documents of the timeline (parent = 0) or of the replies to an event.
Found(parent) == {d \in index : d.parent = parent}

Before(sort, i, j) == IF sort = "oldest" THEN i < j ELSE i > j

\* How many hits come before event i in a list.
Place(docs, sort, i) == Cardinality({d \in docs : Before(sort, d.id, i)})

\* Mutant of Page: the page is taken for an offset.
PageOverlapping(docs, sort, size, page) ==
  {d \in docs : Place(docs, sort, d.id) \in page - 1 .. page * size - 1}

\* The hits of a page, those in these places of the list.
Page(docs, sort, size, page) ==
  {d \in docs : Place(docs, sort, d.id) \in (page - 1) * size .. page * size - 1}

\* Something new comes before something known.
Overtakes(sort, known, now) ==
  \E new \in now \ known, old \in known : Before(sort, new, old)

\* has_child with inner_hits: the replies on the shard of the event.
Children(d) == {c \in index : c.parent = d.id /\ c.shard = d.shard}

\* A hit of the timeline carries its newest replies, and how many there are.
Preview(d) ==
  {c \in Children(d) : Place(Children(d), "newest", c.id) < PreviewSize}

ChildrenCount(d) == Cardinality(Children(d))

-----------------------------------------------------------------------------
(* search and get_comment_replies, page after page along the next links. *)

StartWalk(id, parent, sort, size) ==
  /\ query.mode \in {"idle", "walked", "focused"}
  /\ id \in CanRead(request)
  /\ parent = 0 \/ Stored(parent)
  /\ query' = [mode |-> "walk", parent |-> parent, sort |-> sort, size |-> size,
               page |-> 1, first |-> Ids(Found(parent)),
               known |-> Ids(Found(parent)), seen |-> {}, hits |-> 0, late |-> FALSE]
  /\ UNCHANGED eventVars

NextPage ==
  LET found == Found(query.parent)
      page  == Page(found, query.sort, query.size, query.page)
      more  == query.page * query.size < Cardinality(found)
  IN
  /\ query.mode = "walk"
  /\ query' = [query EXCEPT
       !.mode = IF more THEN "walk" ELSE "walked",
       !.page = @ + 1,
       !.known = Ids(found),
       !.seen = @ \cup Ids(page),
       !.hits = @ + Cardinality(page),
       !.late = @ \/ Overtakes(query.sort, query.known, Ids(found))]
  /\ UNCHANGED eventVars

-----------------------------------------------------------------------------
(* focused_list and focused_reply_list. *)

\* Mutant of PageOf: the event itself is counted.
PageOfInclusive(docs, order, size, i) ==
  Cardinality({d \in docs : d.id = i \/ Before(order, d.id, i)}) \div size + 1

PageOf(docs, order, size, i) ==
  Place(docs, order, i) \div size + 1

\* The target, 0 if it is not there, is counted to in one order; the list is
\* sorted in another if the client says so.
Count(parent, order, sort, size, target) ==
  /\ query.mode \in {"idle", "walked", "focused"}
  /\ query' = [mode |-> "counted", parent |-> parent, sort |-> sort,
               size |-> size, target |-> target,
               known |-> Ids(Found(parent)),
               page |-> IF target = 0 THEN 1
                        ELSE PageOf(Found(parent), order, size, target),
               hits |-> {}, late |-> FALSE]
  /\ UNCHANGED eventVars

\* The event is read from the database; for a reply the page is that of its
\* parent, for an event that is not there it is the first.
FocusedList(id, i, size) ==
  /\ id \in CanRead(request)
  /\ Count(0, "oldest", "oldest", size,
           IF ~Stored(i) THEN 0
           ELSE IF events[i].parent = 0 THEN i ELSE events[i].parent)

\* An event that is no reply to this parent is an error.  The page is counted
\* from the newest reply; the sort of the list is what the client says.
FocusedReplyList(id, parent, i, sort, size) ==
  /\ id \in CanRead(request)
  /\ Stored(parent)
  /\ Stored(i) => events[i].parent = parent
  /\ Count(parent, "newest", sort, size, IF Stored(i) THEN i ELSE 0)

FocusedPage ==
  LET found == Found(query.parent) IN
  /\ query.mode = "counted"
  /\ query' = [query EXCEPT
       !.mode = "focused",
       !.known = Ids(found),
       !.hits = Ids(Page(found, query.sort, query.size, query.page)),
       !.late = \E new \in Ids(found) \ query.known :
                  Before(query.sort, new, query.target)]
  /\ UNCHANGED eventVars

-----------------------------------------------------------------------------

Init == EventsInit /\ query = Idle

\* The calls that read, as the resource makes them of what clients send.
Read(id) ==
  \E size \in PageSizes :
    \/ \E parent \in {0} \cup DOMAIN events, sort \in Sorts :
         StartWalk(id, parent, sort, size)
    \/ \E i \in DOMAIN events : FocusedList(id, i, size)
    \/ \E parent, i \in DOMAIN events, sort \in Sorts :
         FocusedReplyList(id, parent, i, sort, size)

Next ==
  \/ Change /\ UNCHANGED query
  \/ \E id \in Identities : Read(id)
  \/ NextPage
  \/ FocusedPage

Spec == Init /\ [][Next]_vars

-----------------------------------------------------------------------------
(* Properties. *)

\* A client that reads a list to its last page has seen everything that was to
\* be found when it began, whatever is written, deleted and indexed meanwhile
\* and in whatever order: a list only grows (RequestEventsService.delete turns
\* a comment into a log event and leaves it in its place).
WalkSkipsNothing == query.mode = "walked" => query.first \subseteq query.seen

\* If nothing came in ahead of what was there, it has seen all that is to be
\* found at the end, each event once: no event has two documents.
WalkIsExact ==
  query.mode = "walked" /\ ~query.late =>
    query.seen = query.known /\ query.hits = Cardinality(query.known)

\* A focused list, in the order of its default, holds the event it is focused
\* on once the index shows it, unless events came in before it between the
\* count and the page; and even then it is not past the end of the list.
Focused ==
  query.target \in query.known =>
    /\ query.hits # {}
    /\ ~query.late => query.target \in query.hits

DefaultSort(parent) == IF parent = 0 THEN "oldest" ELSE "newest"

FocusShown ==
  query.mode = "focused" /\ query.sort = DefaultSort(query.parent) => Focused

\* The preview of an event in the timeline agrees with the list of its replies:
\* as many, and the newest of them the same (two queries of different kinds, a
\* join on the shard and a filter on all of them).
PreviewAgrees ==
  \A d \in Found(0) :
    /\ ChildrenCount(d) = Cardinality(Found(d.id))
    /\ Preview(d) = Page(Found(d.id), "newest", PreviewSize, 1)

=============================================================================
