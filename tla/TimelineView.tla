---------------------------- MODULE TimelineView ----------------------------
(***************************************************************************)
(* The timeline of a request in the browser: the pages it has loaded of a  *)
(* list that others add to, and the calls it has on the way.               *)
(*                                                                         *)
(* The first and the last page are loaded, and the page of an event that   *)
(* the address names.  An interval asks for the last loaded page again;    *)
(* buttons in the gaps between pages load the others.  A comment of the    *)
(* user's own is put on the last page as soon as it is created, before     *)
(* searches find it.  Callbacks run one at a time and interleave only      *)
(* where they wait for the service.                                        *)
(*                                                                         *)
(* Events are numbered in the order of their creation.  What an edit       *)
(* changes of a comment is left out; what it does to the interval is not.  *)
(***************************************************************************)
EXTENDS Naturals, Sequences, FiniteSets, SequencesExt

CONSTANTS
  Size,       \* events of a page
  Preloaded,  \* bound: how many events there are when the page is opened
  MaxPosts,   \* bound: how many are added while it is open
  Slots,      \* bound: numbers of the calls for pages that may be on the way
  MaxFaults   \* bound: how many calls fail

ASSUME ViewAssumption ==
  /\ Size \in Nat \ {0}
  /\ Preloaded \subseteq Nat
  /\ MaxPosts \in Nat
  /\ Slots \subseteq Nat /\ MaxFaults \in Nat

VARIABLES
  \* the service
  opened,   \* the number of events when the page was opened
  posted,   \* the number of events
  found,    \* those that searches find
  faults,   \* history: the calls that failed
  \* the state of the timeline in the store
  hits,     \* hits[p]: the events of page p, for the pages that are loaded
  pageNumbers, totalHits, initialLoading, lastPageRefreshing, submitting, error,
  \* the rest of the browser
  timer,    \* whether the interval is set
  initial,  \* what the first load has got so far
  gets,     \* gets[s]: a call for a page
  submit,   \* the call that adds a comment
  edited    \* history: a comment has been edited or deleted

store == <<hits, pageNumbers, totalHits, initialLoading, lastPageRefreshing,
           submitting, error>>
service == <<opened, posted, found, faults>>
vars == <<service, store, timer, initial, gets, submit, edited>>

Events == 1 .. Max(Preloaded) + MaxPosts
Free == [phase |-> "none"]

TypeOK ==
  /\ opened \in Preloaded /\ posted \in opened .. opened + MaxPosts /\ found \subseteq 1 .. posted
  /\ faults \in 0 .. MaxFaults
  /\ \A p \in DOMAIN hits : p \in Nat \ {0} /\ Range(hits[p]) \subseteq 1 .. posted
  /\ Range(pageNumbers) = DOMAIN hits /\ IsInjective(pageNumbers)
  /\ totalHits \in 0 .. posted
  /\ {initialLoading, lastPageRefreshing, submitting, error, timer, edited} \subseteq BOOLEAN
  /\ initial.phase \in {"first", "last", "focus", "none"}
  /\ \A s \in Slots : gets[s].phase \in {"none", "asked", "answered", "failed"}
  /\ submit.phase \in {"none", "asked", "answered", "failed"}

-----------------------------------------------------------------------------
(* The list as the service pages it, oldest first. *)

Place(e) == Cardinality({d \in found : d <= e})
CeilDiv(n) == (n + Size - 1) \div Size
PageNumberOf(e) == CeilDiv(Place(e))

Answer(page) ==
  LET first == (page - 1) * Size
      count == Min({Size, IF Cardinality(found) > first
                          THEN Cardinality(found) - first ELSE 0})
  IN [k \in 1 .. count |-> CHOOSE e \in found : Place(e) = first + k]

-----------------------------------------------------------------------------
(* The reducer. *)

WithPage(pages, page, events) ==
  [p \in DOMAIN pages \cup {page} |-> IF p = page THEN events ELSE pages[p]]

\* The elements of S, each after all that are before it.
Ordered(S, before(_, _)) ==
  [k \in 1 .. Cardinality(S) |->
     CHOOSE p \in S : Cardinality({q \in S : before(q, p)}) = k - 1]

Sorted(numbers) == Ordered(numbers, LAMBDA p, q : p < q)

\* toSorted() with no comparison: as strings.
Digits(n) == IF n < 10 THEN <<n>> ELSE <<n \div 10, n % 10>>
BeforeAsString(p, q) ==
  \/ Digits(p)[1] < Digits(q)[1]
  \/ Digits(p)[1] = Digits(q)[1] /\ p < q
SortedAsStrings(numbers) == Ordered(numbers, BeforeAsString)

\* Mutant of SetPage: a page that is loaded is listed again.
SetPageAgain(page, events) ==
  /\ hits' = WithPage(hits, page, events)
  /\ pageNumbers' = SortSeq(Append(pageNumbers, page), <)

\* SET_PAGE: the page goes to a Set of the numbers.
SetPage(page, events) ==
  /\ hits' = WithPage(hits, page, events)
  /\ pageNumbers' = Sorted(Range(pageNumbers) \cup {page})

\* APPEND_TO_LAST_PAGE
AppendToLastOrNewPage(e) ==
  LET last == Max(Range(pageNumbers)) IN
  IF Len(hits[last]) >= Size
  THEN /\ hits' = WithPage(hits, last + 1, <<e>>)
       /\ pageNumbers' = SortedAsStrings(Range(pageNumbers) \cup {last + 1})
  ELSE /\ hits' = [hits EXCEPT ![last] = Append(@, e)]
       /\ UNCHANGED pageNumbers

-----------------------------------------------------------------------------
(* The first load: getTimelineWithRefresh, fetchTimeline. *)

\* What it got is dispatched at its end, the last page over the page of the event
\* that the address names; then the interval is set.
Loaded(got) ==
  /\ hits' = got.pages
  /\ pageNumbers' = Sorted(DOMAIN got.pages)
  /\ totalHits' = got.total
  /\ initialLoading' = FALSE
  /\ timer' = TRUE
  /\ initial' = Free
  /\ UNCHANGED <<service, lastPageRefreshing, submitting, error, gets, submit, edited>>

Proceed(got) ==
  /\ initial' = got
  /\ UNCHANGED <<service, store, timer, gets, submit, edited>>

\* The event is looked for in the pages that are there already.
Sought(got) ==
  got.focus # 0 /\ got.focus \notin UNION {Range(got.pages[p]) : p \in DOMAIN got.pages}

FetchFirst ==
  /\ initial.phase = "first"
  /\ LET got == [initial EXCEPT !.pages = WithPage(<<>>, 1, Answer(1)), !.total = Cardinality(found)] IN
     IF CeilDiv(got.total) > 1 THEN Proceed([got EXCEPT !.phase = "last"])
     ELSE IF Sought(got) THEN Proceed([got EXCEPT !.phase = "focus"])
     ELSE Loaded(got)

FetchLast ==
  /\ initial.phase = "last"
  /\ LET last == CeilDiv(initial.total)
         got  == [initial EXCEPT !.pages = WithPage(@, last, Answer(last))] IN
     IF Sought(got) THEN Proceed([got EXCEPT !.phase = "focus"]) ELSE Loaded(got)

FetchFocused ==
  /\ initial.phase = "focus"
  /\ LET page == PageNumberOf(initial.focus) IN
     Loaded([initial EXCEPT !.pages = IF page \in DOMAIN @ \ {1} THEN @
                                      ELSE WithPage(@, page, Answer(page))])

\* Nothing is dispatched but the error, which is shown in place of the timeline.
FailFirstLoad ==
  /\ initialLoading
  /\ faults < MaxFaults
  /\ faults' = faults + 1
  /\ error' = TRUE /\ initialLoading' = FALSE /\ timer' = TRUE
  /\ initial' = Free
  /\ UNCHANGED <<opened, posted, found, hits, pageNumbers, totalHits, lastPageRefreshing,
                 submitting, gets, submit, edited>>

-----------------------------------------------------------------------------
(* Pages: fetchTimelinePage, from the interval or from a button. *)

AskPage(for, page) ==
  LET free == {s \in Slots : gets[s] = Free} IN
  /\ free # {}
  /\ LET s == Min(free) IN
     gets' = [gets EXCEPT ![s] = [phase |-> "asked", for |-> for, page |-> page]]

\* Mutant of MayRefresh: a refresh does not wait for the one before it.
MayRefreshAgain == ~initialLoading /\ ~submitting /\ hits # <<>>

\* concurrentRequests.  With no page there is an error, and what the call gets
\* for it is not shown.
MayRefresh == ~initialLoading /\ ~lastPageRefreshing /\ ~submitting /\ hits # <<>>

\* timelineReload
Tick ==
  /\ timer
  /\ timer' = ~error
  /\ IF MayRefresh
     THEN /\ AskPage("refresh", Last(pageNumbers))
          /\ lastPageRefreshing' = TRUE
     ELSE UNCHANGED <<gets, lastPageRefreshing>>
  /\ UNCHANGED <<service, hits, pageNumbers, totalHits, initialLoading, submitting,
                 error, initial, submit, edited>>

Shown == ~initialLoading /\ ~error /\ totalHits > 0

\* Mutant of Buttons: a gap of one page is taken for none.
ButtonsOfWideGaps ==
  {pageNumbers[i] - 1 : i \in {j \in DOMAIN pageNumbers :
     IF j = 1 THEN pageNumbers[j] > 1 ELSE pageNumbers[j] > pageNumbers[j - 1] + 2}}

\* TimelineFeedElements: a button above a page loads the page before it.
Buttons ==
  {pageNumbers[i] - 1 : i \in {j \in DOMAIN pageNumbers :
     IF j = 1 THEN pageNumbers[j] > 1 ELSE pageNumbers[j] > pageNumbers[j - 1] + 1}}

\* A button that loads is disabled.
LoadMore(page) ==
  /\ Shown /\ page \in Buttons
  /\ \A s \in Slots : gets[s].phase # "none" => gets[s].for # "more" \/ gets[s].page # page
  /\ AskPage("more", page)
  /\ UNCHANGED <<service, store, timer, initial, submit, edited>>

\* The service answers, or the call fails on its way.
AnswerPage(s) ==
  /\ gets[s].phase = "asked"
  /\ gets' = [gets EXCEPT ![s] = [phase |-> "answered", for |-> @.for, page |-> @.page,
                                  hits |-> Answer(@.page)]]
  /\ UNCHANGED <<service, store, timer, initial, submit, edited>>

LosePage(s) ==
  /\ gets[s].phase = "asked"
  /\ faults < MaxFaults
  /\ faults' = faults + 1
  /\ gets' = [gets EXCEPT ![s].phase = "failed"]
  /\ UNCHANGED <<opened, posted, found, store, timer, initial, submit, edited>>

\* The callback of a call: whatever came in between, its page is what it got.
Receive(s) ==
  /\ gets[s].phase \in {"answered", "failed"}
  /\ IF gets[s].phase = "answered"
     THEN SetPage(gets[s].page, gets[s].hits) /\ UNCHANGED error
     ELSE error' = TRUE /\ UNCHANGED <<hits, pageNumbers>>
  /\ lastPageRefreshing' = (gets[s].for = "more" /\ lastPageRefreshing)
  /\ gets' = [gets EXCEPT ![s] = Free]
  /\ UNCHANGED <<service, totalHits, initialLoading, submitting, timer, initial,
                 submit, edited>>

-----------------------------------------------------------------------------
(* The user's own comments. *)

\* submitComment
Submit ==
  /\ ~initialLoading /\ ~error /\ ~submitting
  /\ timer' = FALSE /\ submitting' = TRUE
  /\ submit' = [phase |-> "asked"]
  /\ UNCHANGED <<service, hits, pageNumbers, totalHits, initialLoading,
                 lastPageRefreshing, error, initial, gets, edited>>

AnswerSubmit ==
  /\ submit.phase = "asked"
  /\ posted < opened + MaxPosts
  /\ posted' = posted + 1
  /\ submit' = [phase |-> "answered", event |-> posted + 1]
  /\ UNCHANGED <<opened, found, faults, store, timer, initial, gets, edited>>

LoseSubmit ==
  /\ submit.phase = "asked"
  /\ faults < MaxFaults \/ posted = opened + MaxPosts
  /\ faults' = IF faults < MaxFaults THEN faults + 1 ELSE faults
  /\ submit' = [phase |-> "failed"]
  /\ UNCHANGED <<opened, posted, found, store, timer, initial, gets, edited>>

Submitted ==
  /\ submit.phase = "answered"
  /\ AppendToLastOrNewPage(submit.event)
  /\ totalHits' = totalHits + 1
  /\ submitting' = FALSE /\ timer' = TRUE
  /\ submit' = Free
  /\ UNCHANGED <<service, initialLoading, lastPageRefreshing, error, initial, gets, edited>>

\* Mutant of NotSubmitted: the failure leaves the submission under way.
NotSubmittedYet ==
  /\ submit.phase = "failed"
  /\ timer' = TRUE
  /\ submit' = Free
  /\ UNCHANGED <<service, store, initial, gets, edited>>

\* HAS_SUBMISSION_ERROR
NotSubmitted ==
  /\ submit.phase = "failed"
  /\ submitting' = FALSE /\ timer' = TRUE
  /\ submit' = Free
  /\ UNCHANGED <<service, hits, pageNumbers, totalHits, initialLoading,
                 lastPageRefreshing, error, initial, gets, edited>>

\* updateComment, deleteComment: the interval ends.  For a comment SET_REFRESHING
\* without a value leaves none; a reply's loading event is one of its own store.
EditComment ==
  /\ Shown /\ hits # <<>>
  /\ timer' = FALSE
  /\ lastPageRefreshing' \in {FALSE, lastPageRefreshing}
  /\ edited' = TRUE
  /\ UNCHANGED <<service, hits, pageNumbers, totalHits, initialLoading, submitting,
                 error, initial, gets, submit>>

-----------------------------------------------------------------------------
(* Others, and the index. *)

Post ==
  /\ posted < opened + MaxPosts
  /\ posted' = posted + 1
  /\ UNCHANGED <<opened, found, faults, store, timer, initial, gets, submit, edited>>

Find(e) ==
  /\ e \in 1 .. posted \ found
  /\ found' = found \cup {e}
  /\ UNCHANGED <<opened, posted, faults, store, timer, initial, gets, submit, edited>>

Init ==
  /\ opened \in Preloaded /\ posted = opened /\ found = 1 .. posted /\ faults = 0
  /\ hits = <<>> /\ pageNumbers = <<>> /\ totalHits = 0
  /\ initialLoading = TRUE
  /\ lastPageRefreshing = FALSE /\ submitting = FALSE /\ error = FALSE
  /\ timer = FALSE
  /\ \E focus \in {0} \cup 1 .. posted :
       initial = [phase |-> "first", focus |-> focus, pages |-> <<>>, total |-> 0]
  /\ gets = [s \in Slots |-> Free]
  /\ submit = Free
  /\ edited = FALSE

FirstLoad == FetchFirst \/ FetchLast \/ FetchFocused \/ FailFirstLoad

Next ==
  \/ FirstLoad \/ Tick
  \/ \E page \in Buttons : LoadMore(page)
  \/ \E s \in Slots : AnswerPage(s) \/ LosePage(s) \/ Receive(s)
  \/ Submit \/ AnswerSubmit \/ LoseSubmit \/ Submitted \/ NotSubmitted
  \/ EditComment
  \/ Post \/ \E e \in Events : Find(e)

\* setInterval fires as long as it is set; a call is answered or fails, and its
\* callback runs.  Nothing makes users act or the index refresh.
Fairness ==
  /\ WF_vars(FirstLoad) /\ WF_vars(Tick)
  /\ \A s \in Slots : WF_vars(AnswerPage(s) \/ LosePage(s)) /\ WF_vars(Receive(s))
  /\ WF_vars(AnswerSubmit \/ LoseSubmit) /\ WF_vars(Submitted \/ NotSubmitted)

Spec == Init /\ [][Next]_vars /\ Fairness

-----------------------------------------------------------------------------
(* Properties. *)

\* Refreshes of the last page do not overtake each other, until an edit takes the
\* flag from under the one on its way (timelineReload, SET_REFRESHING).
OneRefresh ==
  edited \/ Cardinality({s \in Slots : gets[s].phase # "none" /\ gets[s].for = "refresh"}) <= 1

\* No page has two digits.
OneDigit == \A page \in DOMAIN hits : page < 10

\* Every page below the last loaded one is loaded or lies in a gap that has a
\* button, which loads the gap from its lower end upwards; whatever the event of
\* the address, own comments that open pages, and answers out of order
\* (TimelineFeedElements).  Only while page numbers have one digit: the tenth page
\* is sorted as a string, before the second, if an own comment opens it.
GapsOffered ==
  OneDigit =>
    \A page \in 1 .. Max(DOMAIN hits \cup {1}) \ DOMAIN hits :
      hits # <<>> => \E b \in Buttons : page <= b /\ page .. b \cap DOMAIN hits = {}

\* The interval is set, and e belongs on the page that it asks for.
OnLastPage(e) ==
  /\ timer /\ totalHits > 0 /\ e \in found
  /\ PageNumberOf(e) = Last(pageNumbers)

\* While the interval stays set, what searches find on the last loaded page comes
\* to be shown for good: no call that fails, is overtaken or answers late leaves
\* the timeline waiting.  Events past that page, and any event while none is
\* counted, are not fetched or not shown.
NewEventsShown ==
  \A e \in Events :
    <>[]OnLastPage(e) => <>[](hits # <<>> /\ e \in Range(hits[Last(pageNumbers)]))

=============================================================================
