# A verification project for invenio-requests

TLA+ models of invenio-requests (the requests, events and files services of
Invenio, their index, their background jobs and the timeline of their front
end), TLC runs that check them on small instances, and TLAPS proofs of their
safety for every value of the constants. Paths are relative to
`src/invenio_requests/`.

## 1. The system

A *request* (an inclusion, an invitation, a moderation...) is created by one
entity, addressed to a receiver, perhaps looked at by reviewers, and ends by one
of a few actions. People talk about it in a timeline of events.

| Component | State | Operations | Interacts with |
|---|---|---|---|
| Requests service (`services/requests/`) | row of `request_metadata`: status, creator, receiver, reviewers, lock, version | create, read, update, delete, execute_action, lock_request, unlock_request, searches | events service (log events, in the same unit of work), policy, index |
| Actions and request types (`customizations/`) | none: `status_from`, `status_to`, `log_event` of each action | can_execute, execute | events service |
| Permission policy (`services/permissions.py`, `generators.py`) | none: reads request, event, configuration | one list of generators per permission, each as needs and as a query | every service |
| Events service (`services/events/`) | rows of `request_events`: type, author, payload, parent, version | create (comment, reply, log), update, delete (a comment becomes a log event), lists, focused lists, previews | request row (read only), file components, index |
| Files service (`services/files/`) and file components | rows of `request_files`, bucket of the request | create_file, delete_file, read_file | called by clients and by the events service |
| Search index, computed fields (`records/systemfields/computed.py`, dumpers) | one document per request and event, with a revision | index, delete, after commit | fed by units of work; asked by searches, tasks, jobs and user moderation |
| Tasks (`tasks.py`) | none | check_expired_requests, request_moderation | index, requests service |
| User moderation (`services/user_moderation/`) | none of its own | request_moderation | index, requests service |
| Request numbers (`records/models.py`) | a table of numbers and its sequence | next, max, insert, recovery | record creation |
| Entity references, resolvers, type and status fields | none | look up, check | records |
| Notifications (`notifications/`) | none | recipients of an event, found by a job | index, events, users, groups |
| REST resources, UI views | none | parse, call one service method | services |
| Front end: timeline, replies, editor, actions, search page (`assets/`) | redux stores, local storage, an interval timer | fetch pages, refresh, submit, edit, delete, draft | REST API |

**What is hard.** Every call is a unit of work: it reads rows, decides on what
it read, and commits later, while other processes do the same. Only rows that
are written are protected, by the version column that the commit compares; a
comment writes no request row and is compared with nothing. Index operations run
after the commit, outside any transaction, and may be lost or arrive in another
order. Tasks, jobs and the moderation service decide on the index; lists are
read from it page by page, and by a count followed by a page. The policy exists
twice, as needs and as queries. A file belongs to a request in the database and
to a comment only through a list in its payload. Numbers come from a sequence
that no rollback takes back and that a retry moves under the feet of others.
The front end keeps pages of a timeline that moves under it, with an interval,
buttons and submissions on the way at once. The places are listed as hazards in
`PROJECT.json`, each at its line.

**What makes each component correct.**

* Requests service: the status follows the action classes; a request is decided
  at most once, by someone entitled to, and its timeline says so; the receiver
  does not change once submitted; the log tells exactly the changes of the lock
  and the reviewers; the lock is respected.
* Events and files: lists and attached files agree; what was deleted stays
  deleted; a lock holds; replies are one level deep.
* Lists of events: a reader who follows the pages misses nothing; the page of an
  event holds it; previews agree with lists.
* Index: it never refuses what is newer; it heals; when nothing is left to run
  it shows the database.
* Searches: a request is found by those who may read it, in one list of theirs;
  what a list or an answer offers is admitted.
* Creation: numbers are distinct, and one retry is enough for a creation alone;
  one open moderation request per user.
* Tasks: every expired request is expired in the end, none after it was decided.
* Notifications: participants are told, and nobody of what they wrote.
* Front end: refreshes do not overtake each other, every gap between the pages
  can be opened, and what belongs on the last page comes to be shown.

## 2. Modules

| Module | Models |
|---|---|
| `PermissionPolicy` | `services/permissions.py` and the generators: each `Can...` operator is the set of identities the list of that name admits. A need is the set of users that provide it; `Granted` adds the superusers; `CanActionExpire` does not (`SystemProcessWithoutSuperUser`). |
| `RequestLifecycle` | The abstract specification: one status per request, moving along the transitions of the action classes. |
| `RequestsService` | The service: `row`, `timeline` and one open unit of work per worker, `tx`. Implements `RequestLifecycle`. |
| `RequestComments` | Comments, replies and files of one submitted request: `request`, `attached`, `uploaded`, `events`, `tx`, `habits`. |
| `SearchIndex` | One request, its row, its comments and its document: `row`, `comments`, `doc`, and the work of each worker before and after its commit. |
| `RequestEvents` | The events of one submitted request by creation time, in the database and in the index: `request`, `events`, `index`. |
| `EventTimeline` | Extends it with the lists a client reads: `query`. |
| `EventNotifications` | Extends it with the job that tells of a comment: `job`. |
| `RequestSearch` | The row of a request, its document, the topic's sharing, groups and the configuration; the policy as needs and as queries. |
| `RequestCreation` | Overlapping creations with the sequence of numbers, and the tasks of user moderation. |
| `RequestExpiry` | The periodic task among users' calls. Implements `RequestLifecycle`, with fairness. |
| `TimelineView` | The timeline of the front end: its store, interval, buttons and calls on the way, above a list that grows. |
| `MC...` | Instances for TLC. |
| `...Proofs` | The TLAPS proofs about the module of that name (section 5); `RequestEventsProofs` about `RequestEvents` and the two modules that extend it. |

`RequestsService`, `RequestComments` and `RequestEvents` extend
`PermissionPolicy`. `RequestsService` and `RequestExpiry` are both shown to
implement `RequestLifecycle`: the one in full for a single row, with its policy
and log, the other for the task and what users do to the status.

### How state and actions correspond to the code

*Units of work.* A service method decorated with `@unit_of_work()` is an action
that reads, checks every permission and guard in the order of the code, and
records in `tx[w]` what its commit will write (`Begin`). `Commit` is the database
commit: rows that are written need the version that was read (`version_id_col`
of the row models), all of them or nothing. `Rollback` is a stale version, any
later error and the end of the process before the commit. A call that the code
refuses changes nothing and is no step; every `raise` is a conjunct of a guard.

*RequestsService.*
`Update` and `UpdateReviewers` are `update` without and with reviewers in the
data. Both apply `WithData`, the data component: it copies the keys of a draft
only while the row it read is a draft, and always copies `is_locked`, which
loads as `False` when absent. `MaySetReviewers` and `ReviewersLog` are the
reviewers component, which looks at the row the data component has edited for
`action_accept`, and at the row still in the database to create its event.
`SetLock` is `lock_request`/`unlock_request`: the whole update with the request's
own data, so it also asks for `update`, and for `action_accept` when the row
holds a list of reviewers. So an administrator cannot lock a request with
reviewers, and a receiver cannot unlock a closed one. `ExecuteAction` is
`execute_action` with the log event and the comment sent along; the log event is
created by the events service and asks for `read`. `Delete` runs the delete action and
soft-deletes the row (`removed`); a soft-deleted row shows as `deleted`. `Create`
is one step, since nobody knows the row before its commit; it also stands for
types whose create action submits at once.

*RequestComments.* `Create`, `Update` and `Delete` are the methods of the events
service with the two file components, `CreateFile` and `DeleteFile` those of the
files service. `WritesRequest` holds for a commit that adds or deletes files, the
only ones that commit the request row. `SetLock` stands for the commit of
`lock_request` (modelled in full in `RequestsService`) and adds its log event.
What clients do is chosen once, in `habits`: whether they ever list a file in two
comments (two windows restore one draft from local storage), edit with no
`files` key, or delete a listed file.

*SearchIndex.* After `Commit` the row is expired and loaded again (`Load`) at
the first access; each registered operation dumps its own copy of the record
(`Dump`: the fields as it read or wrote them, the last reply as of now) and sends
it (`Send`), with the revision that was loaded. The index takes equal and higher
revisions (`external_gte`) and raises otherwise (`Conflict`), which ends the
operations that are left; so does `Crash`. `status` stands for every field of
the record, the four closing statuses are one. This after-commit mechanism is
code of `invenio-records-resources` and `invenio-indexer`: it is modelled from
how `src/` uses it and marked external.

*RequestEvents.* An event gets its creation time when its row is inserted
(`Comment`, `Reply`, `Log`), is there for others after `Commit`, and found after
`Refresh`, which may come in any order or never. `Delete` leaves the event at its
place as a log event. A document is indexed on the shard of its routing: a reply
on that of its parent (`Routing`). `Offers...` are what the schema and the links
say may be done with an event, beside `May...`, what the service admits.

*EventTimeline.* `StartWalk` and `NextPage` follow the links of `search` and
`get_comment_replies` from page to page, on an index that may change between
them. `FocusedList` and `FocusedReplyList` are the first query of `focused_list`
and `focused_reply_list`, which counts what comes before the event, and
`FocusedPage` the second, for the page that makes. `Preview` is the join of the
newest replies to an event in the timeline. A page is the set of the hits in its
places of the list (`Place`, how many hits come before): the order on a page is
that of the whole list, and is not needed a second time.

*EventNotifications.* `StartJob` follows a job that was sent for an event;
`RunJob` collects the recipients in the index as it is then, any time later and
possibly again. Its specification is `JobSpec`, its parts are named `Job...`, so
that one module of proofs can extend it beside `EventTimeline`.

*RequestSearch.* `NeedsToRead` is `can_read` by `needs`, on the row; `Finds` is
`can_read` by `query_filter`, on the tokens that `DumpOf` put in the document
when it was indexed last. `Listed` are the two lists of the user's requests, own
and shared, as `SharedOrMyRequestsParam` filters them. `Write` is any call that
changes the row, `Index` its index operation; `Share`, `Members` and
`Reconfigure` are what changes without an operation on the request. One request
is enough, since a query looks at one document at a time.

*RequestCreation.* `SequenceMixin.next` is `Draw` (the database draws a value),
`Insert` (refused for a value in the table, waiting for one another transaction
has inserted), `Look` (`max` as the transaction sees it), `SetSequence`
(`setval`, at once and for all) and one more draw; its second failure is not
caught (`failed`). `BeginModeration` is `request_moderation`, which asks the
index. `Migrate` writes numbers past the sequence, `InsertValue` is
`SequenceMixin.insert`.

*RequestExpiry.* Every process, of users' calls (`Callers`) or of the task
(`Tasks`), has a unit of work: `Begin` reads the request, `Commit` writes the row if
nobody else has (`VersionMatches`), `Rollback` ends it, and then the index is told
as in `SearchIndex`, of which this is what `is_open` needs: `Load` gets the revision
of the row as it is now, `Send` sends the `is_open` of the next of the call's own
copies, `Conflict` is the refusal of a lower revision. `ActionOps` are the copies an
action registers, in their order: that of its log event was read before the new
status is in the row. `WriteCall` begins any call of a user that writes the row,
`Comment` one that writes, edits or deletes a comment, which only indexes its copy
of the request; `Create` needs nothing read before. `Start` is the search of the
task, `Expire` begins `execute_action` for one request or fails at once; any error
is logged and the task goes on (`GoOn`). `Fail` is an error out of the blue, `Kill`
the end of a task's process. `lone` is a history variable: whether the last unit of
work to end on a request was alone on it.

*TimelineView.* The first load is up to three answers (`FetchFirst`, `FetchLast`,
`FetchFocused`) shown at once by `Loaded`. `Tick` is the interval, which asks for the
last loaded page; `LoadMore` a button in a gap. Calls for pages wait in `gets`:
`AnswerPage` takes the page as the service has it then, `Receive` is the
callback. `Submit` ... `NotSubmitted` are a comment of the user's own, put on the
last page before searches find it. `EditComment` is what an edit or a deletion
does to the interval and the flag; that of a reply, whose events go to the store of
its replies, leaves the flag.

## 3. Runs

| Run | Shows |
|---|---|
| `requests_service` | Two overlapping calls on one request by creator, receiver, a superuser and the system, with a draft that may change receiver and with the lock: one outcome, by someone entitled, on a settled receiver, logged; and the service implements `RequestLifecycle`. |
| `reviewers` | Updates that edit receiver, lock and reviewers at once: a change of reviewers is logged, and a lock holds it back. |
| `search_index` | With crashes and conflicts, the index accepts what comes next, and one call that nothing overlaps heals it. |
| `comment_files` | For clients with all habits and with none: a lock holds files back even from calls already open, a deleted comment is not revived, and what clients with none of the habits list stays attached. |
| `timeline` | Nothing is skipped by a client that walks the pages, the event asked for is on its page, previews agree with lists; while events are written, deleted and indexed in any order. |
| `notifications` | Whom a job tells, whenever it runs; and that what an answer offers on an event is admitted. |
| `request_search` | The query form of the policy finds what its need form lets read; the lists of a user split it without loss; offered actions hold. |
| `request_creation` | Three overlapping creations with numbers migrated past the sequence: distinct numbers, one retry enough for a creation alone, one open moderation request per user. |
| `request_expiry` | Two overlapping runs of the task on two requests, a user's calls and comments, and a fault, each sending its own copies to the index: what is overdue and in sight of the index expires in the end, a call that nothing overlaps puts the searches right, and the whole implements `RequestLifecycle`. |
| `timeline_view` | Two calls for pages on the way, own comments, edits, the event of the address and a failure: one refresh at a time, a button for every gap, and what the last page has is shown in the end. |

Runs that find the code departing from what the repository says:

| Run | What happens |
|---|---|
| `only_lockers` | The creator updates a locked request, with no `is_locked` in the data: the request is unlocked, with no permission to and no log entry. |
| `edit_without_files` | An edit with no `files` deletes the files of the comment and leaves its list; deleting the comment then fails. |

`CHECK_DEADLOCK FALSE` is set where a bounded model stops at its bounds or the
system has no more to do (a decided request); `request_search` and
`request_expiry` go on for ever and are checked for deadlock.

### Bounds

* `MaxRevision` bounds the version a call may start from, `MaxEvents` the length
  of the timeline it may start from, `MaxEdits` the version of an event,
  `MaxComments` the comments ever started. They are guards of the start of a
  call, never of its commit, so that calls already open always end.
* Two workers: every property of the services relates one commit to what one
  other open call read; a third worker adds no new pair. Workers and files are
  symmetric where no liveness is checked.
* Three versions of a request cover a draft edited, submitted and decided, with a
  stale call left over from each; in `comment_files`, a file attached, listed and
  dropped while another edit is open. `search_index` has four.
* Two timeline entries to start from leave room for an outcome beside a lock
  entry and a comment; a third appears while two calls are open.
* `timeline` and `notifications` have three events, pages of one and two, and
  previews of one: a parent with two replies, a list of more than a page, an
  event that opens and one that ends a page, and a thread that an outsider is no
  part of. That pages of other sizes and longer lists behave the same is proved.
* `request_search` has two users, a group and a community, each of which may be
  any party the code lets it be; every row, document, sharing and membership of
  theirs is reached.
* `request_creation` has three workers and numbers up to three: one creation
  moves the sequence back over the value a second one has inserted while a third
  draws it again.
* `request_expiry` has two requests, so that one may keep failing before the
  other, one process for users' calls, two for the task, and one fault: a comment
  overlaps two expiries, and a decision both of them. Users write one of the
  requests after its creation, up to version two, and comment on both; a task's
  expiry comes on top.
* `timeline_view` opens with no, one or five events on pages of two: an empty
  page, a page with room, and three pages with a gap and the event of the address in
  it. Two more events make a full last page and a new one. `GapsOffered` speaks of
  page numbers of one digit: the run stays below, what is beyond is in section 4.
* One request, where there is one: calls on different requests share nothing in
  these modules.

The proofs of section 5 hold for any number of each of them.

### Fairness

Only two specifications have fairness.

`RequestExpiry`: the beat starts the task again and again and a process that
runs goes on (weak fairness of `Run`), and a call that has committed goes on to
its index operations (`Index` of callers). Deaths and errors out of the blue are bounded:
nothing expires if every run dies. Users are not fair, and they may edit a
request under the task's hands, as often as `MaxRevision` lets them: the next
run finds it again.

`TimelineView`: `setInterval` fires as long as it is set (`Tick`), a call over
HTTP is answered or fails, and its callback runs. Users, other people's posts
and the refresh of the index are not fair.

## 4. Properties, and what the code does besides

Each property of a passing run has a mutant in `PROJECT.json`: a changed
definition, such as a commit without its version test, that TLC must find
violating the property. The mutants stand beside the definitions they change, and
nothing else uses them.

Some properties say less than a reader may hope for, because the code does less.
No passing property forbids the following; the models show or follow it.

* *Locks.* A comment that read the request before the lock commits after it;
  what a lock does hold back from open calls are files and reviewers
  (`LockHoldsFiles`, `LockHoldsReviewers`).
* *Index.* Two calls may dump in one order and send in the other, with one
  revision: the old last reply stays until the next call that nothing overlaps
  (`LoneWorkRefreshes`). An old status comes back the same way: a comment that read
  a request before it was accepted, and sends its copy last, shows it as open again;
  one that read a draft hides it after its submission. A comment that overlapped a deletion puts the request
  back into the index, where it stays, since a deleted request gets no more calls.
* *Files.* A file deleted between the check of a comment's list and the commit is
  listed by it; `ReferencesExist` is about clients that do not delete listed
  files.
* *Replies.* A log event gets a reply when a client asks for it. With a sort of
  the client's own, a reply asked for may be on another page than the one that is
  answered (`FocusShown` is about the default sort). The links from page to page
  of replies, newest first, repeat what new replies push back.
* *Searches.* Requests to a group or a community are in neither list of their
  members. A change of the topic's own access indexes no request (`TopicStale`).
* *Moderation.* Two tasks that overlap for one user, or a task after one that
  died before it indexed, create two requests (`raced`).
* *Expiry.* A request whose index operation was lost, or that the old copy of an
  overlapping comment hides, is out of the task's sight until a later call indexes
  it (`InSight`); a closed one that such a copy shows as open is found for nothing
  by every run. Nobody has to die for that: without the premise `lone` TLC refutes
  the first part of `SearchesRight` with a comment that overlaps an expiry and no
  fault.
* *Notifications.* A process that dies after its commit, or whose index operation
  is refused, sends no job, and nothing sends it later.
* *Front end.* An edit or a deletion clears the interval, and nothing sets it
  again before a comment is submitted. An error is shown in place of the
  timeline for good. Events past a full last page are not asked for. With a
  total of 0 nothing is shown. A refresh takes an own comment off the page until
  searches find it. `NewEventsShown`, `OneRefresh` and their
  comments say where these are left out.
* *Page 10.* An own comment that opens a page sorts the page numbers with
  `toSorted()`, as strings (`timelineParent/state/reducer.js:82`; the other place,
  line 109, sorts numbers). With pages 1 and 9 loaded, a comment that opens page
  10 makes the list 1, 10, 9: the comment is shown above page 9, and the gap from
  2 to 8 has one button, which asks for page 9. The next answer to a refresh or a
  button sorts the numbers again. `TimelineFeedElements.js:159` says "Check if
  there is a gap in the page numbers, and add a button if there is.": this is why
  `GapsOffered` has the premise `OneDigit`. Without it TLC finds this behaviour
  at once with pages of one event, nine of them, and one more; the inductive
  invariant of the proof fails at the same step.

## 5. Proofs

| Theorem | States | Module |
|---|---|---|
| `TypeCorrect` | `[]TypeOK` | `RequestsServiceProofs` |
| `OutcomeOnce` | `[]OutcomeLoggedOnce` | |
| `OutcomeByEntitled` | `[]DecidedByEntitled` | |
| `OpenWork` | `[]OpenWorkSound` | |
| `ActorsRead` | `[]ActorsCanRead` | |
| `ReceiverIsSettled` | `ReceiverSettled` | |
| `WritesAreCurrent` | `WritesFromCurrentRow` | |
| `Refinement` | the service implements `RequestLifecycle` | |
| `LocksAreLogged` | `LockEntriesFlip` | |
| `ReviewersAreLogged` | `ReviewersChangeLogged` | |
| `LockKeepsReviewers` | `LockHoldsReviewers`, with locking enabled | |
| `TypeCorrect` | `[]TypeOK` | `RequestCommentsProofs` |
| `ListedFilesExist` | `[]ReferencesExist` | |
| `LockKeepsFiles` | `LockHoldsFiles`, with locking enabled | |
| `DeletedForGood` | `DeletedStaysDeleted` | |
| `TypeCorrect` | `[]TypeOK` | `SearchIndexProofs` |
| `DocumentNeverAhead` | `[]NeverAhead` | |
| `LoneWorkHeals` | `[]LoneWorkRefreshes` | |
| `TypeCorrect` | `[]TypeOK` | `RequestSearchProofs` |
| `FoundAsReadable` | `[]FoundIfReadable` | |
| `ListedInOne` | `[]ListedOnce` | |
| `OffersAdmitted` | `[]OffersHold` | |
| `TypeCorrect` | `[]TypeOK` | `RequestCreationProofs` |
| `NumbersAreDistinct` | `[]NumbersDistinct` | |
| `LoneIsNumbered` | `[]LoneCreationNumbered` | |
| `IsModeratedOnce` | `[]ModeratedOnce` | |
| `TypeCorrect` | `[]TypeOK` | `RequestExpiryProofs` |
| `SearchesAreRight` | `[]SearchesRight` | |
| `Refinement` | the task and the users implement `RequestLifecycle` | |
| `TypeCorrect` | `[]TypeOK` | `RequestEventsProofs` |
| `NothingIsSkipped` | `[]WalkSkipsNothing` | |
| `WalksAreExact` | `[]WalkIsExact` | |
| `FocusIsShown` | `[]FocusShown` | |
| `PreviewsAgree` | `[]PreviewAgrees` | |
| `JobTypeCorrect` | `[]JobTypeOK` | |
| `CommentIsTold` | `[]CommentToldToParticipants` | |
| `ReplyIsTold` | `[]ReplyToldToThread` | |
| `OffersAreAdmitted` | `[]OfferedIsAdmitted` | |
| `TypeCorrect` | `[]TypeOK` | `TimelineViewProofs` |
| `RefreshesInTurn` | `[]OneRefresh` | |
| `GapsAreOffered` | `[]GapsOffered` | |

Each rests on the named assumptions of its module alone, for any workers,
requests, users, files and bounds.

*RequestsServiceProofs.* `OutcomeLoggedOnce` and `DecidedByEntitled` speak of
rows and timelines, but a commit writes what its call decided when it read, so
they are not inductive. `IInv` adds `OpenWorkSound`: for each open unit of work,
the version it read is not above the one of the row; if the two are equal, the
row is exactly what it read; and what it will write is a legal step from there
(no outcome and an allowed status, or one outcome, first in its log, by someone
entitled). `RowsCreated` says which rows have been created. One lemma per
operation shows that what it begins is sound. A commit that passes its version
test writes a legal step of the row it replaces; it raises the version, so every
other open unit of work on that row becomes stale and stays sound.
`RowChanges` collects what a step can do to a row; the action properties and the
refinement follow from it. What a call logs of locks and reviewers was decided on
the row it read too: `Decided` says so of each open unit of work, and since a
commit is from the row it read (`WritesFromCurrentRow`), its log is right about
the row it replaces.

*RequestCommentsProofs.* `Sound` is what an open unit of work still knows when
others have committed. Files need `FilesApart` besides, for clients without the
habits: no file is claimed twice, by events or by open units of work, except by
edits of one comment, of which the version of its row lets one commit; so
what a commit lists, no other drops (`WorkBacked`).

*SearchIndexProofs.* `OneAtATime` and `OpenEndsRight` follow a lone unit of work
up to its commit: the last operation it registered dumps the status it leaves.
`IndexEndsRight` follows it after: what it sends is the row and the last reply as
they are, since nobody else has run. `Counted` and `SendsDumps` are what the
revisions and numbers need.

*RequestSearchProofs.* `Mirrors`: while the last write is indexed, the document
holds all that is in the row and nothing of what the topic grants but the tokens
dumped. `Kept`: however old the document, what no call changes any more.

*RequestCreationProofs.* `NumbersDistinct` is nearly inductive. `Moderated` links
an open request that searches do not find to the task that has yet to index it;
`LoneRetry` is what a creation alone knows of the table at each phase of its
retry.

*RequestExpiryProofs.* `OpenRight`: an open unit of work was read at no higher
version than the row has; if it is the one the row has, what it writes is a legal
step of the row, which is what the refinement needs; and the last copy it registered
says what it leaves. `IndexRight`: after its commit, if it is alone on the request,
the last copy it has to send says what the row says. `OneAtATime`: while `lone`
holds, nobody else works on the request; so after the last copy has been sent the
document is right (`Found`). `Told` is about the revision: unless a process died, the
document has the row's, or somebody is still to send it; since no document is ahead
of its row (`DocBehind`), what is to be sent is not refused, and what is refused was
older.

*RequestEventsProofs.* A job is sent at one moment and runs at another, and a
client reads each page at a moment of its own. `Grows` says what every step
between them leaves: events, their authors and parents, and a document of each
event that had one. `IndexRight` ties documents to events, one to each at most,
and says on which shard they lie; `PreviewsAgree` follows from that alone. The
walk is about order. `Rank` is how many of a set of numbers come before one; the
numbers of a list have exactly the ranks from 0 to their count (`Numbering`), so
a page is the hits whose rank is in its range, and the first `n` pages are the
`Firsts`. `WalkRight` says of a client in the middle of a walk that what was
found at the start is still found, and that those of it in the places read so
far have been seen: a rank never falls when documents appear (`RankGrows`), so
what was behind stays behind, and what was not read yet lies on a page to come.
While nothing came in ahead (`late` is false), what has been read is exactly the
`Firsts`, which is `WalkIsExact` at the end. `CountRight` says the same of a
counted page: it is the rank of the event divided by the size.

*TimelineViewProofs.* `FlagHolds`: no refresh is on the way while the flag is
down. Every call that ends, but that of a button, puts the flag down, so it must
have been the last refresh. For the pages, `ViewRight` says what the store, the
first load and the calls hold in every phase: once loaded, page 1 is among the
pages, the page numbers are those of the pages, each once, and every call is for
a page from 1. `Ascending` says that the numbers ascend while they have one digit.
It is what `GapsOffered` needs: the gap of a page ends at the least loaded page
above it, whose neighbour in the list is then below the gap. That sorting yields
an ascending list of the same numbers is proved from the count of smaller
elements, which numbers a finite set without gaps, not by induction over lists.

*Only model-checked:* liveness, `OverdueExpires` and `NewEventsShown`; every
invariant and every action property of a passing run is proved. The two
refinements prove the initial states and the steps of `RequestLifecycle`, which
has no fairness. *Out of reach of the prover:* liveness, `ENABLED`, and induction
over recursive definitions, of which the proved modules have none.

## 6. Plan

Done: the core (`RequestsService`), comments and files, the index, events with
their lists and notifications, searches by permission, creation with numbers
and moderation, expiry, the timeline of the front end; and the proofs above.
What is left, in order of importance:

1. The replies of the front end and the drafts in local storage: pages counted
   from the newest, local additions and deletions, total counts. It is
   `TimelineView` over the other lists of `EventTimeline`.
2. A job lost in a crash, by composing `EventNotifications` with the phases of
   `SearchIndex`.
3. A reply to an event of another request, which belongs to no list of either;
   it needs two requests in `RequestEvents`.
4. Filters of searches by references, and the expansions of results.

## 7. Not modelled

* *Entity references and resolvers, configuration, extension and migrations,
  translations:* they keep no state, look things up or wire parts together. The
  schema of a request type is built once and kept, with the configuration of that
  moment; the models take the configuration as it is while they run, but for
  `Reconfigure` of `RequestSearch`.
* *Request page and search page of the front end:* each handler is one call and
  one assignment of its answer.
* *Replies of the front end, drafts:* see the plan.
* *REST resources and UI views:* they parse a request and call one service
  method; those of events appear as the calls of `EventTimeline`. Links, facets,
  expansions and serialisations are left out, but for what the offers of actions
  and of edits say.
* *Data:* contents of comments and files, sizes and quotas, wording and formats.
  Anonymous identities and guest creators act as the creator and are not told
  apart.

The reasons for each part are in `PROJECT.json`.
