# QuizOnline in TLA+

A verification project for QuizOnline, a Django server (`src/quizonline-server`) and
an Angular client (`src/quizonline-frontend`). It models the parts of the server where
several people, workers or mail links meet on the same rows, and the parts of the
client where tabs, requests and answers cross each other; checks them with TLC on
small instances, and proves the main results with TLAPS for every value of the
constants.

Contents: [inventory](#inventory), [what is hard here](#what-is-hard-here),
[plan](#plan), [modules](#modules), [runs](#runs), [fairness](#fairness),
[proofs](#proofs), [findings](#findings), [observations](#observations),
[limits](#limits).

## Inventory

| Component | State it keeps | Operations | Talks to | Status |
|---|---|---|---|---|
| Join requests (`domain`) | `DomainJoinRequest` rows, `Domain.members` | create, approve, reject (single, bulk, decision link), cancel, auto-approve on opening, nightly sweep | outbox (mails), roles, PATCH | `DomainMembership` |
| Roles, leaving, PATCH (`domain`) | `Domain` row, `members`, `managers` | promote, demote, remove, leave, edit | join requests, transfer | `DomainMembership` |
| Profile form (`customuser`) | `Domain.members`, join requests | reconcile the user's list of domains | join requests | `DomainMembership` |
| Ownership transfer (`domain`) | transfer rows of the audit log, `Domain.owner` | initiate, revoke, accept | PATCH, roles, leaving | `OwnershipTransfer` |
| Outbox (`core`) | `OutboundEmail` rows, Celery tasks | queue, trigger, deliver, retry, purge | every component that mails | `Outbox` |
| Domain invites (`domain`) | `DomainInvite` rows | upsert, resend, revoke, accept by link, auto-accept on activation | members, outbox | planned |
| Quiz sessions (`quiz`) | `Quiz`, `QuizQuestionAnswer`, `QuizQuestion` | start, answer, close, expire, reconcile and score, edit the template | notifications | `QuizSession` (creation planned) |
| Enrollment, progress (`enrollment`) | `Enrollment`, progress rows | enrol, approve, reject, cancel, complete | certificates, invites | planned |
| Course invites (`enrollment`) | `CourseInvite` rows | send, accept, decline, revoke, expire, remind | enrollment, outbox | planned |
| Ordering (`core`, `course`, `lesson`, `block`) | `order` columns, unique per parent | append, reorder, compact | content CRUD | planned |
| Certificates, billing, reviews, assessments | one row per subject, reminder stamps | issue, remind, count, review | enrollment | not modelled |
| Accounts, questions, content, translation, admin, deployment | framework state, text | CRUD, authentication, display | | not modelled |
| Sign-in session of the browser (client) | access token per tab, cookie, hint and legacy token of the browser, tokens at the server | restore, refresh, sign in and out, change of password, storage events | every page | `AuthTabs` |
| Quiz page (client) | selections, saves under way, countdown | select, turn, pad, finish, save, close | quiz sessions | `QuizPlayer` |
| Lesson page (client) | lesson on the screen, note, debounce | visit, type, save the note | lessons, notes | `LessonPage` |
| Block editor (client) | edited, fresh, saved and deleted blocks | add, edit, save, cancel, delete, switch of the lesson | blocks | `BlockEditor` |
| Template editor (client) | list of questions, baseline, saves under way | edit the list, save, clean up | templates, `QuizQuestion` rows | `TemplateEditor` |
| Other pages (client) | a form each | one request per button | | not modelled |

What makes each component correct:

- Join requests: a user waits at most once; whoever gets in was let in; a decision
  stands; the row and the membership agree step by step; nobody waits for ever.
- Roles: managers are members; the owner is one of them.
- Transfer: an offer moves the domain at most once, only while it is the current one,
  and nothing else moves the domain behind the owner's back.
- Outbox: no message is sent twice but for a failure the database cannot see; a row
  marked sent was sent; what is queued is sent.
- Invites: one pending invite per address; a revoked or accepted invite does not
  come back; a confirmed address gets its invites.
- Quiz sessions: nothing is recorded that was sent after the end; a closed session
  stays closed and is completed once; what was answered in time is scored for what was
  selected; the answers fit the template they are scored against.
- Enrollment: one active enrollment per learner and course, whichever way it came
  about; a status never goes back through a stale save.
- Ordering: after any interleaving the orders of a parent are unique, and 0..n-1
  after a compaction.
- Sign-in session: two tabs never present one refresh token; what a sign-out ended
  stays ended; a live session is not forgotten.
- Pages: what the user entered reaches the server, or stays where the user can see it,
  but for the cases that are named; a page acts on the clock and on answers once, and
  not before their time; what a save created on the way to a failure does not stay.

## What is hard here

The server runs several gunicorn workers and Celery workers over one PostgreSQL
database at READ COMMITTED. Most endpoints have the shape *read without a lock,
check, open a transaction, write*, and differ in what they read again under a lock.
The hazards follow from that shape; PROJECT.json lists each with its line:

- a value read before the transaction and used in it: the join policy, the owner, the
  status of a request, the whole `Domain` instance that PATCH saves back;
- a lock that locks rows but not their absence, so that a unique constraint decides;
- two statements of one transaction that look at different committed states
  (auto-approval: list, then update by id);
- checks made under a lock in one request and without it in another that writes the
  same rows: closing locks the session, answering and reviewing do not;
- links that stay usable after the state they were sent about has moved on;
- a mail server, a broker, a process or the database failing between two effects;
- work that only a schedule or another user's request will ever take up again.

The client is one thread per tab, and its hazards come from what lies between a
request and its answer:

- an answer that arrives after the page has moved on to another question, lesson or
  form, and writes into what is there now;
- an answer that is lost: the server has the row, the page does not know it;
- a chain of requests that stops half-way, is tried again from where it stopped, or
  goes on after its form was left;
- several tabs on one cookie, with a token that is good for one refresh only, and a
  localStorage they hear of by events;
- timers (countdown, debounce, time limit of a request) racing answers.

## Plan

1. `DomainMembership` with the abstract `JoinLedger` (done).
2. `Outbox` (done).
3. `OwnershipTransfer`, composed with `DomainMembership`, with the abstract
   `OfferSlot` (done).
4. `QuizSession`: start, answer, close, lazy expiry, reconciliation (done).
5. `AuthTabs`: the tabs of one browser, the cookie they share and the server that
   rotates the token (done).
6. `QuizPlayer`, `LessonPage`, `BlockEditor`, `TemplateEditor`, the four pages on which
   work can be lost, composed as `ClientPages` (done).
7. `DomainInvite`: upsert, resend, revoke, acceptance by link and by activation; one
   pending invite per address, revoked stays revoked. Composed with the membership
   through `members`.
8. `CourseEnrollment`: enrollment and course invites together, since both create
   enrollments: acceptance under the row lock, hourly expiry, stale status writes; an
   abstract specification of one learner's enrollment.
9. `QuizAttempts`: how sessions come about (single creation under the template's lock,
   creation in bulk without it; one attempt per learner at an exam), and
   `notify_visibility_unlocks`, which sends and then stamps.
10. `Ordering`: two_phase_reorder, next_order and compact as pure functions against
    their definition over bounded inputs, and the interleavings of two writers; with it
    the outline of the course editor, which calls them.

Items 7 to 10 are what is left: one run each, two to three users or rows and two
workers; type correctness and the main invariant as theorems, and the refinement of
the enrollment abstraction. The constants carry named assumptions and no module uses
RECURSIVE operators, so that each can be proved about.

## Modules

| Module | Extends / instances | What it is |
|---|---|---|
| `JoinLedger` | | abstract: what the request table promises about membership |
| `DomainMembership` | instances `JoinLedger` | endpoints, links, forms and sweep over one domain |
| `OfferSlot` | | abstract: one slot for an offer of ownership, calls taken at once |
| `OwnershipTransfer` | extends `DomainMembership`, instances `OfferSlot` | transfer handlers beside all of the membership handlers |
| `Outbox` | | e-mail rows, delivery tasks, delivering processes and failures |
| `QuizSession` | | one session of one learner, its answers and the template |
| `AuthTabs` | | the tabs of a browser, their requests, cookie and storage, and the tokens at the server |
| `QuizPlayer` | | the page on which a quiz is taken, its saves, the countdown and the server |
| `LessonPage` | | the page of a lesson with its note |
| `BlockEditor` | | the editor of the blocks of a lesson |
| `TemplateEditor` | | the form of a quiz template, its saves and the rows |
| `ClientPages` | extends the four pages | a visit of any of them |
| `MC*` | the module they name | values for TLC |
| `*_proofs` | the module they name, `TLAPS` | theorems |

### DomainMembership

One active, public domain. `owner`, `policy` are columns of `Domain`; `members`,
`managers` its M2M tables; `status[<<u, n>>]` is the n-th `DomainJoinRequest` of u,
`"absent"` before the insert; `links` holds the decision links mailed to moderators;
`task[w]` is what a handler has read and not yet written.

A transaction is one step, taken when it commits. What a handler reads before its
transaction is a step of its own (`...Check`), whose values stay in `task[w]` while
others run, and so is each place where a transaction reads rows it does not lock and
writes them later: the insert of a request (`JoinLookup`, `JoinInsert`,
`JoinConflict`) and auto-approval (`EditList`, `EditCommit`).

| Code | Actions |
|---|---|
| `DomainJoinRequestViewSet.create` | `JoinCheck`, `JoinAuto`, `JoinLookup`, `JoinInsert`, `JoinConflict`, `JoinRefetch` |
| approve, reject, bulk-approve, bulk-reject | `ModerateCheck`, `ApproveApply`, `RejectApply` |
| cancel | `CancelCheck`, `CancelSave` |
| decision link | `DecideApprove`, `DecideReject` |
| member-role | `RoleCheck`, `RemoveApply`, `RemoveRefused`, `PromoteApply`, `DemoteApply` |
| leave | `LeaveCheck`, `LeaveApply` |
| PATCH | `EditCheck`, `EditSave`, `EditList`, `EditCommit` |
| profile form | `PreferencesLeave`, `PreferencesJoin` |
| `auto_decline_stale_join_requests_task` | `Sweep` |

`JoinDropped` has no counterpart: it ends a call that would make more requests than
the bound `MaxRequests`. Operators whose comment starts with *Faulty form* are not
part of the specification; each is a plausible bug that a property must notice.

### OwnershipTransfer

Adds the transfer rows of the audit log: `offers` (who initiated, to whom, in order;
the position is the nonce), `latest` (the offer that is the latest transfer event, 0
when there is none or it is an accept or a revoke, the only thing
`transfer_is_current` asks), `taken` (how often each was accepted) and `answer[w]`,
the transfer handlers' tasks. `MembershipStep` is any step of `DomainMembership`.

The acceptance holds the `Domain` row with SELECT FOR UPDATE from its second check to
its commit. An audit row of another transfer handler has a foreign key to that row,
whose check needs a lock that conflicts, so no transfer event commits in between, and
the acceptance is one step.

### Outbox

`row[e]` and `due[e]` stand for `sent_at` and `available_at` of an `OutboundEmail`;
`tasks[k]` counts the delivery tasks at the broker that have k retries left; `pc`,
`mail`, `sent`, `tries` are each process's position in
`process_pending_outbound_emails`, the row it holds locked, and its counters. `copies`
and `unrecorded` are history: how often the server accepted the message, and how
often without the acceptance ever being committed.

A delivery is `Pick` (the row is locked), `Send` (the server accepts) and `Record` (the
outcome commits); `Refused`, `Crash` and `DatabaseError` fall between. `Refused` may
hide an acceptance, since an exception can be a timeout on the answer.

### QuizSession

`started`, `ended`, `active` are columns of the `Quiz` row; `rows` are the questions with
a `QuizQuestionAnswer`, whose columns are `order`, `pick` (is what was selected exactly
what is correct?) and `mark` (`is_correct` with the score); `place` is the position
`session_quiz_questions` gives each question now, 0 when it is not in the template; `open`
is `QuizTemplate.can_answer`. `late` is history: rows selected after the session was
closed, or while it was being closed. Times are counted from the start.

`start` and `close` lock the row, so `Start` is one step and a close two: `Close` takes
the lock and reads the answers, `CloseCommit` writes and commits. Answering takes no
lock: `Admit` is the validation (`post[w]` keeps when it was sent, and the end it read),
then the row is looked up (`LookFound`, `LookMissing`), created (`Insert`, which waits for
a close because of its foreign key) or edited (`Edit`). A GET of a session that is closed
reconciles it without a lock: `Get`, `Fill`, `Reread`, `Save`.

| Code | Actions |
|---|---|
| `start` | `Start`, `TooLate` |
| POST, PUT, PATCH of an answer | `AdmitPost`, `AdmitEdit`, `LookFound`, `LookMissing`, `Insert`, `Edit`, `TooLate` |
| DELETE of an answer | `DeleteAnswer` |
| GET of the session, `reconcile_quiz_answers` | `Get`, `Fill`, `Reread`, `Save` |
| `close`, `close_quiz_session` | `Close`, `CloseCommit`, `Notify` |
| question endpoints of the template | `AddQuestion`, `MoveQuestion`, `DeleteQuestion` |
| `QuizTemplate.can_answer` | `Reopen` |
| outside | `CrashWriter`, `CrashViewer`, `Tick` |

### AuthTabs

`cookie`, `hint`, `legacy` are what the tabs of a browser share (the HttpOnly cookie, the
key `SESSION_HINT_KEY`, the token of an older bundle); `events[t]` the storage events a
tab has not handled; `access`, `shared`, `loading` its memory (`accessToken`, `refresh$`,
whether `restore()` waits for `/me`). A request goes from `queued` (it waits for the Web
Lock `holder`) to `sent` to `served`; `token` and `line` are the server's table of
refresh tokens. `doors` is history.

| Code | Actions |
|---|---|
| an API call that needs a token, `refreshTokens`, the interceptor | `Call` |
| `restore()` after a load, its ends and its time limit | `Reload`, `RestoreDone`, `RestoreFails`, `RestoreTimesOut` |
| `onStorage` | `HeardRemoved`, `HeardSet` |
| `signOut`, `login`, `exchangeMagicLink`, change of password | `SignOut`, `SignIn` |
| `withRefreshLock` | `Granted`; `Finish` and `Unlock` within the answers |
| the token endpoints | `ServeRefresh`, `ServeBlacklist`, `ServeSignIn` |
| answers | `RefreshAnswered`, `RefreshRejected`, `BlacklistAnswered`, `SignedIn`, `Lost` |

### QuizPlayer

`page`, `review`, `current`, `shown`, `asking` are the page, `saves` the answers under way,
each `sent` or `stored`, `closing` and `emitted` the flags of the close and the countdown,
`up` the clock of the browser, `stored` and `closed` the server. `watched` and `chosen` are
history: one question, and whether its option was selected last.

| Code | Actions |
|---|---|
| `ngOnInit`, `loadQuizSession`, `listAnswers` | `Open`, `List`, `Loaded`, `LoadFails` |
| `onSelectionChanged`, the pad, next and previous | `Select`, `Pad`, `Turn` |
| `onFinishQuiz` with its dialog | `AskFinish`, `CancelFinish`, `AcceptFinish` |
| `persistAnswer`, `setCurrentItem`, `handleSaveError` | within the above; `SaveAnswered`, `SaveFails` |
| `QuizCountdown.tick`, `closeQuizAndRedirect` | `Tick`, `Closed`, `CloseFails` |
| the server, the clock | `Store`, `ServerCloses`, `TimePasses` |

### LessonPage

`route` and `lesson` differ while a lesson is loaded; `text` is the textarea, which is
not cleared by a change of the route; `debounce` is what `noteSave$` waits to save, with
the lesson it belongs to; `puts` are the saves under way and `notes` the rows.
`Visit`, `Retry`, `LessonLoaded`, `LessonFails`, `NoteLoaded`, `NoteFails`, `Type`,
`PersistNote`, `NoteSaveFails`, `LeaveLesson` are the handlers of `lesson-view.ts`,
`ReadNote` and `StoreNote` the server.

### BlockEditor

`editing`, `fresh`, `saving`, `deleting`, `creating` are the signals of the same names;
`flight` holds the requests, which are heard as long as the editor that sent them is
there; `row`, `home` are the server's. `acked` is history. `OpenEditor`, `Switch`,
`CloseEditor` are the life of the component and `onHostChanged`; `AddBlock`, `EditBlock`,
`SaveBlock`, `TrashBlock`, `CancelBlock` the buttons; `Process` the server; the rest the
answers.

### TemplateEditor

`selected` and `original` are the two signals of the composition controller, with the
position each item carries; `same` says which items on the screen are still the objects
a save works on, since a moved or changed item is a new object and an id is written into
the object that was sent. `chain[c]` is a run of `saveQuiz`: the template, then
`syncWithServer` with the rows to be removed, the items (`plan`) and the item whose turn
it is, or the clean-up. `template`, `qrow` are the server's tables, with UNIQUE(quiz,
question) and UNIQUE(quiz, sort_order).

| Code | Actions |
|---|---|
| `ngOnInit`, `hydrate`, leaving the page, closing the tab | `OpenCreate`, `OpenEdit`, `LeaveForm`, `CloseTab` |
| `addExisting`, `remove`, `move`, `setWeight`, `clear` | `AddExisting`, `RemoveItem`, `MoveItem`, `SetWeight`, `Clear` |
| `saveQuiz` up to its first request | `SaveQuiz` |
| create or update of the template, `syncWithServer` | `TemplateAnswered`, `RemovalAnswered`, `UpdateAnswered`, `AdditionAnswered` |
| the `catch` of `saveQuiz` with its clean-up | `Refused`, `Unprocessed`, `AnswerLost` (each with `SaveBreaks`), `CleanupAnswered` |

A request and its answer are one step here: between the two nothing reads what the
answer changes but the chain itself. `AnswerLost` is the step in which the server did
its part and the page does not hear of it.

### ClientPages

The router shows one page at a time and the pages share no state, so that a behavior of
`PagesSpec` is a visit of one of the four; it lets one run check them all, and
`PagesImplementEach` proves that each page behaves in a visit as it does alone.

## Runs

| Run | Instance | Shows |
|---|---|---|
| `moderation` | three users, one request each, two handlers; join, moderation, cancel, links, sweep, profile form | `TypeOK`, `NoGhostRows`, `DecisionsStand`, `KeepsLedger` |
| `roles` | two users, two handlers, renames, openings, new owners and new teams by PATCH; roles, leaving, links | `EntryIsEarned`, `OnlyTwoDoorsOrphanManagers`, `KeepsLedger` |
| `queue` | two users, two requests each, two handlers, openings, sweep, profile form; fair | `OnePendingPerUser`, `PendingIsDecided` |
| `links` | three users, one of them superuser, two offers, two transfer handlers, one membership handler; roles, leaving, renames | `TransferTypeOK`, `OfferTakenOnce`, `KeepsSlot`, `OwnerChangesHands`, `OwnerStaysInside` |
| `mishaps` | two workers and a web process, two e-mails, one retry, three failures of any kind, purge, manual command | `TypeOK`, `CopiesAccounted`, `SentWasAccepted`, `SentForGood` |
| `calm` | one worker, two web processes, three e-mails, one per call; only the broker may be down; fair | `NothingStranded`, `QueuedIsSent` |
| `outage` | one e-mail, one refusal; fair | violation of `QueuedIsSent` |
| `sessions` | two questions, one writer, two requests that close or review, a duration of 1 watched for 2 | `TypeOK`, `MarksAreRight`, `OneCompletion`, `ClosedForGood`, `EndOnlyShortens`, `SentInTime` |
| `positions` | two questions, one writer, one request, no time limit | violation of `PositionsAgree` |
| `tabs` | two tabs, three requests at a time, three tokens, one sign-in or change of password | `TypeOK`, `RefreshesNeverClash`, `SignOutSticks`, `KeepsLiveSession` |
| `pages` | quiz: two questions, one with checkboxes, two saves, one answer per page of the list; lesson: two lessons, two PUTs; blocks: two lessons, two blocks, two requests; template: two questions, two rows, one template, one save | `PagesTypeOK`, `NeverClosesEarly`, `SelectionsStay`, `TimeUpCloses`, `NotesAccounted`, `DraftsAccounted`, `SavedStays`, `SavedAsListed`, `OnlyPositionsRefused`, `NothingLeftOver` |
| `notes` | the same | violation of `NotesGoHome` |

Why these bounds suffice for the hazards listed: each race is between two handlers,
so two are enough to have every pair in flight; a third user makes the difference
between requester, moderator and bystander (`moderation`, `links`); a second request
of the same user is what `OnePendingPerUser` and the reuse of links after a decision
need (`queue`); a second offer is what supersedes, and what brings the domain back to
a former sender (`links`). In `mishaps` three failures allow a refusal, a crash and a
database error around the same row, and two e-mails under a limit of two let a call
end by its limit or by an empty queue; in `calm` a limit of one makes every call end
by its limit. `calm` has no database errors: that they may come, within the retries, is
left to the theorem about `NothingStranded`. In `sessions` two
requests give two closes, a close beside a review and two reviews at once, each with an
answer in flight; two questions are what positions and a partly answered session need;
a duration of 1 and a `Horizon` of 2 have moments before, at and after the end.
`MaxRequests = 0` in `links` removes the join requests, which do not touch the owner.

In `tabs` the third request lets a sign-out or a sign-in meet a refresh of each tab, and
the third token is the successor of a successor, or of a sign-in. In `pages` two saves,
PUTs or requests can overtake each other; two questions or lessons are the one that was
left and the one on the screen; a page of one answer leaves one answer unread. For the
template two rows are enough for a save that removes one and adds one, for an item that
moves past another, and for a save that stops between two items and is tried again; one
template is enough to be created, left over, opened in two forms one after the other
while the first one's save goes on, and removed. (With three rows, checked apart, the
form has 597 829 states and the same result.)

Deadlock is checked except in `calm` and `outage`, where the system may really stop:
the finite set of e-mails has been queued and nothing is left to deliver or, in
`outage`, nothing will deliver what is left. Symmetry is over workers, in
`sessions` over questions and requests, in `tabs` over tabs and in `pages` over the slots
for saves, and only in runs without liveness.

The properties in words:

- `NoGhostRows`: links and running handlers name rows whose insert committed.
- `DecisionsStand`: a decided request changes only by a decision link, by a
  cancellation that had read it before, or by an auto-approval that had listed it.
- `KeepsLedger`: approvals come with membership, overturned approvals take it away in
  the same step, other rejections and cancellations leave it alone, one pending row
  per user (the specification `JoinLedger`).
- `EntryIsEarned`: whoever enters was let in by an automatic policy, a verdict, a
  promotion, or a PATCH that names them.
- `OnlyTwoDoorsOrphanManagers`: managers stop being members only by a rejection link
  or the profile form.
- `OnePendingPerUser`, `PendingIsDecided`: nobody waits twice, or for ever.
- `OfferTakenOnce`, `KeepsSlot`, `OwnerChangesHands`, `OwnerStaysInside`: see the
  module; the last two name the handlers that act on an outdated owner.
- `CopiesAccounted`: at most one copy of a message beyond those a failure hid.
- `MarksAreRight`: an answer given in time has the mark of its selection or none, and
  has one once a close has succeeded.
- `OneCompletion`: one close succeeds, one completion mail at most.
- `ClosedForGood`, `EndOnlyShortens`: a closed session is not reopened or restarted, its
  end is not put off.
- `SentInTime`: what is written was sent no later than the recorded end.
- `SentWasAccepted`, `SentForGood`, `QueuedIsSent`: what is marked sent was accepted,
  is never sent again, and everything queued is sent.
- `NothingStranded`: when nobody delivers and no delivery is asked for, nothing waits,
  before the first failure and while database errors stay within the task's retries.
- `RefreshesNeverClash`: a refresh is rejected because its session was ended or the
  answer to an earlier one was lost, never because another tab used the token up.
- `SignOutSticks`: a session that was ended at the server does not come back by an
  answer under way.
- `KeepsLiveSession`: the browser forgets a session whose cookie is live only while a
  sign-out is sent, or in the three cases `doors` names.
- `NeverClosesEarly`, `TimeUpCloses`: the page closes a session for want of time only
  when time is up, and when it is, stays in a close until it is left.
- `SelectionsStay`: four ways in which a selection is parted from the page or from the
  server, and no other.
- `NotesAccounted`: what was typed last at a lesson becomes its note, but for four ways.
  `NotesGoHome`, which fails: a note holds only what was typed at its lesson.
- `DraftsAccounted`: no draft stays behind that the editor does not know of, but by a
  lost answer, a failed deletion or a closed editor. `SavedStays`: neither a cancel nor a
  switch deletes a block whose save was answered.
- `SavedAsListed`: the rows a save leaves when it ends well are those of its list, in the
  positions of the list, and perhaps rows that a failed save had added, whatever was done
  to the list between and during the saves, unless two forms saved one template at once.
- `OnlyPositionsRefused`: in the first save of a form the only thing the server refuses is
  a position that another item of the list still has.
- `NothingLeftOver`: a template that could not be completed is removed, unless an answer
  or its removal is lost or the tab is closed.

## Fairness

`OwnershipTransfer`, `QuizSession`, `AuthTabs` and the pages state no liveness and assume
no fairness: what a user does next, and whether an answer comes, nothing guarantees.

`DomainMembership`: only the sweep is fair, for each row: Celery beat runs
`auto_decline_stale_join_requests_task` once a day (`config/settings_base.py:385`) and
a row that stays pending becomes old enough. No user or moderator has to act.

`Outbox`: processes run their code (`Hook`, `Loop`), a free worker takes a waiting task
(`Start`), and time passes (`MinutePasses`). Nothing is assumed of the operator, and
nothing of the beat schedule, which has no entry for the outbox.

## Proofs

`TLAPS` checks, for any set of users, workers, payloads, offers, e-mails, questions,
tabs, lessons, blocks and any bounds, from the assumptions the modules declare about their constants:

| Theorem | Module | States |
|---|---|---|
| `TypeCorrect` | `DomainMembership_proofs` | `Spec => []TypeOK` |
| `NobodyWaitsTwice`, `NoGhosts` | | `OnePendingPerUser`, `NoGhostRows` |
| `ImplementsLedger` | | `Spec => KeepsLedger` |
| `DecisionsAlwaysStand`, `TwoDoorsOnly`, `EntryAlwaysEarned` | | the action properties |
| `ManagersStayMembers`, `FixedOwnerStaysInside` | | conditional: managers are members; the owner stays owner and member |
| `TransferTypeCorrect`, `OffersTakenOnce` | `OwnershipTransfer_proofs` | `TransferTypeOK`, `OfferTakenOnce` |
| `ImplementsSlot` | | `TransferSpec => KeepsSlot` |
| `ChangesHandsByLinkOrSave`, `OwnerStays` | | the action properties |
| `TransfersKeepLedger`, `NobodyWaitsTwiceWithTransfers`, `NoGhostsWithTransfers`, `DecisionsStandWithTransfers`, `TwoDoorsWithTransfers` | | what holds of the membership, for `TransferSpec` |
| `EntryEarnedOrHandedOver` | | with transfers, the one further way into the domain |
| `ManagersStayMembersWithTransfers`, `OwnerInsideWithoutRoles` | | conditional: managers, and the owner, are members |
| `TypeCorrect`, `CopiesAlwaysAccounted`, `SentAlwaysAccepted` | `Outbox_proofs` | the invariants |
| `NeverSentAgain` | | `SentForGood` |
| `CopiesBoundedByFailures`, `ExactlyOnceWithoutFailures` | | at most one copy more than failures; exactly one without |
| `NothingIsStranded` | | `NothingStranded` |
| `TypeCorrect`, `CompletedOnce`, `MarksAlwaysRight` | `QuizSession_proofs` | `TypeOK`, `OneCompletion`, `MarksAreRight` |
| `NeverReopened`, `EndNeverLater`, `AlwaysSentInTime` | | `ClosedForGood`, `EndOnlyShortens`, `SentInTime` |
| `PositionsAgreeUnmoved`, `ClosesFitUnmoved` | | conditional: `PositionsAgree`; a close is never refused by a unique constraint |
| `TypeCorrect`, `NoClash`, `EndedStaysEnded`, `NeverForgotten` | `AuthTabs_proofs` | `TypeOK`, `RefreshesNeverClash`, `SignOutSticks`, `KeepsLiveSession` |
| `TemplateTypeCorrect`, `NothingIsLeftOver` | `TemplateEditor_proofs` | `TemplateTypeOK`, `NothingLeftOver` |
| `SavesAreListed`, `RefusalsAreOfPositions` | `TemplateSaves_proofs` | `SavedAsListed`, `OnlyPositionsRefused` |
| `ClosesInTime`, `SignalIsHeard`, `SelectionsKept` | `ClientPages_proofs` | `NeverClosesEarly`, `TimeUpCloses`, `SelectionsStay` |
| `NotesKept`, `SavedKept`, `DraftsKept` | | `NotesAccounted`, `SavedStays`, `DraftsAccounted` |
| `NotesGoHomeUnhurried` | | conditional: `NotesGoHome` |
| `PagesImplementEach`, `PagesTypeCorrect`, `PagesKeepWork` | | `PagesSpec` implements each page; `PagesTypeOK`; all of the above in any visit |

Membership: `Inv == TypeOK /\ NoGhostRows /\ OnePendingPerUser` is inductive. The
ghost-row part is what makes the refinement go through: a handler that marks rows must
mark rows that exist, or it would skip the ledger's `Submit`. `OnePendingPerUser` needs
no strengthening because `JoinInsert` and the profile form test it where the unique
constraint does. Each step is then matched with a step of `JoinLedger`, and the action
properties follow from the types of the tasks, action by action.

`ManagersAreMembers` and "the owner is a member" do not hold of the code. Two theorems say
how far they do, with the endpoints and payloads in use as constants. Without decision
links and the profile form every manager is a member: no interleaving of the other
handlers, all of which check before they write, breaks it. Without the profile form, and
with no PATCH that names another owner, the creator stays owner and member although
roles, leaving and PATCH act on `Domain` instances read before: `CreatorInv` says that
every instance a handler holds names the same owner. So it takes a change of hands to
make one of these stale checks harmful.

Transfer: `OfferTakenOnce` is not inductive, for nothing in it says that the offer
about to be taken is still fresh; `TransferInv` adds `OpenIsFresh`: the offer that is
the latest event has not been taken. The types of the membership half are kept by
`TypeStep`, proved in `DomainMembership_proofs` for any membership step.

The results about `DomainMembership` are of `Spec`, where nobody accepts a transfer. An
acceptance writes the same tables (owner, managers, members), so that nothing carries
over by itself: `ComposedStep` splits a step of the composition into a membership step and a
`HandOverEffect`, the lemmas of the membership proofs cover the first, and for the second it
is shown that it keeps the ledger, decides no request, admits only the parties of the
current offer and makes them manager and member together. `ComposedInv` is the membership
invariant beside the types of both halves. `OwnerInsideWithoutRoles` is the part of
`OwnerInside` that transfers are responsible for: where nothing but transfers moves the
domain and nobody is removed, the owner is a member in every interleaving of links.

Outbox: `Inv` adds to the types that a process between picking and recording holds a
row (`Holding`), that no row is held twice and a held row is still queued
(`HeldByOne`), and the balance of copies: those accepted are those unrecorded, plus
one if the row is sent or its holder has just sent it (`Accounts`). Every failure leaves at
most one acceptance unrecorded, hence the bound by the number of failures.

`NothingStranded` is the safety half of `QueuedIsSent`, and the argument is a matching. A
delivery is asked for once per message, but a call sends any message that is due, skips
those others hold, and ends at its limit; it need not send the one it was queued for. The
invariant `Helped` says that the queued messages nobody holds can be mapped, one to one, to
`Helpers`: tasks at the broker, hooks of commits that have not run, and calls that still
have room for another message. A call that takes a message gives up at most its
own place; one that ends early found nothing left to take, which with `AllDue` (no message
is put off) means that nothing is left; a database error takes one retry and gives the task
back (`Budget`). With no helpers there are no such messages.

Sessions: `PhaseInv` adds to the types what the lock gives: one close at a time and only
of an active session, reviews only of a closed one, answers only once it has started,
and a completion mail owed by one request at most. The action properties about the row
follow from it: every step starts the session, leaves its end alone or brings it down to
now (`RowSteps`). `SentInTime` needs `Sent`, that a request in flight was sent before the
recorded end, whatever becomes of it. `MarkInv` carries the scoring: nothing is marked
while the session is active, and the marks a request has planned stay right for answers
given in time (`PlanHolds`), because whatever changes a selection under a plan is late.

`PositionsAgree` fails (run `positions`), and two theorems say that moved questions are the
only reason: under `QuestionsStay`, that a question of a started session keeps its position
or is deleted, all positions agree and a close finds everything it creates free. Questions
may still be appended and deleted from the end, answers, reviews and closes race as they
like. The invariant `Placed` follows positions to where they are written (rows, answers about
to be inserted, answers about to be created); that two questions never share one comes from
the definition of `Placements` by a counting argument (`PlacementsApart`).

Sign-in: `AuthInv == TypeInv /\ TokensInv /\ LinesInv`. `TokensInv` says where tokens are:
the lock is held by the request it let through (`LockInv`), a token in an answer under way
is nowhere else (`AnswerInv`), and a token in the cookie is used up only while its successor
is on the way (`StoredInv`). `LinesInv` says what descends from a sign-in: one live token
(`UniqueLive`), and none that can still reach the cookie once one was lost or ended
(`DeadInv`). `KeepsLiveSession` follows from a further invariant, `HintInv`.

Pages: `CloseInv` (a close for want of time was called when time was up) and `DraftInv`
(a draft the editor has been told of is in its sets or being deleted) are inductive; the
action properties follow action by action from the types, the properties naming each way
out. A step of a visit is a step of one page and a stutter of the others, which carries
every theorem over.

`NotesGoHome` fails (run `notes`). `NotesGoHomeUnhurried` proves it of a learner who types only
at the lesson of the URL after its note was answered, where a note arrives before the next
lesson is asked for: debounces and PUTs that outlast a lesson, failures and answers for
lessons do no harm. Without any one of these three conditions TLC finds a violation on two
lessons.

Template editor: `TemplateInv` adds to the types where a save stands (`PlaceInv`: only a
template that is to be created has no number, a save that is heard belongs to the form,
and there is one such save at most) and what the tables hold (`TableInv`: the two unique
constraints, and rows only of templates that are there). A template that is neither
finished nor somebody's to finish can then appear only in the steps `NothingLeftOver`
names.

What the saves leave needs `SavesInv`, which adds two parts. `CrossInv`: two saves meet in a
template only after it was crossed, and the template of a save, or of an open form, is
there unless it was crossed. `RowInv`: each save is sound for the rows (`SaveOK`), and so is
the list of the form (`FormRows`). A save is sound in three degrees. Of any save, the items
are distinct, the rows they name were made once, and what was sent so far is in the
template or deleted (`PlanSound`). Of one that is alone in its template, what was sent is
there as it was sent, and every row kept before is to be removed or listed (`PlanDone`). Of
the first save of a form besides, the rows of the template are those to be removed or
listed (`PlanClean`): this is why only a position can be refused. The three are predicates
of a table of rows, so that one lemma (`SaveStays`) says that what others do elsewhere does
not concern a save, and one for each kind of answer what its own request does to it.

The hypotheses of the conditional theorems are not assumptions about the code: nothing in
it enforces them, and what happens without them is in the findings, the observations and
the named exceptions of the action properties. They say where a weakness ends. Each has been
checked by TLC, together with its inductive invariant, before it was proved.

Only model-checked: the liveness properties `PendingIsDecided` and `QueuedIsSent`, which
need ENABLED and fairness, out of this prover's reach. Of the second, `NothingIsStranded`
proves what does not need them.

## Findings

- `outage`: an e-mail the server refuses is not retried by any schedule, against the
  two operations documents quoted in PROJECT.json.
- `positions`: a template edited under a running session gives a missing answer a position
  that an existing one holds; closing fails until the template is changed again, against
  the stable order `quiz/ordering.py:4` speaks of.
- `notes`: the textarea keeps the note of the previous lesson until the note of the next
  one has been fetched; a key pressed then saves the first lesson's text as the second
  lesson's note, which `lesson-view.ts:231` means to exclude.

## Observations

Met while reading the code; the models contain the behaviour, or the limits name it, and
no run claims a violation.

- Roles: a rejection link takes its requester out of the members but leaves the manager
  role they got meanwhile (`domain/models.py:126` states the rule). A PATCH saved after the
  acceptance of a transfer it did not see puts the previous owner back
  (`domain/serializers.py:357`).
- Sign-in: a sign-in is not under the lock and may cross a refresh; the answer of a refresh
  that was lost makes the next one fail; a refresh answered after a sign-out installs its
  access token in memory again; a legacy token migrated with a failing `/me` is never
  announced; a hung POST holds the lock up to its time limit.
- Quiz page: only the first page of the answers is read (20 by default), so that a session
  with more resumes with the others empty, and Next overwrites them; an answer that
  arrives late writes its options into the question on the screen, where the server
  refuses them; a timer that ends while a finish is failing is not heard again.
- Lesson page: a note is lost when the page is left within its debounce; `completing` is
  not reset by an error (`lesson-view.ts:299`).
- Block editor: the preview destroys the editor without asking; a creation answered after
  the block was saved makes it a draft again; what is typed during a PATCH is dropped when
  its answer comes.
- Template editor: since the rows are changed one by one, a save after saved questions
  were moved up or down (`docs/manual/en/instructor.md:321` offers it) meets a position that is still
  taken and fails; in an update the error is not caught (`quiz/views.py:400`) and the answer
  is a 500. After a failed save in create mode the items keep ids of the template that was
  removed, and the next save cannot find them. What is edited during a save is lost at its
  end, when the list becomes what was saved. A save that creates and ends after its form
  was left closes whatever page is open (`quiz-create.ts:537`).

## Limits

- Transactions are atomic at their commit. Statement-level interleavings of two role
  changes on the M2M tables (READ COMMITTED, no lock) are not modelled.
- The domain is active and public. Private domains, deactivation and deletion are not
  modelled; neither is the is_active toggle of member-role.
- Decision and transfer links never expire, which allows more than the code does.
- The notification preferences that decide who is mailed a decision link are left out:
  every approver gets one.
- The profile form is one step; the code commits domain by domain, and the model has
  one domain.
- The order of transfer events is the order of their commits; the code sorts by a
  timestamp taken an instant earlier.
- The `attempts` counter of an e-mail is only displayed. The branch of
  `trigger_outbound_email_delivery` for `CeleryRetry` occurs only with eager tasks.
- `QuizSession` begins with one session that exists. Creating sessions, the single attempt
  of exams, PUT, PATCH and DELETE of the session row, shuffling and `max_questions` are not
  modelled. A question is right or wrong; changes of its content or weight, which change
  the score of closed sessions, are left out; of the template's own time window only
  `open` and, as a constant, `TemplateEnd` remain.
- Domain invites also add members; they are the next module of the plan.
- `AuthTabs`: refresh tokens do not expire, there is one account, `/me` never answers 401,
  Web Locks are available; the lock is granted in any order. A request given up by the
  browser has been processed by then or never is; the same holds for the pages.
- Pages: a selection, a note and a block are abstracted to what the properties tell apart
  (an option per question, a word per lesson, drafts and saved blocks); requests that are
  the same count once. Completion and progress of a lesson, reordering of blocks, flags
  and reports about a question are not modelled.
- `TemplateEditor`: weights travel with the positions and are left out; so are the other
  fields, the validation of domain, mode and activity of a question, `max_questions`, the
  dialog that creates a question, and templates in use, which the server switches off
  instead of removing. Nobody else edits the template but saves that go on after their
  form was left. A removal, and an item that is refused, ends its save at once.
- Not modelled at all, and why, is listed under `components` in PROJECT.json.
