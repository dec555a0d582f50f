# A verification of ClearCode Reading

TLA+ models of the parts of ClearCode Reading whose correctness depends on the
order in which things happen, model-checked with TLC and, where it matters
most, proved with TLAPS for every number of messages, workers, subscribers,
payments, posts, weeks, threads, appointments, children and sessions.

ClearCode Reading is a Django monolith (`src/apps`, PostgreSQL, gunicorn) with
one command that runs for ever, the CRM email worker, commands that a cron
repeats (social publishing, the content plan), and Celery workers with Redis
between them and the web (`src/clearcodereading/settings.py`) that evaluate completed
sessions.  What must survive a crash is a row, and what must not happen twice is
guarded by a row lock, an advisory lock or a unique constraint.  Remote services
decide things that the database then has to agree with: Gmail, the newsletter's
mail provider, the payroll provider, Meta, Acuity, the hosts' calendars and an AI
service.

- [Inventory](#inventory): the components, their state and what is hard
- [Modules](#modules): what models what
- [The outbox](#the-outbox), [the Gmail synchronization](#the-gmail-synchronization),
  [the newsletter](#the-newsletter), [the payroll](#the-payroll),
  [consultations](#consultations), [social publishing](#social-publishing),
  [the content plan](#the-content-plan), [scheduling](#scheduling),
  [sessions](#sessions): state, actions, properties, bounds, fairness, limits
- [Proofs](#proofs)
- [Disagreements found](#disagreements-found)
- [Not modelled](#not-modelled)
- [Plan](#plan)

## Inventory

"Hard" names the behaviours that tests hardly reach.  The rows marked with a
module are modelled (some only in part: see the component's section).

| Component (under `src/apps`) | State it keeps | Operations | Talks to | Hard | What makes it correct | Module |
|---|---|---|---|---|---|---|
| Email worker `crm_email/worker.py`, `crm_email_worker` command | `Mailbox`, `Message` rows; advisory locks | a pass over the mailboxes: revoke, load a batch, send or reconcile each message, synchronize, back off | Gmail; web requests through rows and the mailbox lock | two workers during a deployment; crash around a send; lost, late answers; rate limits; stale batch | a message leaves at most once, its status is true, a queued one is decided | `EmailOutbox` |
| Email requests `crm_email/services.py`, `views.py`, `google.py`, purge command | the same rows | save or send a message, cancel, connect, disconnect, purge | the worker, through the mailbox lock | a disconnect in two statements; a cancellation during a send | what was cancelled or disconnected does not leave | `EmailOutbox` |
| Website receipts `crm/website_emails.py` | `WebsiteSubmission` and its two messages | enqueue a pair of confirmations once | the worker's passes | purge of the message that remembers the sending | one confirmation for each submission | `EmailOutbox` |
| Stage emails `crm_email/stage_emails.py` | `StageEmailDelivery` | enqueue, check again before the send | contacts, pilot settings | contact or permission gone between queue and send | nothing to people who may not get it | `EmailOutbox` |
| Inventory email `crm/inventory_mail.py` | `InventoryMail`, a mirror of the message | enqueue, retry, mirror by `post_save` | outbox | retry of what is in doubt; updates that skip the signal | the record agrees with the message | `EmailOutbox` |
| Gmail synchronization `crm_email/sync.py` | history cursor, threads, `sync_requested_at` | adopt sent mail, import replies | Gmail push and history | push during a synchronization; cursor after a failure; forgotten history | no message of a linked thread missed | `GmailSync`, `EmailOutbox` (adoption) |
| Newsletter `crm/newsletters.py` | `NewsletterCampaign`, `NewsletterDelivery`, `NewsletterSubscription` | claim, send, retry, edit, subscribe, opt out | mail provider; gunicorn's timeout | death of a request in the loop; takeover; racing edit | everybody gets one copy | `Newsletter` |
| Payroll `workforce/services.py` | `PayableItem`, `PaymentRun`, `Payment`, `ProviderEvent`, `TaxYearSummary` | create, approve, add to a run, review, approve, submit, webhook | payroll provider | two-transaction submission; webhooks early, late, twice; stale update | each payable is paid once, as reviewed, and the books follow the money | `Payroll` |
| Booking and calendars `crm/consultation_booking.py`, `open_hours.py`, `inventory_views.py`, `calendars.py` | opened hours, times, two tables of bookings, blocks, links | open, propose, confirm, withdraw, book from two pages, block, withdraw a link | a linked calendar, read under the host's lock | two pages and one time; a view that acts on hours read before; withdrawn links | a time is booked once, over both tables, and a row that was withdrawn stays closed to views | `Consultations` |
| Social publishing `social/services.py`, `reel_publishing.py`, `meta.py` | posts, a record for each network, upload checkpoints, accounts | edit, schedule, claim, publish, retry, connect, delete | Meta | lost answers, death between two checkpoints, two publishers | a reel goes out once, an extra copy is explained, what is called published is | `SocialPublishing` |
| Weekly content plan `social/planner.py` | plan, weeks, their posts | generate, review, schedule, skip, retry, pause | AI service, the publisher | staff act while a week is generated; bounded paid calls; mode changes | nothing is sent that the mode does not allow | `ContentPlanner` |
| Sessions, rapid logging `sessions/` | sessions, revisions, observations | log with a client's request id, edit, delete | decision support, through Celery | replayed logs, saves that cross, evaluations that come late | one session for each log; history and observations follow the row | `SessionLogging` |
| Decision support `decision_support/` | review flags | evaluate, acknowledge, resolve | sessions, mail | late evaluation meets an answered flag | a streak is flagged, an answered flag stays answered | `SessionLogging` (one rule) |
| Scheduling `scheduling/optimizer.py`, `services.py` | windows, group proposals, bookings | propose, approve, reject, book, synchronize, reconcile | Acuity | two approvals at once; lost answers; stale updates | no child in two groups at once, only approved appointments | `Scheduling` |
| Users, invitations `users/` | accounts, invitations | invite, accept, consent | mail | an invitation accepted twice | single use, under its row's lock | not modelled |
| Curriculum, placement `curriculum/placement.py` | levels, rules | place a student | - | a recommendation regenerated while it is confirmed | a table of thresholds | not modelled |
| Assessments, outcomes, progress | results, reviews | score, review, aggregate | - | stale recomputation | - | not modelled |
| CRM contacts, pipeline, routing, hiring; intake and surveys | contacts, deals | forms over single rows | stage emails | - | - | not modelled (`set_contact_deleted` is in `EmailOutbox` and `GmailSync`, `complete_inventory` in `Consultations`) |
| Blog | articles, a weekly plan | write, publish | AI service | as the content plan | - | not modelled (a twin of `ContentPlanner`) |
| Resources, notifications, core, mobile API, schools, billing, documents, tenants, social analytics and design | content and tables | edit, list, notify | - | little state of their own | - | not modelled |
| iOS application, marketing website | none the server trusts | clients | API | - | - | not modelled |

## Modules

| Module | What it is |
|---|---|
| `EmailOutbox` | the outbox in detail: one action per transaction, statement or remote answer |
| `OutboxPromise` | what the outbox promises for one message: told "open", "unknown" or "sent", and gone at most once |
| `EmailOutboxProofs` | proofs about `EmailOutbox`: its inductive invariant, the refinement, the action properties, what a disconnection leaves |
| `Newsletter`, `NewsletterProofs` | the sending of one campaign, and proofs about it |
| `Payroll`, `PayrollProofs` | payables, payment runs, provider and webhooks, and proofs about them |
| `Ledger` | what the payroll promises those who are owed: claimed, approved, put on one sheet, ordered once, decided once, booked when the money moved |
| `GmailSync`, `GmailSyncProofs` | the history cursor, imports and recovery of one mailbox, and proofs about them |
| `Consultations`, `ConsultationsProofs` | the times of one host and the two ways to book one, and proofs about them |
| `Diary` | what a calendar promises: families that are welcome take only what is free and not barred, what is taken stays taken, clashing times are never both open |
| `SocialPublishing`, `SocialPublishingProofs` | posts, publishers, Meta, and proofs about them |
| `Board` | what publishing promises staff and followers: when a post may appear, how often, and what may be told of it |
| `ContentPlanner`, `ContentPlannerProofs` | the weekly plan that makes and schedules posts, and proofs about it |
| `Scheduling` | group proposals, bookings and Acuity |
| `SessionLogging` | sessions of one reader, their records, and the flags raised from them |
| `LessonProofs` | proofs about `Scheduling` and `SessionLogging` |
| `MC...` | an instance of each for TLC |

`EmailOutbox` and `GmailSync` share the mailbox and its lock: a visit of the
worker sends first (`EmailOutbox`) and synchronizes then (`GmailSync`), and each
sees of the other what it can do at that lock (`AdoptSent` there, `Send` here).
`ContentPlanner` makes the posts that `SocialPublishing` publishes: it sees of
the publisher the claim and the outcome.  Checked together they would multiply
their states without a step that either does not have.

`OutboxPromise`, `Ledger`, `Diary` and `Board` are abstract specifications: what
the people outside may rely on, in a few actions, without workers, locks, calls or
crashes.  The detailed module beside each defines a refinement mapping, instantiates
the abstract one with it, checks it as a property of a run and proves it.

An operator named `Action_Slip` is a plausible mistake in the definition
`Action` that follows it; the project runs each property against one, to know
that the property can fail.

Abstractions common to all modules: identities are model values; texts,
headers, addresses and times of day are left out; a clock is an action that may
happen when the deadline it stands for may pass; a row lock held for one
transaction is the atomicity of an action, and an advisory lock held over
several steps is a variable.

## The outbox

### State and actions

`status`, `attempts`, `due` and `born` are the fields of a `Message`; `linked`,
`ready`, `stamp` and `access` those of a `Mailbox` and its owner; `delivery` is
the `InventoryMail` that mirrors a message; `passLock` and `lock` are the
session-level advisory locks of `security.py:216`.  A worker has a program
counter, the mailbox it is at, and `batch` with `loaded` and `loadedGone`: the
Message objects `run_pass` read at `worker.py:293` and decides on later.
`wire`, `handed` and `foreign` are Gmail's: messages on their way, copies
accepted, and messages it filed under another contact's thread.

| Code | Actions |
|---|---|
| `save_message`, `enqueue_receipt`, `enqueue_delivery`, `enqueue_google`, retry page | `SaveMessage`, `EnqueueReceipt`, `EnqueueStage`, `EnqueueInventory`, `RetryInventory` |
| `cancel_message`, purge command | `CancelMessage`, `PurgeMessage` |
| `disconnect` (two statements), `connect` | `DisconnectSave`, `DisconnectCancel`, `WebCrash`, `Connect` |
| `run_pass` | `BeginPass`, `SkipMailbox`, `RevokeSave`, `RevokeCancel`, `LoadBatch`, `EndBatch`, `FinishVisit`, `SyncFails`, `EndPass` |
| `send` | `CheckSender`, `CheckRules`, `StartSend` or `Refuse`, then one of `PostAccepted`, `PostForeign`, `PostLimited`, `PostRejected`, `PostUnknown`, `TokenRefused` |
| `reconcile` | `ReconcileFound`, `ReconcileMissing`, `ReconcileFails` |
| `store_thread` | `AdoptSent` |
| Gmail and the world | `LateAccept`, `LateDrop`, `Crash`, `MessageDue`, `MailboxReady`, `ChangeGuards` |

A crash is possible at any step of a worker; a request that was posted may
still arrive.  An answer that is lost and accepted later is `PostUnknown`
followed by `LateAccept`.  `send` reads the sender's rows (`worker.py:116`), then the
rules of the kind, and saves `SENDING` at line 170; none of these rows is locked,
so access or permission may be lost in between, and the message still leaves.
What does hold at the save is that the worker has the mailbox's lock and the
mailbox is connected (`StartsConnected`).

### Runs

| Run | Instance | Question |
|---|---|---|
| `outbox_each` | one message of each kind, one in use in a behaviour; 1 mailbox, 2 workers, 1 crash, 2 attempts (409 000 states up to symmetry of the workers) | does anything leave twice, is a decision taken back, is the delivery record honest, is a disconnected queue empty, is the abstract promise kept? |
| `outbox_queue` | 2 receipts in one mailbox, 1 worker, 1 crash, fair (111 000 states) | does everything queued leave the queue for good, and is everything delivered noticed? |

Bounds: the kinds do not interact except through the mailbox and its lock, so
one message in use at a time, with two workers racing for it, reaches every
interleaving of one message's life; `outbox_queue` adds a second message ahead
of it in the same batch, and its worker may die once, with `SENDING` saved and the
request on its way too.  There no owner loses access (`AccessStays`): a revocation
ends the obligation, and `outbox_each` has its interleavings.  `QueuedSettles`
asks for a status that is neither queued nor sending, so that a message which a
rate limit sends round and round does not satisfy it.  `BatchSize` 2 lets a batch be full and a message left
outside it.  `MaxAttempts` (6 in the code) is 2, so that a first and a last
attempt differ.  `MaxCrashes` 1: after a crash a fresh process runs, whose own
crash is the same case again; the proofs have no such bound.  A message is
purged once and its id not used again.

### Fairness

`Fairness` says only this: a live worker goes on (`while True` of the command);
PostgreSQL serves an advisory lock in order, so that each mailbox's visit comes;
clocks advance; a web request runs to its end; a late answer arrives or is
dropped; and a lookup of a message Gmail has, repeated for ever, succeeds once.
Users, administrators, Gmail's refusals and crashes are under no obligation.
`Blocked` mailboxes are exempt: a message that Gmail filed in another contact's
thread raises at every reconciliation (`worker.py:47`), and backs off its
mailbox for ever, ahead of what is queued behind it.

### Limits of the code that the model shows, and no run is spent on

- `enqueue_google` fails the record of a message in doubt when the mailbox is
  busy (`inventory_mail.py:50`), so that a message that has left can be shown as
  not sent; a retry does not send it again (`AtMostOnce`).
- A mailbox that waits for a reconnection is not visited, so the loss of CRM
  access does not reach its queue (`worker.py:241`) until it is reconnected.
- The contact of a message is the copy loaded with the batch.
- A process that dies between the two statements of a disconnect leaves what was
  queued queued, and a later reconnection sends it: `DisconnectCancels` excepts
  such mailboxes (`halfway`) until somebody disconnects them again, and no others.

## The newsletter

One campaign.  `campaign`, `fresh` and `tally` are its row, `delivery` its
delivery rows, `active` the subscriptions.  A sender is a web request
(`pc`, `todo`, `mem`, `current`): `mem` holds the delivery objects it loaded,
which is what its exception handler trusts.

| Code | Actions |
|---|---|
| `_claim_campaign` from the CRM and the admin page | `ClaimFromCRM`, `ClaimFromAdmin` |
| the loop of `send_newsletter_campaign` | `Load`, `Open`, `Skip`, `Look`, `Accepted`, `Fails`, `SaveSent` |
| its `except` and `finally` | `Abort`, `AbortOne`, `Finish` |
| SIGKILL; SystemExit of gunicorn's timeout, which no handler catches while `finally` runs | `Crash`, `Unwind` |
| `newsletter_edit`, the admin site's change form (`crm/admin.py:246`) | `EditLoad`, `EditSave` (every field of the object it loaded; the admin form with the status that was posted) |
| time, subscribers | `Stale`, `Subscribe`, `Unsubscribe` |

`Stale` requires that no sender is alive: `NEWSLETTER_SEND_STALE_MINUTES` is 30
and gunicorn kills a request after 240 seconds.  With a setting below that,
nothing here holds.

`newsletter_campaign` checks everything with two subscribers, two senders and
any two troubles (a kill, a timeout, a mishap, a racing edit; 623 000 states).
A page is opened to edit while a trouble is left, and one edit races.
Two subscribers are enough for one to be settled and one not; two troubles for
a takeover that fails in its turn.  After a racing edit two live senders can
undo each other's results without end, so the instance has one sender at a time
then; the properties about copies and results exempt such behaviours (`raced`),
`NobodyForgotten` does not, and the proofs cover all of them.  The admin form can
also call a campaign sent, or sending, that is not (`declared`): `NobodyForgotten`
and `SendingEnds` except that, and the instance follows nothing beyond it.
`SendingEnds` assumes that live requests run on, the clock advances, and staff
come back to send an unfinished campaign again from the admin page.

Not modelled: deleting a draft, test sends, duplicating
a campaign, the text of a letter; the deletion of a campaign.

## The payroll

`payable`, `payment`, `runOf`, `known` are `PayableItem` and `Payment` (one to
one, so that a payment has the id of its payable); `run`, `creator`,
`reviewer`, `approver` a `PaymentRun`; `events` and `rejected` the
`ProviderEvent` table; `batch`, `orders` and `money` are the provider's.

| Code | Actions |
|---|---|
| `create_payable_from_session`, `approve_payable` | `CreatePayable`, `ApprovePayable` |
| create, `add_payables_to_run`, `review_payment_run`, `approve_payment_run` | `CreateRun`, `AddPayables`, `ReviewRun`, `ApproveRun` |
| `perform_update` | `EditLoad`, `EditSave` |
| `submit_payment_run`: first transaction, call, second transaction | `BeginSubmit`, `Answer` or `CallFails`, `RecordSubmission` or `Crash` |
| `record_provider_event` | `Webhook` |
| the provider | `Settle` |

The provider honours the idempotency key, as `services.py:470` requires of it:
the first request of a run decides what its batch holds.  It settles, fails or cancels
each payment once (`Outcomes`) and reports each state, in any order and until the report is
recorded.  A webhook is atomic because `select_for_update().select_related(...)`
locks the payment, its payable, its engagement and its run.  Amounts are counted
in payments, all of one tax year, and every engagement is in Florida.  A year without
a federal threshold in the settings (`Configured`; they name 2026 alone) leaves the
total of the year as it was and blocks the engagement's task (`blocked`), from which
nothing in the code takes it back.  Not
modelled: payers, readiness, rates, roles (any member of the staff may try any
step; only `PaymentRun.clean` tells them apart), the creator and the approver
of a payable, and the admin pages.

`payroll_runs` (two runs, two payables, one submitter, 4.2 million states, two minutes; the
threshold of the year comes and goes, the provider also cancels) asks
for safety (the separation of duties and the tax totals are proved, not run), and
that `Ledger` is implemented (`LedgerKept`: a sheet is a run, an item is ordered
when the provider accepts the first request of its run, its money is the
provider's, and it is paid when its payable is);
`payroll_submit` (one run, two payables, two submitters, fair, no cancellations, 123 000 states)
for what concurrent submissions do to each other and for progress; a canceled payment has
no part in either, and its run stays submitted, its payable in the run, for ever.  Nothing
is bounded but the sets.  Members of the staff are
interchangeable, and `Named` calls the creator of a run a1 and a reviewer
who is somebody else a2: a renaming, not a restriction.

Fairness: live requests run on; a preparer submits again what hangs in
submitting, and a call repeated for ever is answered and recorded once; the
provider decides, and repeats a report until it is recorded (it is at-least-once
delivery that `external_event_id` is deduplicated for).

Exemptions, each a limit of the code: a settlement whose event overtakes the
answer of the submission is rejected, and its redelivery dropped as a duplicate
(`SettlementBooked`); an old report after the settlement turns a payment back
and keeps its run open (`RunCloses`); a stale update of a draft (`raced`).

## The Gmail synchronization

One linked mailbox.  Gmail is a log of messages, each named by its place, whose
historyId after k messages is k + 1; `floor` is the oldest history it still
answers for.  `history`, `cursor`, `requested`, `recent`, `ready` are fields of
the `Mailbox`; `conv` a thread's `Conversation`, `stored` the `Message` rows;
`asked`, `reached`, `place`, `todo`, `found` what a visit has in memory.

| Code | Actions |
|---|---|
| push endpoint, sync page, import page, an accepted send | `Push`, `SyncNow`, `Import`, `Send` |
| disconnect, connect, contact deleted or restored, purge | `Disconnect`, `Connect`, `SetDeleted`, `Purge` |
| the visit of `run_pass` | `Visit`, `ReadHistory`, `Leave` |
| `synchronize`, `store_thread` | `StoreChanged`, `Rejected`, `EndChanges`, `List`, `StoreListed`, `PassOver`, `Watch`, `Save`, `Clear` |
| failures, Gmail, time | `CallFails`, `Crash`, `Arrive`, `Forget`, `Time` |

`Save` and `Clear` are the two updates that end a synchronization: the second
clears the request only if it is the one the visit began with.

`gmail_sync` has two threads, the first of which no attempt can store; one
import, one recovered thread and one change of the history for a visit (five,
ten and ten pages in the code), so that the second one meets each limit; two
messages, two requests, and one of a failed call, a killed worker or a loss of
history.  Fairness: the worker's passes go on, and waits end.  Exempt:
`Blocked` mailboxes (a linked thread that cannot be stored ends each
synchronization before its cursor moves, `sync.py:255`), and imports behind as
many failing ones as a synchronization tries (`Crowded`).

## Consultations

The times of one host.  A `Row` is a `ConsultationSlot`, a stretch of quarter
hours; `active` those that families may book; `consulted` and `invited` the two
tables of bookings, which no constraint of the database spans; `windows` the
hours that were opened, `busy` the quarters that saved rules block, `stage` the
link of an inventory.  `holder` is the row lock on the host, held over the network
call that reads the linked calendar.  `offered` and `confirmed` remember what the
host agreed to.

| Code | Actions |
|---|---|
| a page view that publishes and materializes hours: reads, then writes under the lock | `View` |
| `ConsultationBookingView.post` | `PublicCheck`, `PublicRefused`, `LockHost`, `Unavailable`, `Book`, `Release` |
| `InventoryBookingView.post` | `InvitationCheck`, `LockInvitation`, `LinkUnavailable`, then as above |
| the team's page | `OpenHours`, `AddRow`, `Confirm`, `Withdraw`, `Listed` |
| calendar settings, links | `SaveBlocks`, `LinkCalendar`, `Answer`, `Resume`, `Revoke` |
| the calendar's other events, the clock, a killed request | `Outside`, `Tick`, `Crash` |

`DiaryKept` says that these actions implement `Diary`: free are the active rows that
nobody booked, taken are the rows of both tables of bookings, barred are rows that a
saved block touches; each invitation is a family, a guest who may book one
time and is welcome until its link is withdrawn, and the public page stands for all
others.  It is what makes two lists that no constraint joins one calendar.

`WithdrawnStaysClosed` says what the comment in `open_hours.py:139` promises: a time that
a row touches, withdrawn or proposed, comes back only when a person confirms the row or
adds one.  It says nothing of hours that no row touches yet.  Two of them become
bookable although the host did not agree to it, or no longer does: proposed hours beyond
the horizon, at a later view (`ProposalsWait` is false), and hours that were shortened
after a view had read them (`open_hours.py:145`) and before it took the lock.

`consultations` has one post of the public page and two tabs of one link, two
quarter hours, two changes and one trouble: two tabs race for one invitation and
the third request for the same time over the other table.  Its action constraint
`WorthWhile` leaves out steps that repeat others (explained in
`MCConsultations`); liveness is checked within it.  Fairness: strong, of each
request's own steps, since a request that waits for a row lock is served and
lock holders end.  With `PostsEnd` this says that the order invitation, host is
one order.  A crash is a rollback.

Not modelled: several hosts, time zones and clock changes, the calendar's feed,
the deal that a booking moves, mail.

## Social publishing

`status`, `chosen`, `due` are fields of a `SocialPost`, `record` its
`SocialPublication` on a network, `reel` the checkpoint of an upload, `account`
a `SocialAccount`; `mem` is the copy of the checkpoints that a publisher loaded.
`taken` are the submissions that Meta accepted, `live` those that are public,
`lost` those whose answer never came.  A photo, and a Reel on Instagram, is
answered with the id of the public post; a Reel on Facebook is only accepted
(`reel_publishing.py:188`), and is shown as needing attention if it is not public
when the same function asks (`ReelHeld`).  It appears later (`Appears`), and so may
what was accepted after its client gave up.

| Code | Actions |
|---|---|
| composer, reel page, schedule, cancel, delete, accounts | `EditLoad`, `EditSave`, `EditReel`, `SchedulePost`, `CancelSchedule`, `DeletePost`, `Connect`, `Disconnect` |
| `publish_due` | `ListDue`, `ClaimDue`, `EndClaims`, `NextClaimed` |
| post now, retry | `PostNow`, `Retry` |
| `publish`, network by network | `NextNetwork`, `PhotoAccepted`, `Rejected`, `TokenRefused`, `AnswerLost`, `Recorded`, `Finish`, `Unexpected` |
| `publish_reel_step` | `ReelKnown`, `ReelHeld`, `ReelStart`, `ReelCreated`, `ReelUploaded`, `ReelSubmit`, `ReelAccepted`, `ReelPublished` |
| a killed process | `Crash` |

`social_publish`: one photo and one reel for two networks, a worker and a web
request, any three requests of the staff and faults.  One post of each kind is
enough for each to be first and second in the list of a worker; three troubles for
an attempt that fails, one that strands and a retry; the proofs have no bound.  What
the program never asks about appears at once in this run (`UnseenAtOnce`), so that
only Reels on Facebook appear late; the proofs let everything.  Fairness: the cron
and live requests.  A post stays in publishing, and no page offers to retry it, when
its publisher was killed, and when it was a request (post now, retry) that ended in
an exception other than `SocialError` and answered 500 (`services.py:458`,
`views.py:464`): both are `stranded`, which `DueIsDecided` exempts.  What it says is
that no other post stays there: a pass that fails unexpectedly puts its post back.  A photo whose answer was lost may be doubled by a retry by hand, and
only so (`lost`).

`BoardKept` says that the publishing implements `Board`: a post is out while it is
publishing (for ever, if it is stranded), wanted where `chosen` says, told
where its record says published, and `lost` copies are unheard.  So a composer never
changes the networks of a post that is on its way, a network receives nothing that
was not chosen for it when the post was claimed, and posted means told of all of
them.  It does not say that a post which is back with the staff is not public: a Reel
that was recorded as failed, or deleted since, may appear.

## The content plan

A week has at most one post, which goes by its name.  `mode` and `preview` are
the plan's, `allowed` and `connected` what `validate_plan` asks for; `review`
the verdict of the AI's check; `form` a post that a composer loaded; `chosen`,
`revived`, `skipped`, `calls` remember who decided what.

| Code | Actions |
|---|---|
| plan page, week buttons | `SavePlan`, `RequestPreview`, `SkipWeek`, `RetryWeek` |
| composer and publishing pages | `EditLoad`, `EditSave`, `SchedulePost`, `CancelSchedule`, `DeletePost`, `PostNow`, `Connect`, `Disconnect`, `LoseRights` |
| `maintain_content_plan` | `BeginPass`, `ScheduleReady`, `ScheduleStops`, `Recover`, `Pick`, `GiveUp`, `Reschedule`, `EndPass` |
| `_generate_week` | `StartGenerate`, `Write`, `Review`, `CreatePost`, `Fail`, `Crash` |
| `publish_due` | `ClaimDue`, `Settle` |

`social_plan`: two weeks, one worker (`OneWorker` is proved for any number), two
requests of the staff and two crashes or failures, three in all; two attempts
(three in the code): one that is repeated after its wait, and the last one, after
which a week is given up; a composer open on the first week (785 000 states).  Fairness: the
cron's passes and the end of waits.  The liveness property speaks of a plan that
`Runs`: one that is saved by somebody who still may, with its accounts connected,
and without a draft that can not be published, which raises in every pass before
any week is generated (`planner.py:235`) until its time has passed.

## Scheduling

`place`, `consent` and `open` are what the optimizer reads; `proposal` the
`ScheduleGroupProposal` by signature, `booking` the `ScheduleBooking` rows,
`remote` Acuity's appointments; a request (`pc`, `mem`) holds the rows it loaded
while it calls Acuity or while a form is open.

| Code | Actions |
|---|---|
| the search, with its helpers as operators | `Generate` (`Candidates`, `GroupFrom`, `Best`, `Offer`) |
| `approve_proposal` (check under locks, commit), `reject_proposal` | `ApproveCheck`, `ApproveCommit`, `Reject` |
| bookings by hand, updates and deletions | `CreateBooking`, `ApproveBooking`, `EditLoad`, `EditSave`, `DeleteBooking` |
| the admin's form of a booking | `Overrule`, then `EditSave` |
| `sync_booking` | `SyncLoad`, `Accepted`, `Lost`, `Refused`, `SaveSynced`, `SaveError` |
| reconciliation | `Pull`, `Apply` |
| the world | `ChangeWorld`, `ChangeAppointment`, `Crash` |

`scheduling`: three children in a row of places, two specialists, two starting
times that overlap, groups of two, two requests, one booking by hand, two
appointments, one change or trouble (295 000 states).  Three children and two
specialists give two groups that share a child; the bounds `Searches`,
`HandMade`, `Forms`, `Rulings`, `Moving` and `Withdrawing` and the constraint `WorthWhile` take
steps that differ only in names once (`MCScheduling`).  Fairness: live requests run on, an
operator repeats a synchronization, and Acuity, asked for ever, once accepts it.
An update writes the child, the specialist and the time of its form and, as they
were loaded, the fields that are not in it; the admin's form writes the status and
Acuity's id too; a row deleted meanwhile is inserted again.  Exempt: bookings whose
row an update overwrote (`edited`); those that somebody deleted (`removed`), which
any evaluator can do to one booking of an approved group: the group is booked in
part from then on, and a synchronized booking leaves an appointment in Acuity that
nothing knows; rows written in the admin's form (`overruled`), for what was
published; and appointments after a lost answer, a death or two synchronizations
at once (`excused`).  What stands without an exemption is what the approval itself does:
it books every child of the group or none, also when it finds a booking deleted.
`BestIsLargest` compares the optimizer's walk with the groups of one child more
than it found (a part of a group that fits, fits as well).

## Sessions

One reader.  `sessions` are the `Session`s (`made` counts the rows ever made, since
an id is not used again), `revisions` the `SessionRevision`s, `observations` the active `SkillObservation`s, `flags` the `GrowthFlag`s.  A
web request reads a session, the revision number, the previous status and writes,
in four steps, as `save` and the signals do; an evaluation is queued at commit.

| Code | Actions |
|---|---|
| `rapid_log`, again with the same `client_request_id` | `Send`, `Insert` |
| `SessionSerializer.update`, `AuditedModel.save`, signals | `Load`, `ReadRevision`, `ReadStatus`, `Write` |
| deletion | `Delete` |
| `evaluate_completed_session` and the engine | `Take`, `Judge`, `Store`, `Notify` |
| `evaluate-session`, the command `run_decision_support` | `Evaluate`, then `Judge`, `Store` |
| a leader's answer | `OpenFlag`, `AnswerFlag` |

`lesson` is when the session took place, `key` the `client_request_id`: the device
logs lesson k under key k, an edit may write another key.  A log whose key was taken
after its lookup is answered with the session found, or with a 400 (the checks of
the serializer) and no session.  An evaluation runs in a Celery worker or, whenever somebody
asks, in a web request or the command; `Workers` are all of these.

`session_lessons`: three lessons at two positions, two requests, two workers, one
leader; a streak is two lessons (three in the code) so that a third can end or
extend it; a behaviour spends two on what is not the usual (other contents, late
logs, edits, deletions, retries, lost evaluations, evaluations somebody asks for;
710 000 states, under four minutes).  `WorthWhile` (`MCSessionLogging`) takes once
what differs in names only, lets workers and leaders rest while a request is between
its reads (they have no row in common but those that a save changes), and
starts the second worker when a third lesson gives it something else to judge.
Fairness: Celery serves its queue, and an evaluation that began runs to its end.

`ReviewRequested` exempts evaluations that were never queued, streaks with a session
that was changed or deleted after its completion, which queues nothing, and streaks
that a flag did show (`overtaken`): an evaluation that had judged before them and
stores after them puts its older evidence over theirs, nothing in `_store_flag`
compares the two, and no later evaluation need come.  `RetriesAgree` exempts keys whose
session was deleted or got another key: the next retry makes a new session.  Of the
engine's six rules, `three_reteach_sessions` is modelled; all six are stored alike.

## Proofs

TLC checks instances; the proofs hold for every value of the constants that
satisfies the assumptions of the modules: `ConstantAssumption` in most,
`NumbersAssumption`, `BeginningAssumption`, `BoundsAssumption` and
`NamesAssumption` in `Scheduling`, `LessonsAssumption` and `InputsAssumption` in
`SessionLogging`.  They say that bounds are numbers, that sets which the code keeps
in one table are finite, that what an instance may choose is of the right type, and
that a model value which stands for "none" is none of the others.  Every bound is a
constant, so that a proof holds without one.

Every invariant, action property and refinement that a passing run checks is also
proved; what is left to TLC is liveness.

| Run | Proved | Only model-checked |
|---|---|---|
| `outbox_each` | `AtMostOnce`, `DeliveryHonest`, `DisconnectCancels`, `NoRecall`, `PromiseKept` | - |
| `outbox_queue` | - | `QueuedSettles`, `DeliveredIsNoticed` |
| `newsletter_campaign` | `NobodyForgotten`, `CopiesExplained`, `SettledStays` | `SendingEnds` |
| `payroll_runs` | `LedgerKept`, `BatchIsReviewed`, `BooksAreTrue` | - |
| `payroll_submit` | `OutcomeStays` | `SettlementBooked`, `RunsEnd` |
| `social_publish` | `PhotoCopiesExplained`, `ReelOnce`, `BoardKept` | `DueIsDecided` |
| `social_plan` | `SendsWhatIsAllowed`, `SkippedStaysEmpty` | `WeeksSettle` |
| `gmail_sync` | `PushSurvives`, `Accounted` | `CatchesUp` |
| `consultations` | `BookedOnce`, `DiaryKept`, `WithdrawnStaysClosed` | `PostsEnd` |
| `scheduling` | `GroupsHold`, `ChildOnce`, `AppointmentsExplained`, `BestIsLargest` | `ApprovedGoesOut` |
| `session_lessons` | `RetriesAgree`, `RecordsAgree`, `AnsweredStays` | `ReviewRequested` |

Fairness and ENABLED, on which each property of the last column rests, are out of
the prover's reach.

Proved without a run of their own are type correctness and the inductive
invariants, and `Exclusion`, `BatchFresh`, `NothingLeftBehind`, `StartsConnected`,
`ResultTrue`, `SnapshotOnce`, `OrderedOnce`, `SeparateDuties`, `TotalsAreTrue`,
`AllSettledCloses`, `PublisherOwns`, `PublishedIsLive`, `PublishedStays`,
`ForTheChosen`, `QueueIsOwned`, `CallsBounded`, `OnlyLinked`, `OnePlaceAtATime`,
`BookedStaysActive`, `BlocksAreKept` and `RevokedStaysOut`.

### The argument, module by module

`EmailOutboxProofs`: an invariant such as `AtMostOnce` is not inductive: it says
nothing of what is on the wire, so a step from an unreachable state with a
queued message on the wire breaks it.  `IInv` adds what keeps status, wire and
Gmail's ledger in step (`Ledger`), what a worker that posts knows (`InHand`),
that locks exclude and the batch is fresh (`Exclusion`, `BatchFresh`: without
them a second worker, or a cancellation, acts between the load and the send),
and what the delivery record remembers (`Records`).  There is a lemma for each
action, grouped by what it can disturb, `Invariance` combines them, and the
properties follow.  Then come the refinement step by step (every action maps to a
step of `OutboxPromise` or a stutter, given `IInv`), the two action properties, and
`DisconnectCancels` and `StartsConnected`, whose own invariant is that a worker which works on a batch
does so in a mailbox that nobody disconnected, because whoever disconnects one
found its lock free: otherwise its answer would put a message back in the queue
after the disconnection had emptied it.

The other proof modules follow the same plan with their own `IInv`:

- `NewsletterProofs`: what rows and objects in memory say is true (`Honest`), a
  sender has in hand or has dealt with what is pending (`Covered`), and without
  a racing edit it is alone (`Alone`).
- `PayrollProofs`: rows and batches agree (`Rows`, `Batches`), signatures come
  before the status that needs them (`Signed`), and without a racing update a
  run only goes forward (`Forward`).  `KeepsLedger`: the orders of a batch are the
  payables of its run, an accepted request is the first of its key or changes
  nothing, and a report books only what the provider decided.
- `SocialPublishingProofs`: a post in publishing has one publisher, whose
  checkpoints are the row's (`PublisherOwns`); what it does fits what it holds
  (`Progress`); each copy is in the books (`PhotoBooks`, `ReelBooks`), an
  answer is true (`AnswersAreTrue`), and a stranded post stays (`StrandedStay`:
  without it an edit could take a post from under its dead publisher, whose copy
  nobody accounts for).  `KeepsBoard` needs one invariant more (`ForTheChosen`): what
  a publisher has still to do is for networks that the row still names.
- `ContentPlannerProofs`: one worker, which has what it works on (`OneWorker`),
  and what the plan scheduled belongs to an automatic plan (`PlanOwns`).
- `GmailSyncProofs`: what a visit has read covers what it is about to save
  (`VisitCovers`): the cursor in memory, with what is still to do, accounts for
  each message, and a request that stands unchanged was read for.
- `ConsultationsProofs`: the lock is held by the request about to book and what it
  read still holds (`LockIsHeld`), an invitation is worked on by one request
  (`InvitationIsHeld`), and what a request wants is a row (`ChoiceIsRow`).
  `KeepsDiary` maps each action: opening, confirming and a view open times that
  clash with no other (`OnePlaceAtATime`), a booking takes one that the lock kept
  free, and nothing else touches either list.
- `LessonProofs` has two parts.  For `Scheduling`, a copy that a request holds may be
  stale, but agrees with its group about whether that was approved
  (`GroupsAndRows`); an approval under way excludes the approvals of its children
  (`LocksHold`: `ChildOnce` follows for the moment of the commit); and a booking that
  nothing excuses has one request at Acuity (`OneRequest`).  `BestIsLargest` is about
  the data and needs no invariant but the types: the queue sorted by place visits,
  for each child, the largest group that begins with it, and a group of one more
  child than the best would begin with one of them; least elements of sets of
  naturals (`WellFoundedInduction`) stand for the induction over the queue.  For
  `SessionLogging`, the answers given for a key lead to the session that has it, until
  that is deleted or gets another key (`AnswersLead`); a save that loaded a session
  before it was deleted inserts it again, and any save changes a key, only while
  no other session has that key (`OneSession`); the write of a
  save files its snapshot under the number it puts on the row, whatever others wrote
  since it read the number, which keeps the three records together.

## Disagreements found

One is a run that TLC refutes, with the line it contradicts in `PROJECT.json`:
in `consultations_proposals`, hours that a super administrator proposed for
another host become bookable, unconfirmed, when a later page view materializes
the part of them that was beyond the horizon
(`crm/open_hours.py:139` against `docs/CRM_PARENT_INVENTORY.md:78`).

The models contain the following as well.  The properties exempt them, under the
name given, and no run is spent on them.

| Where | What happens |
|---|---|
| `crm/website_emails.py:227` | the purge deletes the message of a confirmed submission, and the worker confirms it again |
| `crm_email/views.py:918` | a cancelled message leaves its delivery record queued: a queryset update sends no signal |
| `crm/newsletters.py:353` | gunicorn's timeout closes a campaign as sent with deliveries that never went out (`unwinds`) |
| `crm_email/views.py:561` | the CRM's send page never resumes an interrupted send; the admin page does |
| `crm_email/views.py:506` | a stale edit makes a draft of a campaign that was sent (`raced`) |
| `workforce/views.py:313` | a stale update makes a draft of a run that was reviewed, approved or submitted (`raced`) |
| `social/views.py:317` | a composer opened before a pause saves the schedule that the pause withdrew (`revived`), against `docs/SOCIAL_CONTENT_PLAN.md:20` |
| `social/planner.py:368` | a week that is skipped while the worker gives it up shows an error |
| `social/services.py:438`, `:458` | posts of a killed publisher, and of a request that ends in an unexpected exception, stay in publishing (`stranded`) |
| `scheduling/optimizer.py:316` | two groups of one specialist with different children, approved at once, are both booked: the children are locked, the specialist is not (`ChildOnce` speaks of children) |
| `scheduling/views.py:202` | deleting one booking of an approved group leaves the group booked in part, and a synchronized one leaves its appointment in Acuity (`removed`) |
| `scheduling/admin.py:62` | the admin's form writes a booking's status and Acuity's id (`overruled`) |
| `scheduling/views.py:72` | an update of a booking saves every field of an object read before (`edited`) |
| `decision_support/views.py:141` | a flag resolved after it was read for an acknowledgement goes back to acknowledged (`AnsweredStays` says only that it is not opened again) |
| `decision_support/engine.py:343` | an evaluation that judged earlier stores its evidence over newer evidence of the open flag (`overtaken`) |
| `sessions/serializers.py:141` | an edit may give a session another `client_request_id`: a retry of its log makes a second session (`gone`) |
| `sessions/models.py:60` | two saves that read one revision number overwrite the snapshot of an "immutable" revision (`RecordsAgree` speaks of the current one) |

`PROJECT.json` lists forty hazards; the code has more, among them: five
old messages in doubt fill every batch of a mailbox (`crm_email/worker.py:291`); a
subscriber opts out between the check and the send (`crm/newsletters.py:317`); a
payment that the provider left out of its answer is submitted with an empty id
(`workforce/services.py:484`); five failing imports starve the ones behind them
(`crm_email/sync.py:274`); an inventory is resumed while its booking waits
(`crm/inventory_views.py:727`); a caption is edited after the AI's review
(`social/planner.py:233`); a reconciliation confirms a booking again that was
cancelled after its pull (`scheduling/services.py:252`); the ranked list of
proposals is cut before those that exist are left out (`scheduling/optimizer.py:246`);
a session deleted between its load and its save is inserted again
(`sessions/models.py:65`).

## Not modelled

- *Placement* (`curriculum/placement.py`): one transaction over one child's rows
  whose outcome is a table of thresholds.  A recommendation can be regenerated
  while it is confirmed (`placement.py:444`, `curriculum/views.py:191`), because
  its status is checked before its lock.
- *The blog's plan*: a second copy of `social/planner.py`; articles are published by
  a date.
- *Users, invitations, consent*: an invitation is used under its row's lock in
  one transaction; nothing is left between two steps.
- *Assessments, outcomes, progress, predictions, the other rules of decision
  support*: sums and thresholds over recorded rows, recomputed from them.
- *CRM pages*: forms that load, check and save one row, without a protocol; where
  one does interact with a queue it is an action of a module above.  These pages,
  the portals, the seed and demonstration data, the serializers and the
  composition of text make up most of the repository's lines, and the reason why
  the models cover a small share of them.
- Of the modelled components: children's own availability and the waitlist of the
  scheduler, its second calendar provider (an update that changes the provider of a
  booking takes it out of the reconciliation), the admin's forms of proposals and the
  change of a booking's proposal there, other
  centers and lengths of a lesson, carousels as such, the production of a reel's video, several hosts,
  the OAuth states of Gmail and Meta, attachments.

## Plan

Done: the outbox, the payroll, consultations and social publishing, each with an
abstract specification that it is proved to implement; the newsletter, the Gmail
synchronization, the content plan, scheduling and sessions with their inductive
invariants; all safety properties of the runs proved.  Next, most important first:

1. Abstract specifications of the newsletter ("everybody on the list gets one
   letter, or one more for each acceptance that was not recorded") and of the
   Gmail synchronization (a reader with a bookmark that never passes what it owes).
2. `ContentPlanner` and `SocialPublishing` over one set of posts: that each keeps
   what the other sees of it.
3. `Placement`: the placement rules as functions against their reference.
4. Invitations and the concurrent regeneration of a placement.
