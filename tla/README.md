# A TLA+ model of tes-taker

tes-taker is a school platform: a NestJS API and a worker process over PostgreSQL (TypeORM),
Redis and BullMQ (`backend/`), and a Next.js web client (`frontend/`).  API handlers run at the
same time in several Node processes; inside one process they interleave at every `await`.  The
worker runs scheduled and queued jobs beside them.  All shared state is in PostgreSQL rows, Redis
keys and queue entries, so the questions worth a model are about what overlapping handlers, jobs,
retries and crashes do to those.

## 1. Inventory

| Component (backend/src) | State it keeps | Operations | What is hard | What makes it correct |
|---|---|---|---|---|
| exam taking (`exams/student-exam.service.ts`) | submission and answer rows | start, autosave (one answer, whole sheet), submit, violation, auto-submit job | handlers and the job overlap; entities saved long after they were loaded; deadline and grace | cap respected; fixed deadline; nothing accepted late; finalised once with the right score; every attempt ends |
| grading (same file) | marks of answers, totals | open for grading, save grades, publish | stale save while another request stores grades | published results are fully marked; totals add up |
| exam authoring and its paper cache (`exams/exam.service.ts`, `exam-paper-cache.service.ts`) | exam row, its Redis copy | rewrite, switch, exclude, publish; get, invalidate | read–invalidate–set race, failed DEL | a student sees the current paper |
| outbox and dispatcher (`notifications/`) | outbox rows | enqueue, dispatch, sweep | crash between sending and recording, late finish against the sweep, lost answers of the provider | every message ends; sent at most once; secrets forgotten |
| SMS credits (`notifications/sms-credits.service.ts`) | ledger per organisation | grant, charge, refund, top-up | concurrent spenders, month roll-over between charge and refund | no overdraft; charged and refunded once |
| payments (`modules/payment`) | payment rows | start, success/fail/cancel/IPN callbacks | duplicate and reordered callbacks; activation in another transaction | settled once; paid means activated |
| subscriptions, entitlements (`subscriptions/`) | subscription rows, Redis copy of entitlements | subscribe, confirm, activate, cancel, expire | two activations at once, crash between two saves, stale cache | at most one active subscription |
| attendance (`attendance/`) | session, record and leave rows | check-in, mark, close, cancel, apply/decide leave | the closing job against check-ins and approvals | approved leave is never absent; closed days do not change |
| homework (`homework/`) | homework, hand-in and score rows | publish, edit, withdraw, hand in, score, sweep | whole-entity saves against the sweep | a withdrawn homework stays withdrawn; scores belong to the latest hand-in |
| files (`files/`, `storage/`) | file rows, objects | reserve, complete, process, remove, sweep | job ids kept after failure, sweep against a late complete | no ready file without an object |
| authentication, OTP (`auth/`, `sms/`) | codes and counters in Redis | send, check, consume, lock | read-modify-write of counters, one code used twice | a code works once; lockout holds |
| enrolments (`academics/enrolments.service.ts`, `classes/`) | enrolment rows | place, invite, claim, approve, leave, promote | rows saved by id after they were read; invitations that match two accounts | nobody loses a place but by removal or promotion |
| organisations, classes, teacher requests | memberships, invitations | invite, accept, remove | two accepts | one live membership |
| calendar, reminders | events, slots, outbox keys | sweep | down-time, rescheduling | reminded once |
| throttler, audit, dashboards, health, e-mail, storage drivers, migrations, web client | – | – | – | not modelled (see section 8) |

Components meet in few ways: the exam job, the sockets and the HTTP handlers share the submission
rows; everything that tells somebody something inserts outbox rows in its own transaction; the
dispatcher charges the credit ledger inside its claim; payments settle top-ups and activate
subscriptions; entitlements decide caps and monthly allowances.

## 2. Plan

1. `AttemptPromise`, `ExamAttempt`, `ExamAttemptProofs` – the core: taking an exam. **Done.**
2. `SmsCredits`, `NotificationDispatcher`, `DeliveryPromise`, `NotificationProofs`,
   `DeliveryProofs` – the credit ledger, the outbox dispatcher that charges it, and what they
   promise together.  **Done.**
3. `Billing` with `CacheAside` – payments, the subscriptions they activate, the cached
   entitlements – and `PaymentPromise`, what the payments promise. **Done.**
4. `AttendanceDay`, `Homework`, `FileUpload` (with `FilePromise`), `ExamPaper` (with
   `CacheAside`), `Grading`, `Enrolments`, composed in `MCSchool`. **Done.**
5. Left: attendance with substitutes and changed times, subject rosters, memberships of
   organisations, calendar reminders.

Theorems: the inductive invariants of `ExamAttempt` and `NotificationDispatcher` and what follows,
the refinements of `DeliveryPromise`, `AttemptPromise`, `PaymentPromise` and `FilePromise`, and all
safety of the modules of steps 3 and 4, types, counts and sums included (section 6).

## 3. Modules

**`AttemptPromise`** is the abstract specification: per student a phase, the last accepted sheet and
the score; start while there is room, accept, finalise once with the score of that sheet.

**`ExamAttempt`** models `student-exam.service.ts`.  A process is an HTTP handler (`Request`) or the
worker's `exams.auto-submit` job (`Job`).  `proc[p]` holds what the handler has loaded and the await
it stands at.  The correspondence:

| TLA+ | Code |
|---|---|
| `sub` | `student_exam_submissions`: status, stored `effective_deadline`, and the sheet its total was computed from |
| `ans` | `student_exam_answers` of one submission: the answer, and the answer its stored marks belong to |
| `examLock` | the `FOR UPDATE` lock of the exam row in `startExam` |
| `MayAccess` | what `validateExamAccess` asks of the attempt and the time: every request passes it first |
| `StartExam`, `LockExam`, `CountStudents`, `InsertAttempt` | `startExam`: access check, then lock, count, insert |
| `SaveAnswer`/`WriteAnswer`, `SaveAnswerSheet`/`WriteSheet` | the two autosaves: check on arrival, check and write under the submission's row lock |
| `Submit`/`SyncSheet` and `LoadForScore` … `Claim` | `finalizeAnswerSheet` and `completeSubmission` |
| `ReportViolation`/`SaveViolation` | `reportViolation` |
| `JobQuery`, `JobTake` | `autoSubmitExpired` |
| `Fail(p)` | an await that throws, or the death of the process |
| `accepted` | history: the last sheet for which a save returned success, and when |

Abstractions, all of them on data: an answer sheet is one value (a sheet is either this or that);
marks are represented by the sheet they were computed from; clearing an answer is left out; the
time is a small integer.  `repository.save(entity)` writes the entity as loaded: TypeORM compares it
with the row of the moment and updates every column that differs, so a stale copy wins.
Consecutive reads without a write between them that anybody could tell apart are one step, and a
transaction that takes the row lock first is one step.  There is one job process because the exams
queue has one worker with concurrency 1; the job's page size is left out (what does not fit is
taken a minute later).

**`SmsCredits`** models `sms-credits.service.ts` for one organisation.  `ledger` is the balance of
the two buckets and the month of the newest grant; `charged`, `refunded` and `paid` stand for the
SEND, REFUND and TOPUP rows, which the code looks up to do each thing once.  `Granted` is
`ensurePeriod`: it runs first in every operation but the refund.  Each operation is one transaction
under `pg_advisory_xact_lock`; `TopUp`, `GrantMonth` and `Refund` need nothing else, so they are one
step that waits for `creditLock`.

**`NotificationDispatcher`** models `notification-dispatcher.service.ts` and the enqueueing of rows.
A worker (`worker[w]`) is one running `dispatch`, of the five the queue allows or of the sweep.

| TLA+ | Code |
|---|---|
| `rows`, `wait`, `age` | `notification_outbox`: status, attempts, `credits_used`, whether the payload holds a code; the time until `send_after`; the time since `updated_at` of a row that is SENDING |
| `ClaimUnreachable`, `ClaimInApp`, `ClaimFree` | `claim` where it ends without touching credits: one transaction |
| `ClaimSms`, `LockCredits`, `Charge` | `claim` of an organisation's SMS: the row locked `FOR UPDATE SKIP LOCKED`, then the advisory lock and the balance, then the writes and the commit |
| `Send` | `SmsService.deliver` / `EmailService.deliver`: refused, taken, or taken with the answer lost |
| `FinishSent`, `FinishRetry`, `FinishFailed` | `finish`, with the refund in its transaction |
| `SweepStale`, `Claim(m)` | the two halves of `sweep`; `Claim(m)` is also the job of the row |
| `Fail(w)` | the worker dies, or an await outside the `try` throws (`finish` is returned, not awaited, inside it) |
| `accepted` | history: how often the message got through |

`finish` saves the entity `claim` loaded, so a slow worker overwrites what the sweep wrote: the
model saves the worker's copy.  Left out: the low-credit e-mail (it only enqueues a row), `ADJUST`
(never written), the sweep's batch of 200 (what does not fit is taken 30 seconds later), the choice
of channels and the dedupe key at enqueue, and the text of a message, which only shows as the
number of credits it costs.  An address or a template a first attempt found is there at the next:
the address is kept in the row and templates fall back to the built-in ones.

**`DeliveryPromise`** says what sender and ledger promise together, without workers, retries or
locks: a message waits until it is settled, once and for good; an SMS is paid before it goes out and
refunded only by failing.  The refinement mapping takes PENDING and SENDING to "waiting", and reads
"none", "taken" or "returned" off the ledger.

**`CacheAside`** is one Redis key: readers `Load` a value from the database and `Fill` the key with
it later; writers `Drop` the key, or `Miss` when the DEL fails.  `tainted` is the history of what may
leave an old copy behind.  `Billing` and `ExamPaper` use it.

**`Billing`** is the plan of one organisation.

| TLA+ | Code |
|---|---|
| `subs`, `manual` | `account_subscriptions`, and the manual payments of `payment_history` |
| `pays`, `gateway`, `credited`, `booked` | `payments`, the gateway's side, TOPUP rows, and the `payment_history` rows of activations |
| `Subscribe`/`InsertPending`/`RecordReference`, `Replace`, `Confirm`/`SaveConfirmed` | `subscribe`, `assignPlan` and `cancelSubscription`, `confirmPayment` |
| `Find`, `CancelPrev`, `Write` | `findActiveSubscription`, and the separate saves of `swapToActiveSubscription` and its relatives |
| `RecordAssigned` | the payment `assignPlan` records between the new plan and the DEL |
| `Settle`, `Terminate` | a callback begins its transaction: `settlePayment`, `markTerminal` |
| `LockRow`, `MarkTerminal` | it gets the payment's row, for which it may have waited |
| `Validate`, `Book`, `Commit` | the rest of `settlePayment` |
| `Holding`, `Connection`, `ConnectTimeout` | the pool: a callback keeps one connection from the start of its transaction, while it waits for the row and while its activation needs others |
| `GiveUp` | `activateSubscriptionIfNeeded` logs what the activation throws |
| `LoadEntitlements`, `CacheEntitlements`, `ExpireEntitlements` | `getEntitlements` |

`AfterValidation` is shorter than the code's order of calls: credits of a pack are added in the
transaction that sets PAID, so they are part of `Commit`.

**`PaymentPromise`** is what a payment promises, with no callbacks, transactions or connections: what is
bought is fixed when the payment is stored, it may fail at any time and still be granted once, when all
of its price has arrived, and a pack is credited in the step that makes its payment PAID.  The refinement
mapping reads `status` and `item` off the payment rows, `received` off the gateway and `credits` off the
TOPUP rows.

**`AttendanceDay`** is one day of a section with self check-in.  A handler that checks before its
transaction is two steps (`CheckIn`/`SaveCheckIn`, `AskOffice`/`CancelClass`, ...); a transaction under
the session's, the record's or the person's lock is one.  `run[r]` is a run of the closing job or of the
end-of-day job: what it read at its start (`calendar`, `todo`) is used class by class.  A request let through
is answered before the night; Present and Late are one status.

**`Homework`** is one homework and one student.  Staff and the teachers save what they loaded
(`LoadHomework`/`SaveHomework`, `LoadHandIn`/`SaveGrade`); the job claims with a condition in its UPDATE
(`ClaimDue`).  A hand-in locks the homework's row, reads the versions and checks (`HandIn`), and then
inserts one (`SaveHandIn`).  Whoever updates the homework's row waits for it (`RowUnlocked`); those who
score or return a version take no lock, so their writes may fall between the two.  Publishing the scores is
a check and a later update, too (`MayPublishScores`/`PublishScores`).

**`FileUpload`** is the storage of one organisation: reservation under an advisory lock, the browser's
PUT, completion, the job with its tries, BullMQ's stalled-job check and its memory of job ids
(`job[f].state = "kept"`), and the sweep.  The browser's PUT is one step, of any size, and it may be
repeated with other bytes, since the URL stays valid for 15 minutes (`Put`, counted by `puts`).  `complete`
is three steps: it loads the row, asks the store for the size (`ReadSize`), and then updates the row by its
id, with the sizes or to FAILED (`StoreSizes`, `RefuseSize`), whatever the row has become.

**`FilePromise`** is what uploads promise to those who look at a file: reserved, uploaded, READY in this
order; before that it may fail; FAILED and removed are final, and READY is unless the bytes were replaced
(`Revoke`).  The refinement mapping (`PhaseOf`) tells reserved from uploaded by whether the completion has
stored the original's size; bytes are replaced by a second PUT.

**`ExamPaper`** is one exam: requests load it, and save all of it later, questions included
(TypeORM cascades).  A rewrite deletes the questions and reads the exam again in its transaction
(`ReadForRewrite`), drops the copy before the commit (`Rewrite`), and commits the exam it read with new
questions (`CommitRewrite`): what others committed in between is overwritten.  `View` is what the cached
graph holds of it: the paper, who is excluded, and whether it is switched on.

**`Grading`** is one submitted sheet.  Marks are rows of their own; `total` and `graded` are
columns of the submission that every request saves as a whole (`SaveSheet`, `SaveLook`).  A request may be
refused at a mark after it saved others (`RejectMark`) or die anywhere (`DropMarking`); `torn` says that
the sheet may not add up since then, until a request that works alone saves marks to the end.

**`Enrolments`** is one class in an old and a new session.  `Place`, `Claim`, `AskStatus` and
`Promote` are what a request reads, `Save…` what it writes by id; `OneRowEach` is the unique index, and
a transaction that breaks it is rolled back.

**`MCExamAttempt`**, **`MCNotificationDispatcher`** and **`MCBilling`** add the symmetry sets TLC uses
in runs without liveness.  **`MCSchool`** puts the six modules of
step 4 together.  They share no state, so their interleavings would be the same states over again:
a behaviour works at one `desk`, chosen at the start, and the others rest.  TLC so checks every
behaviour of every module, with the fairness of its jobs.

**`ExamAttemptProofs`**, **`NotificationProofs`**, **`DeliveryProofs`**, **`BillingProofs`**,
**`AttendanceProofs`**, **`SchoolProofs`** and **`EnrolmentProofs`** hold the proofs, and
**`SetLemmas`** what several of them need of finite sets, minima and sums.

Operators named `Bug…` are plausible mistakes in the definition after them; no action uses them.

## 4. Runs

| Run | Shows | Bounds |
|---|---|---|
| `attempt_cap` | the locked count admits no third student to two places; neither a second start nor a stale save moves a deadline | 3 students, 3 requests at once, 5 in all, one failure |
| `attempt_all` | with every endpoint and the job overlapping, and a handler or the job's process failing anywhere: types, nothing accepted late, the job waits for the grace, and attempts whose finalisation failed or that a stale save reopened are finalised in the end, for good | 1 student, one kind of question, 2 requests at once, 3 in all, clock 0–3, one failure |
| `attempt_promise` | every endpoint and the job, as long as nothing else works on an attempt while it is finalised, but starts, which find it started, and saves that come too late when the job does it (`FinalisedAlone`): answers kept, the promise kept | 2 students, interchangeable, 2 requests at once, 4 in all, one failure |
| `attempt_submit_twice` | counterexample: two finalisers, the attempt is reopened | – |
| `attempt_save_during_submit` | counterexample: a sheet accepted during a submit is not scored | – |
| `outbox_credits` | two workers, slow ones and a crash included, a top-up and the turn of a month: no overdraft, top-ups kept, log and ledger agree, one sender, one charge | 2 SMS of 1 or 2 credits, 2 attempts, allowance 1, pack 1, 2 months |
| `outbox_promise` | with prompt workers and no lost answers: each message at most once, every message settled whatever is refused or interrupted, and the promise kept | an SMS, a code, an in-app message; 2 workers, one failure |
| `outbox_code_kept` | counterexample: a swept row keeps its code | – |
| `credits_old_allowance` | counterexample: a refund brings last month's allowance back | – |
| `billing` | callbacks repeated, out of order and waiting for each other, short payments, an empty pool, a failure anywhere, a reader beside: credits once, the promise of payments kept, no plan without its price, one active plan but by overlap, no operation forgets the cache, every request ends | 1 payment, 2 plan rows, 2 handlers, 3 requests, 2 connections, one failure |
| `billing_paid_not_activated` | counterexample: two settlements hold the pool and activate nothing | 2 payments, 1 plan row, 2 handlers, 2 connections |
| `school` | the properties of the six modules of step 4, and `JobsCatchUp` | see below |

Bounds of the attempt runs: overlapping needs two requests and the job; three requests let a student start, save and
submit (or submit twice) around it.  Students interact only through the cap, where three students
and two places are the smallest case of two racing for the last place with one in already.  The
clock is long enough for the deadline, the grace and the job's turn after it; `MaxTime`,
`MaxRequests` and `MaxFailures` bound the model and nothing else.  Runs disable the deadlock check:
when the bounds are used up everybody may be idle.

Bounds of the outbox runs: two workers and two messages are the smallest race for the last credit.
With an allowance and a pack of one credit each and costs of one or two, a message may empty one
bucket, take from both, or find too little.  Two attempts instead of three still have a first, a
retry and a last failure.  Delays and the stale limit are one tick, so that each may come before or
after the other; `wait` and `age` are relative, so no clock has to be bounded.  Two months have one
turn, which may fall between any two steps.

In `attempt_all` all questions are marked by hand, which leaves out only the scoring of answers; the other
attempt runs have it.

Bounds of `billing`: two handlers and two connections are the smallest pool that callbacks can exhaust,
one at work and one that waits for the row of the same payment; two plan rows allow a change of plan over
an active one; three requests let a change follow an overlap.  Payments meet in the pool and in the
plan only, and `billing_paid_not_activated` has two of them.

Bounds of `school`.  Attendance: two classes (so that a day may be missed in part), two leave requests
of a student (so that they may overlap), two requests of the office (cancel and restore), one failure;
students do not interact, so one is enough.  Homework: two editors, tabs and graders, one resubmission,
one tick of the clock, two requests that grade or publish scores.  Files: two files for one place in the
quota, two completions, two workers for a job that is taken for stalled, two tries; the browser of one file
(`Sent`) stores it up to twice, that of the other never comes back.  Paper: two requests and two readers.
Grading: two questions, two requests; a third, that puts a sheet right after two overlapped, is covered by
the theorem only.  Enrolments: two students, three rows, three requests.  The clock and the
`Max…` constants bound the model and nothing else.  `school` runs without a symmetry set, since it checks
liveness.

## 5. Fairness

Attempts.  `Tick`: time goes on.  `JobStep`: BullMQ starts the job every minute, and it handles its candidates
one after another.  `Step(p)` and `CompleteSubmission(p)`: a handler that has been started goes on,
since each of its awaits returns or throws.  Nothing is assumed of clients (`Arrive`) or failures.
In the liveness runs the numbers of requests and of failures are bounded: a client that submits without
end could reopen the attempt without end, and a database that is down for good finalises nothing.

Outbox.  `WorkerStep(w)`: a running dispatch goes on, since its queries return or throw and the
provider's call times out.  `SweepStale` and `Claim(m)`: the sweep is scheduled every 30 seconds and
dispatches every row that is due, oldest first.  `Tick`: time goes on.  Nothing is assumed of the
provider, of failures, of payments or of the months.  `PromptWorkers`, where a run or a theorem uses
it, says that a living worker hears from the provider within the stale limit: the SMS call has a
timeout of 15 seconds, the limit is 10 minutes.

Billing.  `Step(h)`: a request that was let in goes on.  Its queries return, throw, or time out when the
pool is empty (`connectionTimeoutMillis`), and PostgreSQL serves who waits for a row lock.  It is weak
fairness: requests are finitely many in the run, so no payment's row is locked again and again.  Nothing is assumed of arrivals, failures or readers.

School (`MCSchool`).  The clock of the school runs, a request that was let through is answered, and the
repeatable jobs of `worker-scheduler.service.ts` start and go on: closing, end of day, publishing
(`DayFairness`, `HomeworkFairness`).  A hand-in that holds the homework's row ends; the job's claim is
strongly fair because other hand-ins may lock the row again and again, and PostgreSQL serves those who wait
in turn.  Files: the queue starts waiting jobs, finishes the ones it runs and
forgets old ones, and the sweep is repeated; starting a job is strongly fair because a place may be
taken and freed for ever (`FileFairness`).  Nothing is assumed of people or of failures.  `JobsCatchUp`
is one formula of the form `[]<>`, because TLC checks one such formula far faster than three.

## 6. Proofs

`ExamAttemptProofs` proves, for every set of students, requests and answers, every timing, cap and
bound, `Spec => []IndInv` and from it `[]TypeOK`, `[]CapRespected`, `[]AcceptedInTime`,
`[]JobAfterGrace` and `DeadlineFixed`.  Assumptions: `SetsAssumption` (students finite, `None` is
nothing else, the job is not a request) and `NumbersAssumption` (times and bounds are naturals).

The argument: handlers save rows they loaded long ago, so `DeadlineFixed` is not obvious.
`LoadedRows` says that a loaded copy always has the deadline of the stored row; hence no save moves
it (`RowsStep`).  From fixed deadlines follow `AcceptedInTime` (the check under the row lock is made
against the deadline that stays) and `JobAfterGrace` (a candidate of the job remains one).
`RoomKept` says that between count and insert a handler holds the lock and there is room, which is
what the cap needs.

The promise to students is another matter: the runs `attempt_submit_twice` and
`attempt_save_during_submit` show how overlapping finalisers and saves break it.  What is proved is
when it holds.  `FinalisedAlone` says that while an attempt is finalised no other handler is at work
on it, except a start (which finds the row there) and, when the job finalises it, the saves and
submits that the row lock turns away for being late; handlers of other students may do what they want.
Under it, `Spec /\ []FinalisedAlone` implies `[]AcceptedKept`, `[]FinalScored`, `FinalizedOnce` and
`KeepsPromise`, the refinement of `AttemptPromise`.  The invariant is `PromiseInv`: what a handler has
loaded and means to save is what is stored (`UpToDate`), marks belong to answers that exist
(`MarksFit`), and the total of a finalised attempt is what its stored answers are worth
(`ScoredRight`).  `PromiseEffects` reduces all steps to five effects (a sheet accepted, marks, a score,
a claim, an insert), `OtherStudents` and `WaitingUpToDate` say why the others keep what they have -
`JobAfterGrace`, proved before, is why a save under the job's hands comes too late - and
`ActingUpToDate` that the one who steps loads what is stored or keeps it.  `Mapping` takes each effect to a
step of the promise; the place for a start comes from `RoomKept`.  `FinalisedAlone` is a condition on
behaviours, not on the code: the run `attempt_promise` shows that attempts start, are saved and are
finalised by handlers and by the job within it.

`NotificationProofs` proves `Spec => []IndInv` for every set of workers, messages and payments,
every pack, allowance, cost, delay and bound, and from it `[]TypeOK`, `[]NoOverdraft`,
`[]ChargeMatchesRow`, `[]OneSender`, `[]AttemptsBounded` and `ChargedOnce`.  Assumptions:
`CreditAssumption` and `DispatchAssumption` (amounts are naturals, an SMS costs at least one credit,
a message has one channel, codes are not sent as an organisation's SMS, at least one attempt).

The argument: a worker acts on what it read before.  `Holds` says what of it is still true: a row
being claimed is still PENDING, the balance read under the lock is still the ledger's, and the row
being sent has the worker's attempts and its charge, though the sweep may have failed it meanwhile.
`Alone` says that no two workers have the same message: a row that is due is in nobody's hands
(`Unheld`).  `OneMessage` reduces every step to the one worker and message it touches, and
`NoWorkerStep` deals with the sweep, the clock and the other credit operations.  `NoOverdraft`
follows from the types, whose proof needs the lock (`Holds`) and `ShareOf`.

`CreditsAddUp` proves `TopUpsKept`: what is left of the bought credits is what was bought, less a sum
over all messages that took and did not get back.  `BookStep` shows that each step moves both sides
alike: a top-up adds a pack and a payment, a charge takes as much as it adds to the sum (`SpentMore`), a
refund gives back what it removes (`SpentLess`).  Both rest on `SumChange` of **`SetLemmas`**: sums over
two finite sets that differ in one member differ by its value.  The library's induction theorems take
an operator and cannot be instantiated, so `SetLemmas` states induction as the fact that a set of
numbers that holds 0 and with each n its successor is all of `Nat` (`SetInduction`); a predicate
becomes the set of the numbers it holds for.  That is how the unfolding of a sum over a finite set, by
its cardinality, is proved.

Two comments of the code promise what does not hold (section 7); two theorems say that it fails in one
case only.  `AllowanceExpiresOtherwise`: unless a month is granted while a message is on its way that took
of the last allowance (`OldCharge`), no more than a grant is ever left.  The invariant, `ExpiryInv`, counts
what may still come back: what is left and what messages on their way took are together no more than the
grant; `UnderwayChange` follows the sum, by `SumChange` again, as a charge moves credits into it and a
refund moves them out.  `SecretsForgottenOtherwise`: unless the sweep gives up the row of a code
(`CodeGivenUp`), a settled row holds none; `SecretInv` says so of the rows, and that workers' copies, which
`finish` saves, hold a secret only if they are codes.

`DeliveryProofs` adds two results.  `SentOnlyOnce`: if no answer is lost (`~LossyProvider`), a
message goes out at most once; the invariant `SentInv` says that a message that waits, or is held by
a worker that has no success in hand, has not been taken.  `DispatcherKeepsPromise`: under
`PromptWorkers` the dispatcher implements `DeliveryPromise`; `PromptInv` says that the row a living
worker sends is SENDING and not stale, so the sweep never settles a message a second time.

`BillingProofs` proves the types and all other safety of `Billing`, for any number of requests, payments,
plans and failures and a pool of any size.  Assumption: `BillingAssumption` (bounds are naturals,
`None` is no row).  Payments are guarded by a lock: `BillInv` says that two settlements never hold the
same payment (`Exclusive`) and that what one holds is stored and not PAID (`Roles`).  From it follow
`PaidStays`, `CreditsOnce` and, counting the settlement that is about to commit (`BookInv`),
`BookedOnce`.

`PaymentsKeepPromise` proves that `Billing` implements `PaymentPromise`.  What the mapping needs beyond
`BillInv` is that a settlement that is about to grant has seen the whole price and still has the payment
in its hands (`VerifiedInv`); then `PaymentMapping` takes each step that changes a payment to one action of
the promise - the commit of a settlement to `Grant`, whose credits and status so change together - and all
others to stutters.

A PAID payment need not have activated anything (section 7), and two theorems say when it has.
`PaidIsActivatedOtherwise`: unless an activation loses a connection or a query (`ActivationFails`), PAID
implies activated; `ShownInv` says that a settlement past its activation left a subscription that has been
paid, and `PaidAmountStays` that none loses what was paid.  `PaidIsActivatedWithLargePool`: with
more connections than requests that may settle at once (`PoolSuffices`), only a query that throws is left.

The plan has no lock.  What makes `OnlyPaidIsActive` true is that a request about to
activate a subscription has seen it paid in full or saved it as confirmed (`Entitled`), that neither is
ever undone (`GatewaySteps`, `ManualSteps`), and that references point at rows that exist (`Backed`).
`StaleExplained` follows from `ActiveSteps` (which steps change the plan) and `ChangeEnds` (each of them
drops the copy or taints it).  `OneInv`, behind `OneActive`, says that a request that is alone knows
every active row there is when it writes.

`AttendanceProofs` is about `DaySpec`, for any number of students, classes, leave requests, office
requests and aborted runs.  `OneLeave` needs that a person has one request at most that waits, requests
inside their transactions included (`OneWaits`).  `RegisterComplete` is inductive with the types, given
`RecordSteps`, which lists the steps that change records; `PresenceStands` follows from the types and
that list alone.  `ToldMissedAll` needs that a check-in says Present until it is corrected
(`SelfPresent`), that at night nobody checks in and the office cancels and restores nothing
(`NightQuiet`), that the end-of-day job runs at night only (`Finishing`), and that those on its list
missed all they could (`ToldRight`).  `LeaveExplained` needs that the calendar of a run misses only
leave that was approved since it was read (`CalendarRight`), and that nothing is closed before the
day (`Early`).

`SchoolProofs` is about `HomeworkSpec`, `PaperSpec`, `GradingSpec` and `FileSpec`, and their
composition.  `ScoredIsLast` needs that a grader who holds an old version has been overtaken
(`HeldOvertaken`), and that a latest version scored after a hand-in's check has been, too
(`CheckedFree`); `NothingUndone` that an editor's row passed the check of its request
(`HeldChecked`), `PublishedMarked` that whatever says that all is marked - stored, loaded or seen - is
right (`MarkedInv`).  The types of all four are
proved, and with them the counts and the sums.  `HandInsBounded` needs `ReturnsInv`: no more versions are returned than returns were counted, and a student whose latest
version is returned, or whose hand-in has passed its check, has one more to hand in.  `QuotaKept` needs `QuotaInv`: there is
room for the one reservation in progress, and no file grows without being counted; `Used` is a sum
over the files, which `UsesChange` follows through each step by `SumChange`.  `GradesAddUp` needs
`GradesInv`, in two parts: unless those at work have overlapped, there is one of them and the marks it
read last are the stored ones (`LoneInv`), which is why it leaves a sheet that adds up when it gets to its
end; and unless marks were left without their total (`torn`), the sheet is right when nobody is at work and
as long as the one who is has saved no mark (`CleanInv`).

`UploadsKeepPromise` proves that `FileUpload` implements `FilePromise`.  `RowSteps` shows that every step,
of whichever request, worker or sweep, changes one row at most, in one of seven ways (`Moves`), one of
which, from READY to FAILED, needs a second PUT.  Why a single PUT rules it out is `SettlingInv`: jobs work
only on completed uploads (`Settling`), and all who loaded a file before its completion have loaded the
reserved size, so all of them find the bytes to fit or none does (`OneSize`).  `NeverRemoved` says that a
row nobody has stored yet is not removed; `LifecycleMapping` reads each of the seven as a step of the promise.

`SchoolRunsAll` shows that a behaviour of `SchoolSpec` is a behaviour of all six modules, so what is
proved of a module holds of the school: `SchoolTypeCorrect` for the types and `SchoolSafe` for all the other
safety properties that the run `school` checks.

`EnrolmentProofs` is about `EnrolSpec`, for any number of students, requests and rows.
`EnrolmentStands` is a property of steps; it needs the unique index (`OneRowEach`) and that what a
request has read stays true of its rows in one respect: they stay in use and keep their session
(`Reads`, kept because every table that a step writes is one that `Keeps` them).  Then a claim that
finds the student's own row cannot have that row for its invitation, and a promotion's two rows differ.
That an insertion takes an unused row rests on `MinMember` of `SetLemmas`, that the library's `Min` of a
nonempty set of numbers is in it.  `EnrolTypeCorrect` adds the types.

## 7. Findings

- A stale save reopens a finalised attempt (`attempt_submit_twice`), although the comment at
  `student-exam.service.ts:910` says finalisers can only finalise it once.  `AllFinalized` still
  holds: the job finalises it again.
- A sheet accepted between a submit's scoring and its claim is lost to the score
  (`attempt_save_during_submit`), although the comment at line 1109 says a write either precedes
  the finalisation or sees it finished.

- The sweep fails an interrupted row as `finish` would not: a code stays in the payload for good
  (`outbox_code_kept`), although the comment at `notification-dispatcher.service.ts:262` says it is
  removed once it is no longer needed.  The sweep is the only way this happens
  (`SecretsForgottenOtherwise`).
- A refund after the turn of the month brings last month's allowance back
  (`credits_old_allowance`), although the comment at `sms-credits.service.ts:41` says what is left
  of it expires.  Nothing else does (`AllowanceExpiresOtherwise`).

- Settlements activate their subscription on other connections than their own, and only log what
  the activation throws: with as many settlements at once as the pool has connections, payments end
  PAID with nothing activated (`billing_paid_not_activated`), although
  `modules/payment/README.md:122` says concurrent requests cannot create inconsistent states.  A pool
  larger than the number of concurrent settlements rules this out, but not the failure of a query
  (`PaidIsActivatedWithLargePool`).

Observations without a run, since no comment promises otherwise.  `updateFromWizard` drops the cached
paper inside its transaction: a reader between the DEL and the commit caches the old paper again
(`PaperExplained` names this case).  `publishResult`, the switch and the exclusions save the questions
they loaded, so one that overlaps a rewrite brings old questions back.  Opening a submission for
grading saves `is_graded` as it was loaded, so a sheet that was graded meanwhile becomes ungraded.
Scores given to a hand-in that a new one overtook stay on the old version, and a hand-in that passed its
check before the old one was scored is still added (`ScoredIsLast`).  A request to save grades that is
refused at one of its marks has saved those before it; the total stays as it was until the sheet is opened
or marked again, and whether it is graded until it is marked (`GradesAddUp`).  A second PUT of a larger object, with a completion that had loaded the row
before it was completed, turns a READY file into a FAILED one (`FilesKeepPromise`).  A rewrite of an exam saves
the row it read, so a switch that commits meanwhile is lost.  If the payment that `assignPlan` records cannot
be inserted, the old entitlements stay cached.  Callbacks that wait for a payment's row keep
their connections, so many of them for one payment use up the pool, and the activation they wait for can
only time out: nobody starves (`NobodyStarves`), but it ends PAID with nothing activated, as above.  One
invitation that matches two accounts (a phone and an e-mail) goes to whoever claims it last.

Two things are by design and no findings, but a reader should know them.  A message whose answer is
lost is sent again, so "at most once" (the comment at `notification-dispatcher.service.ts:43`) needs
the assumption `~LossyProvider`.  And an SMS the sweep fails keeps its charge: it may have gone out.

## 8. Only model-checked, and not modelled

Liveness (`AllFinalized`, `AllSettled`, `JobsCatchUp`, `NobodyStarves`) is out of the
prover's reach: TLC checks it on small instances.  `PaidStays` is proved and has no
run of its own, since the promise that the runs check implies it.  Every other property of
a passing run is also the statement of a theorem.  The properties of the runs that expect a violation are false, of course;
`FinalizedOnce` and `FinalScored` are proved under `FinalisedAlone`, the other three under the conditions
that section 6 names.

Not modelled: every component listed as such in `PROJECT.json`, with its reason.  One-time codes,
password resets and sign-in are left aside because what is worth stating of them is a matter of
security.  Most of the rest is CRUD and reads: single-row writes under unique keys, reports, set-up and
I/O.  The web client appears only as the requests it may send.
