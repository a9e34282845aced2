# Verification of the ERP backend

TLA+ models of the ICT University ERP's backend services, the TLC runs that check
them on small instances, and theorems about them, for every value of their
constants, that TLAPS checks.  Paths below are relative to `src/services/` unless
they start with `src/`.

1. [The system](#1-the-system)
2. [Modules](#2-modules)
3. [Runs](#3-runs)
4. [Proofs](#4-proofs)
5. [Disagreements with the code's own words](#5-disagreements)
6. [What is not modelled](#6-not-modelled)
7. [Plan](#7-plan)

## 1. The system

Four FastAPI services (identity, academic, finance, hr) run behind an nginx
gateway, each with a PostgreSQL database of its own.  Two background processes
run beside them: `academic-worker` (`python -m app.worker`, the outbox publisher)
and `finance-worker` (`python -m app.consumer`: the enrollment consumer, and in
the same process the loops that reconcile payments and catch up on monthly
summaries).  The services share no database.  They meet in two places only: the
access tokens that identity signs and all services verify on their own, and one
RabbitMQ event, `academic.enrollment_accepted`, from academic to finance.

Every request handler is a coroutine with one SQLAlchemy session.  Four facts
about that shape everything that can go wrong, and all models keep them:

- Transactions are READ COMMITTED.  A check-then-write without a lock or a unique
  constraint behind it can be overtaken by another request between its steps.
- A session has an identity map: a row it loaded before it waited for a lock is
  not refreshed by a later query of the same session.
- The ORM writes only the columns whose new value differs from the loaded one.
- A handler may commit several times, and a process, a connection or a client may
  go away between any two of its steps.

### Inventory

For each component: its state, its operations and what makes it correct.  "Hard"
is what a test would hardly reach.

**Payments** (finance: `routers/payments.py`, `reconciliation.py`,
`payment_worker.py`, `ledger.py`, `payments/`).  State: payment intents
(PENDING, SUCCEEDED, FAILED), invoices, ledger entries, receipts; the provider's
own record.  Operations: open an intent and call the provider, read the status of
an intent (which reconciles), unsigned callback, signed camerpay
webhook, the worker's tick every three seconds.  Hard: four callers of
`reconcile_intent` on one intent at the same time, a stale status read before the
row lock, a provider call that times out after the provider took it, crashes
between the commits of one request.  Correct: intent, ledger, receipt and invoice
agree; nobody is charged twice; outcomes are the provider's; every attempt is
resolved.

**Enrollment to invoice** (academic: `routers/academic.py`, `worker.py`; finance:
`consumer.py`, `routers/finance.py`; both: `core/rabbitmq.py`).  State:
enrollments, the outbox, the queue and its dead letters, the inbox, fee
schedules, invoices.  Operations: enroll, publish a batch, deliver, handle,
acknowledge, requeue, reject, add a fee schedule.  Hard: at-least-once delivery,
crashes between a send and its mark or a commit and its ack, two handlers with
copies of one event, several publishers with SKIP LOCKED.  Correct: billed at
most once and only for a price, no event lost, everything billed or dead-lettered
in the end.

**Accounts and roles** (identity: `routers/users.py`, `routers/role_requests.py`,
`register` in `routers/auth.py`).  State: users, role applications, access tokens
that outlive the roles they name.  Operations: edit a role, register with an
application, decide an application.  Hard: two admins at the same time, decisions
on old applications, stale tokens.  Correct: an institution keeps an admin; a
role is what the decision says.

**Sign-in** (identity: `routers/auth.py` login and verify_mfa).  State: failed
attempts, lockouts, MFA challenges.  Hard: counters read without a lock, a
sign-in that overlaps with a lockout, one code answered twice.  Correct: a code
opens one session, guesses are bounded, a running lockout is cleared only by time or
by a sign-in that had found an earlier one over.

**Refresh tokens** (identity: `routers/auth.py` refresh and logout).  State:
refresh sessions in families.  Hard: one token exchanged twice at the same time,
an exchange in flight when its family is revoked.  Correct: exchanged tokens stay
revoked, a dead family stays dead.

**Exams** (academic: `routers/exams.py`; registration in `routers/courses.py`).
State: exam schedules, course registrations, an advisory lock per term.
Operations: schedule, move, register.  Hard: overlapping requests, a row loaded
before the lock.  Correct: no room, instructor or student is in two exams at one
time.

**Courses and prerequisites** (academic: `routers/courses.py`).  State: courses,
the prerequisite graph, offerings, registrations.  Operations: create a course or
an offering, add a prerequisite after a recursive query for a cycle, register
after one query per prerequisite.  Hard: two edges that close a cycle together;
prerequisites read one by one while grades change.  Correct: the graph is acyclic;
a registered student has passed the prerequisites.

**Grades and appeals** (academic: `routers/grades.py`).  State: assessments,
grades, appeals, the grade audit log.  Operations: enter, publish, appeal, decide.
Hard: scores entered again, two appeals or two decisions at the same time, an old
score loaded before another request's commit.  Correct: the log leads from what
was entered to the score that stands; one open appeal per grade.

**Class attendance, students at risk** (academic: `routers/attendance.py`,
`routers/reports.py`).  State: meetings and marks.  Operations: create a meeting,
mark, list the students at risk of an offering or oneself.  Hard: a list asks two
questions per student while both answers change.  Correct: a list names nobody
who was never at risk and misses nobody who was all along.

**Recruitment, employees** (hr: `routers/recruitment.py`).  State: positions,
candidates and their stages, employees.  Hard: a position closed under an
application, a candidate hired by two requests.  Correct: hired means
employed, once; a closed position takes nobody.

**Payroll** (hr: `routers/payroll.py`, `payroll.py`).  State: schedules of rates,
runs, payslips.  Operations: author and verify a schedule, run, approve.  Hard: the
four-eyes checks race, amounts are rounded one by one.  Correct: no run is
approved on rates only their author has seen; nobody is paid twice; approval
stands; a payslip is within a franc of its definition.

**Leave, assets, performance** (hr).  Decisions on leave with a notification in the
same transaction, and a stock of assets under a row lock.  Hard: a request decided
twice; movements that overlap.  Correct: employees are told what was decided; the
stock adds up.  Performance reviews are rows that are written and read.

**QR attendance** (hr: `routers/attendance.py`).  State: shifts with the identifier
of their newest code, check-ins.  Hard: a new code issued while an old one is being
checked.  Correct: a code that was replaced stays dead.

**Ledger and summaries** (finance: `summaries.py`, `routers/expenses.py`,
`routers/summaries.py`, the second loop of `payment_worker.py`).  State: postings,
numbered versions of monthly summaries.  Hard: the next version is read without a
lock, and the catch-up commits once at its end.  Correct: versions are gapless and
see more and more, a catch-up misses nothing, every month is summed in the end.

**Campaigns, reports, transcripts** (finance `routers/campaigns.py`,
`routers/reports.py`; academic `routers/reports.py`).  One row per request, or
read-only.

**Tenant isolation** (`core/tenant_context.py`, `deps.py` of each service).  Row
level security with a SET LOCAL context that ends with each commit.

**Gateway, deployment, backups, monitoring, seeds, migrations** (`src/gateway`,
`src/ops`, `scripts/`, `alembic/`).  Configuration and operators' scripts.

## 2. Modules

| Component | Module | Abstract specification | For TLC | Proofs |
|---|---|---|---|---|
| Payments | `Payments` | `Settlement` | `MCPayments` | `PaymentsProofs` |
| Enrollment to invoice | `EnrollmentPipeline` | `Billing` | `MCEnrollmentPipeline` | `EnrollmentPipelineProofs` |
| Accounts and roles | `Roles` | | `MCRoles` | `RolesProofs` |
| Sign-in | `SignIn` | | `MCSignIn` | `SessionProofs` |
| Refresh tokens | `RefreshTokens` | | `MCRefreshTokens` | `SessionProofs` |
| Exams | `ExamSchedules` | | `MCExamSchedules` | `ExamSchedulesProofs` |
| Grades, courses, students at risk | `Grades`, `Coursework`, `Standing` | the audit log and the risk list by their definitions | `MCCoursework` | `CourseworkProofs` |
| Recruitment, payroll, leave, assets, QR attendance | `Hiring`, `Payroll`, `Payslip`, `Leave`, `Assets`, `QrAttendance`; `HumanResources` composes them | a tax by slices, in `Payslip` | `MCHumanResources` | `HumanResourcesProofs` |
| Ledger and summaries | `Summaries` | | `MCSummaries` | `SummariesProofs` |

An action is what a handler does between two points where another process can
get in: from one await on the database, the broker or the provider to the next,
together with the commit that ends it.  A refused request (4xx) that changes
nothing is the absence of a step or, where it gives up a lock, a step that only
ends its transaction.  Variables that model no column are marked "history"; no
guard reads them.  Definitions marked "Variant" are plausible bugs, used only to
see that a property would notice them.

**Payments.**  An actor is the worker or a request in flight; `pc` is where it
stands, `cur` its intent, `seen` and `seenInv` its identity map.  A row lock is
held exactly while `pc` is in `Holding`: every way out of these steps ends the
transaction, so no lock variable is needed.  `create_payment_intent` is
`CreateLoad`, `CreateInsert` (subject to the partial unique index) or
`CreateConflict`, and `RequestToPay`; the read of an intent
is `GetIntent` and, for its invoice, `GetInvoice`; the callback and the webhook are
`Callback` and `Webhook`;
all of them and `WorkerNext` go on with `reconcile_intent`: `LockPending` or
`LockResolved`, the `Ask...` actions for each answer of the provider,
`RecordFailed`, `LockInvoice` and the three `Commit...` actions for the constraints
of the last flush.  `provider` is the configured gateway, chosen once; `Answer` is
what its adapter returns for what became of the payment (`prov`).

**EnrollmentPipeline.**  An enrollment and its outbox row are one commit, so one
identifier stands for both.  `queue` and `dlq` count copies of an event, `hpc`
and `msg` are a handler's step and message, `live` says that its delivery can
still be acknowledged (it cannot after its channel was lost, while the handler
itself goes on).  `PublishCycle` and `PublishFault` are `publish_pending_events`,
`InboxStep` and `Handle` are `handle_message`; `ConsumerCrash`, `ConnectionLost`
and `Requeue` are what interrupts it; `Replay` and `ReplayOutbox` are what an
operator may do.

**Roles, SignIn, RefreshTokens.**  `work[w]` (`refreshing[w]`) is the request a
worker serves: its step and the columns it has loaded.  Loading and committing are separate actions,
except where a row lock makes them one.  Time is what it does to a row: a lockout
is running or over, a challenge or a token has expired.  Password hashes and
token contents are left out; a wrong and a right password are both possible.

**ExamSchedules.**  `Check` waits for the advisory lock and runs the three
conflict queries; `Insert` and `Update` commit and release it.  `Row` is the row
that the ORM's UPDATE leaves.  `known` and `mixed` are history: the registrations
an exam's last check has seen, and the exams whose row is not the slot that was
last checked.

**Grades, Coursework, Standing.**  Each extends the one before.  `work[w]`,
`task[w]` and `desk[w]` are the request that worker `w` serves, about grades, about
courses, or about marks and lists, with what it has loaded; a worker serves one at
a time.  In `Grades`, `LoadEntry` and `SaveEntry` are `enter_grades`, `CheckAppeal`
and `InsertAppeal` are `create_appeal`, and `LoadAppeal`, `LoadGrade` and
`SaveReview` or `SaveAcceptance` are `decide_appeal`.  In `Coursework`, `Reaches`
is the recursive query by its meaning, the least closed set; `LoadPrerequisites`,
one `QueryPassed` per prerequisite and `InsertRegistration` are a registration.  In
`Standing`, `ReadRate` and `ReadAverage` are the two queries per student of a list.
History: `origin` is what was last typed in, `contested` are the grades to which a
request committed while another was at work on them, `raced` the edges inserted
beside one their check had not seen, `owed` what a registration was asked for,
`everPassed`, `ever` and `always` who met a condition, and when.

**Hiring** and the modules that extend it model the hr service, each with one
variable for the request a worker serves (`hiring`, `payroll`, `deciding`,
`moving`, `scan`).  `Hiring` gives `Payroll` its employees: who is hired twice is
paid twice.  Only `create_asset_movement` takes a lock (`step = "locked"`).
`Payslip` has `calculate_payslip` as operators; its steps go through the salaries.
`HumanResources` puts the parts side by side, a step of one at a time, as the
service's `main.py` includes their routers.

**Summaries.**  `job[j]` is a transaction, of a request or of the worker.
`ReadVersion`, `ReadTotals` and `Insert` or `Clash` are `generate_summary`; `Tick`,
`NextInstitution`, `Exists`, `Missing`, `LastMonth`, `LastInstitution` and `Commit`
are `run_catch_up`.  A summary's totals are the set of the postings they sum.
`overdue` (history) are the postings still open when their month ended.

## 3. Runs

Every property of a passing run has been seen to fail for at least one variant of
the code under the same configuration.

| Run | Instance | Shows |
|---|---|---|
| `pay_safe` | 2 invoices, 3 attempts, 2 requests and the worker, each of 3 providers, 1 fault; 1.1 million states | `LedgerAgrees`, `NoDoubleCharge`, `OutcomeIsProviders` |
| `pay_ideal` | 1 invoice, 2 attempts, the test double, fair | `IdealSettlement`: Payments implements Settlement; `AttemptsResolve` |
| `enr_once` | 2 places, 2 events, 2 requests, 2 publishers, 2 handlers, 2 faults | `BilledOnce`, `NothingLost`, `InboxMeansInvoiced` |
| `enr_live` | 1 request, 2 publishers with batches of 1, 2 handlers, a queue declared at any time, 1 fault, fair | `BillingIsAbstract`: the pipeline implements Billing; `BilledOrDeadLettered` |
| `roles_decide` | 2 admins, 2 applicants, 1 request at a time | `RoleFollowsDecision`, `LastAdminGuarded` |
| `roles_two_admins` | 2 admins, 2 requests | violated: an admin remains |
| `signin_code` | 3 requests, 2 challenges, 2 attempts each, 1 lockout that runs out | `CodeUsedOnce`, `GuessesAreBounded`, `LockoutStands` |
| `refresh_any` | 3 requests, 4 tokens | `OnlyLeavesLive`, `DeadFamiliesStayDead` |
| `exams_locked` | 2 offerings of 1 or 2 instructors, 2 rooms, 2 touching hours, 1 student, 2 requests | `StaffAndRoomsFree`, `StudentsCanSit` |
| `coursework` | 2 workers; 3 courses, 2 offerings, 3 assessments, 4 meetings, 2 appeals, 1 student, scores 0 to 2 | `LogExplainsScore`, `OneAppealAtATime`, `CyclesAreRaced`, `RegisteredHadPassed`, `RiskListIsFair` |
| `human_resources` | 2 workers; 2 employees, 1 candidate, 2 runs, 2 codes, 2 rate tables with salaries to 80 | `HiredMeansEmployed`, `ClosedToApplicants`, `FourEyes`, `PaidOnce`, `ApprovalStands`, `ToldAsDecided`, `StockAddsUp`, `OldCodesStayDead`, `NetIsFair`, `RaiseNeverHurts` |
| `books` | 2 months that end, 2 postings, 2 requests beside the worker, 1 rollback, fair | `LaterVersionsSeeMore`, `CatchUpIsComplete`, `EveryMonthSummed` |

`coursework`, `human_resources` and `books` check their modules' type invariants as
well; those of the other modules are theorems (section 4) and not checked again.

### Why the bounds are enough

- *Payments.*  Two requests and the worker on one intent are the smallest set in
  which one waits for the lock, one holds it and one commits in between.  Three
  attempts let an invoice fail, be tried again, and compete with another invoice
  for the worker's tick.  One fault puts a crash at every step; calls to the
  provider may be lost or late at any time besides.
- *Enrollment.*  Two copies of one event in two handlers and one event that
  competes for the same place are all the interference there is: handlers of
  different events and places share only the fee schedules.  Two faults allow a
  message to be both resent by the publisher and redelivered.  `enr_live` has no race
  for a place, which `enr_once` has, so that two publishers can skip each other's rows.
- *Identity.*  The races are between two requests; the third lets a later one
  meet what they left.  Four refresh tokens are two exchanges of one token and an
  exchange of a successor.  `roles_decide` has one worker because with two the
  properties fail (section 5); its concurrency is between requests and stale
  tokens, and crashes.
- *Exams.*  Clashes are pairs of exams.  The two hours touch, so the boundary of
  the overlap test is met; a mixed row also gives the two-hour and the empty
  slot.  The proofs cover any number of the rest.

- *Coursework.*  A cycle that needs transitivity has three courses, and two requests
  can close it together.  A prerequisite is passed by the average of two grades.
  Two appeals and two workers are two appeals, or two decisions, at a time.  The
  list takes a third grade to drop one from the latest two, and four meetings to
  miss exactly a quarter or more.  `MCCoursework!Bound` keeps these four cases
  apart, so that one behaviour does not multiply them, and lets the catalogue be
  created in one order; it leaves out publications of what is published, decisions
  of what is decided and entries after the last appeal.  `CourseworkProofs` has no
  such bound.
- *Human resources.*  The parts share only employees and processes, so
  `MCHumanResources!OnePart` lets one behaviour visit one part; Hiring and Payroll
  are visited together.  Candidates go through three of the six stages
  (`VisitedStages`): "hired" and two others, so that a stage set by hand may differ from
  the one loaded without a hire; one of these is visited only while payroll has not
  begun, which looks at employees and at no stage.  Two codes replace each other, two
  runs compete for one period, two notes would be one too many.  Movements are of one
  or two units, of a total of two (`MaxMoved`).  The two rate tables have bracket bounds, a ceiling and
  rates that give every rounding, at a `Scale` of 20 parts instead of 10000.
- *Books.*  Two months that end let the catch-up add two, or find one.  Two requests
  in all (`MaxRequests`), one at a time, number a version before, between or after
  the worker's steps.  `MCSummaries!Bound` leaves the last month empty, since it
  never ends.

Bounds by name: `MaxFaults` (crashes, cancellations, lost connections, and in the
pipeline also an operator's replays), `MaxLockouts` (lockouts that run out),
`BatchSize` (20 in the code), `MaxAttempts` and `MfaAttempts` (settings, 5 in the
code's defaults), `MaxMonth`, `MaxRequests` and `MaxFailures` (months, requests and
rollbacks in `Summaries`), `MaxGross`, `MaxMoved` and `VisitedStages`, and the
sizes of the sets of identifiers, each used once.

Symmetry is declared for interchangeable identifiers and only in runs without
liveness.  Deadlock is not checked where requests are bounded by identifiers that
run out, which is no deadlock of the system.

### Fairness

Fairness is used in `pay_ideal`, `enr_live` and `books` only.

- The worker loops never end (`while True`, exceptions are caught), so their steps
  are weakly fair; so is each step of a request or handler that has begun.
- In `books`, the catch-up's loop is weakly fair (an exception is logged, and the
  loop goes on in an hour), and so is a request that is being served.  Nobody has to
  ask for a regeneration, and rollbacks are bounded: against one in every tick, no
  loop could win.
- Waiting for a row lock or for another handler's inbox key is strongly fair:
  PostgreSQL serves waiters in order.
- A payment the provider has received is settled or declined some day, and a call
  on the network arrives or is lost.
- The broker delivers each ready message some day (strong, because a handler slot
  and a connection come and go), and the consumer declares its queue.

No client has to send a request, no operator has to add a fee schedule or replay a
message, and the order of the ids in a worker's tick, which the query does not
state, is not promised to anyone.

## 4. Proofs

All theorems are of the form `Spec => []Invariant`, `Spec => [][step]_vars` or
`Spec => abstract specification`, for all values of the constants under the named
assumptions of the module, which say that identifiers are distinct from `None`,
that bounds are natural numbers and, where something is summed, that there are
finitely many employees.

**Payments** (`PaymentsProofs`).  `LedgerAgrees` is not inductive: a session at its
commit must know that the provider settled the payment, and two sessions may both
be at the commit of one intent with the stale status they read before the lock.
`IInv` adds `RowsExist`, `OneActive` (what the partial unique index keeps) and
`SessionOK` (what each step may rely on).  The argument never uses a row lock: what
stops a second posting is the unique constraint on receipts, the partial unique
index on live intents, and that a provider's outcome and a PAID invoice are final.  From `IInv` follow
`LedgerAlwaysAgrees`, `OutcomesAreTheProviders`, `NeverChargedTwice` and, step by
step, `PaymentsImplementSettlement`.

**Enrollment** (`EnrollmentPipelineProofs`).  `IInv` adds that places are unique,
that only events of enrollments are under way, that invoices have prices, and what
a handler has established where it stands.  It gives `EveryPlaceIsBilledOnce`,
`ProcessedMeansInvoiced` and the refinement `PipelineImplementsBilling`.
`NoEventIsLost` assumes `BoundAtStart` and needs `KInv`: what a publisher has sent
and not yet marked is already kept by the broker, a handler or an invoice
(`KeptStep`).

**Roles** (`RolesProofs`).  `CInv` says that whoever is about to demote an admin
has counted another one who is still there; it is inductive with one request at a
time (`Serial`) only.  It gives `TheGuardIsEnough` and, without applications,
`TheLastAdminStays`.  `DInv` (an application is pending while it is being decided)
gives `TheDecisionIsFollowed`.

**Sign-in** (`SessionProofs`).  `IInv` ties the row lock to what its holder loaded
and the counter to the guesses; it gives `TheCodeIsUsedOnce` and
`GuessesStayBounded` for any number of concurrent requests.  `LockoutsStand` is an
action property that needs types only: a sign-in that found no lockout writes none, and
while one is running nobody can load the account.  `OneAtATimeLocksInTime` assumes `Serial`.

**Refresh tokens** (`SessionProofs`).  `ExchangedTokensAreRevoked` and
`DeadFamiliesNeverReturn` hold for any number of concurrent requests; `OneRefreshAtATime`
(at most one live token, none in a reported family) assumes `OneRefresh` and needs
`OneRInv`: who is about to store a token is the only one.

**Exams** (`ExamSchedulesProofs`).  `IInv` says that only the holder of the lock is
about to write (`LockHeld`), that the slot it is about to write suits every other
exam (`SavesAreFree`), and that its check has seen every registration an earlier
check saw (`HistoryOfExams`, `SlotIsFree`).  `CheckedSlotFits` is the heart: such a
slot can be written.  It gives `StaffAndRoomsAreFree` and `StudentsAreFree`.

**Grades, courses, students at risk** (`CourseworkProofs`).  `GInv` says that
grades somebody works on, other than to type them in, are there, so an old score is
one.  For a grade outside `contested`, `LInv` says that whoever is at work on it has
loaded the score that stands, and `AInv` that what a request has read of its appeals
still holds; both survive because who commits to such a grade was alone at it
(`Alone`).  They give `LogExplains` and `AppealsInTurn`.  The heart of
`CyclesNeedARace` is `CheckedEdge`: what a requirement reaches is closed and lacks
the course, so the new edge closes nothing, even if the check saw more edges than
are counted.  `SeatsAreEarned` rests on `PInv`: what a request has found passed was
passed then, and is remembered.  `StandingIsCoursework` is a refinement: meetings,
marks and lists are stutters of Coursework, so all of this holds of `StandingSpec`,
which the run checks; `StandingTypeCorrect` adds its types.  `RiskListsAreFair` has
three parts.  `RateIsRisk` and `AverageIsRisk`: who is at risk by a query is at risk
by the definition at that moment; the second one needs that an assessment is there
once and that grades are of assessments that are (`AssessmentsExist`), so that each
grade has one place among the query's rows (`Places`).  `SoFar` is the inductive
part: what a list has half asked about one student and fully about others was so at
a moment since it began.

**Human resources** (`HumanResourcesProofs`).  `IInv` is the conjunction of an
invariant for each part; a step of one part leaves the others' variables alone, so
each is proved on its own and `IInvStep` puts them together.

- *Hiring* (`HInv`): for a candidate whose stage nobody set by hand and nobody else
  is at work on (`Settled`), what a request has loaded still stands, and he is hired
  just when one employee is his (`StandsHired`); who is about to apply for a closed
  position overlapped with its closing (`ClosedStands`).  It gives `HiredOnce` and
  `ClosedStays`.
- *Payroll* (`PInv`): who is about to verify rates is not their author (`Attested`);
  a request to approve has found verified rates, and nobody is approving a run that
  is approved, unless the two overlapped (`ApprovalOK`); of a period there is one run,
  stored or flushed, by the unique constraint (`OneRun`).  Verifications and approvals
  may overlap as they like: a schedule, once verified, stays so.  It gives `TwoPeople`,
  `ApprovedForGood` and, with `HInv`, `OnePayslip`.
- *Leave* (`LInv`): a request that one decides alone is still pending when he commits
  (`DecisionOK`), so the one note says what the row says (`ToldOK`): `NotifiedOnce`.
- *Assets* (`SInv`): who holds the lock holds it alone, and what he has read of the
  asset still holds (`HoldsOK`).  That gives `StockIsRight` and the bounds in
  `TypeCorrect`.  The sum of what employees hold is `MapThenSumSet`, whose definition
  chooses a recursive function on subsets; `FoldExists` shows that there is one, and
  `SumUpdate` what one summand more does to the sum.
- *QR attendance* (`AInv`): a shift's newest code was never replaced (`NewestOK`), and
  a code that had been replaced when it was shown has not passed the comparison
  (`ShownOK`): `ReplacedCodesAreDead`.
- *Payslips*: `TaxInSteps` is the loop's invariant.  After the k-th bracket the tax is
  the sum of the first k slices, and either `lower` is the bracket's bound or nothing
  of the base is left; so `_apply_irpp_brackets` computes `TaxByDefinition`.  From the
  same slices follow `TaxGrows` (a franc more of the base is taxed with nothing at
  least and a franc at most) and `TaxLeaves`.  `NetOfRounded` bounds what the two
  roundings do.  `RaisesNeverHurt` holds for every schedule of plausible rates.
  `NetPayIsFair` assumes that the first bracket leaves something: a contribution of a
  half and a first bracket of 100 % make the net pay of a salary of one franc -1, which
  the code does not prevent.

No theorem here is an induction by the library's rules, which take an operator; what
would be one is the absence of a least counterexample, of a number (`LeastNat`) or of
a set (`LeastSubset`), and these rest on `WFMin` of the library.

**Summaries** (`SummariesProofs`).  For `VersionsGrow`, `VInv` says that among what is
committed and what is still in a transaction, a key is used once (`Keys`), that
versions have no gap (`Gapless`), that what a transaction has counted was posted
(`Real`), and that who is about to insert a version has counted all that the lower
ones have (`Growing`).  For `CatchUpsAreComplete`, `CInv` says that a posting still
open after its month is overdue (`Overdue`), and that the worker is at a month that
was over at its tick, with all its other postings counted (`CaughtUp`).

Only model-checked are the liveness properties `AttemptsResolve`,
`BilledOrDeadLettered` and `EveryMonthSummed`, because liveness under fairness is out
of this prover's reach.

No module declares a recursive operator.

## 5. Disagreements

What a comment or docstring promises and the code does not do.  With a run:

- `roles_two_admins`: `routers/users.py:65` says an institution must keep an
  admin.  The count and the demotion are not one step.

Those that a change of constants shows, without a run of their own:

- *A payment that was taken is never recorded.*  `routers/payments.py:75` says the
  worker's loop will keep trying, but one intent MTN answers with 404 ends the tick
  for all ids after it.  `Payments` under `FairSpec` with 2 invoices, 2 intents, 1
  request, `Gateways = {"mtn_momo"}`, `MaxFaults = 0`: `TakenPaymentIsRecorded` fails.
- *Camerpay's status is not looked up with the stored transaction id*, as
  `payments/protocol.py:29` says; `reconcile_intent` does not pass it.  The same with
  1 invoice, 1 intent, `Gateways = {"camerpay"}`: `BackfilledPaymentIsRecorded` fails.
- *Two moves of one exam leave a mix of their slots that neither checked*, though
  `routers/exams.py:18` says two overlapping requests cannot both pass the conflict
  checks.  A move loads its row before the lock, and the update writes only the
  columns that differ from it.  (The mix may even end before it starts; the table
  has no constraint against that.)  `exams_locked.cfg` with `Students = {}` and
  `RoomsFree`: it fails.
- *An event is lost before the consumer's first start* (`academic/app/worker.py:1`
  says never silently).  `enr_once.cfg` with `BoundAtStart = FALSE`: `NothingLost`
  fails.  The broker confirms a message no queue is bound for.
- *An approval demotes the last admin* (`identity/app/routers/role_requests.py:4`
  says it reuses the guards).  `roles_decide.cfg` with one admin, one applicant
  and `AdminRemains`: it fails with one request at a time.
- *Two decisions on one application* leave a status and a role that disagree.
  `roles_decide.cfg` with two workers: `RoleFollowsDecision` fails.
- *Wrong passwords at the same time are counted once.*  `LocksInTime` in
  `signin_code.cfg` fails with two workers.
- *A refresh token is exchanged twice*, and *a reported family gets a new live
  token*, although the docstring says reuse is detectable and the family revoked
  at once.  `OneLiveToken` and `ReportedIsDead` in `refresh_any.cfg` fail with two
  workers.
- *The row lock of an intent does not give a fresh status*: the docstring of
  `reconcile_intent` says the lock prevents double processing, but a session that
  loaded the intent before keeps the status it has (`StatusAtLock`).  No harm
  follows: `LedgerAgrees` holds by the constraints, and the second session fails.

Those that the properties have an exception for, named by a history variable or by
what the request in question has loaded; without the exception each fails in its run:

- *A lockout is cleared by a sign-in that began before it.*  When an earlier lockout
  is over, two sign-ins load the account; a wrong password in one locks it anew, and
  the right password in the other sets `locked_until` to None, which the ORM writes
  because the value it had loaded was not None (`routers/auth.py:125`).  `Stale` names
  such a sign-in, and `LockoutStands` says that no other one clears a running lockout.
  A sign-in that had loaded no lockout at all does not clear it, for the ORM then has
  nothing to write.
- *The last admin is demoted by a decision on an application*, and *a student who
  registers after both exams were checked has them at one time*: `LastAdminGuarded`
  and `StudentsCanSit` are about the other ways.
- *A published score changes with no audit row.*  `models/grades.py:75` says an
  accepted appeal is the only way a score may change after it was entered.
  `enter_grades` overwrites any score, published ones included; the log starts
  again from there (`origin`), and `LogExplainsScore` is about what follows.  Two
  requests at a time on one grade leave a log that does not explain its score, or
  two open appeals (`contested`).
- *Prerequisites form a cycle*: two edges, each without a cycle when it was checked
  (`raced`).  No course on it can be registered for.
- *A candidate has two employees*, and is paid twice: two hires overlapped, or his
  stage was set back by hand (`byHand`, `hireContested`).  The same goes for an
  application to a position that is being closed.
- *An approved run gets another approver*: two approvals overlapped
  (`approvalContested`); `models/payroll.py` says it is immutable.  *An employee is
  told two verdicts*: two decisions on his leave overlapped (`leaveContested`).
- *A summary misses postings for good.*  A transaction open at the end of a month is
  committed after the catch-up, which never looks at a month with a version 1 again
  (`overdue`).  A regeneration of the current month makes version 1 early, so that
  the catch-up skips the month: `CatchUpIsComplete` and `EveryMonthSummed` promise
  only what they say, a complete summary by the worker or some summary.

Seen while modelling, outside what the properties say:

- The prerequisites of a registration were each passed, but perhaps never all at one
  time: the request looks at them one by one, and `RegisteredHadPassed` promises no
  more.
- A list of students at risk can miss one who is at risk all the time, first by
  grades and then by attendance: `RiskListIsFair` is about one reason (`always`).
- An employee may return units another one holds: only the sum over employees is
  bounded (`StockAddsUp` says so).
- `capacity` of an offering is never compared with its registrations.
- `max_score` may be 0, and `g.score / a.max_score` then fails for every student of
  the offering.
- `regenerate` takes any date as a period; January 31 has no `add_month`.
- `register` commits the account before the application; a crash in between leaves
  an account whose applicant was promised a role.  The webhook uses two transactions
  likewise, which `Payments` has.

## 6. Not modelled

- *Within the modelled components:* amounts and currencies (an invoice is paid in
  full by one payment), MTN's token cache, wording and format of responses,
  validation of request bodies (requests are well-formed), messages that break
  the event's contract, hashing, token signatures, `is_active` (nothing in the
  service changes it), and the row level security policies
  themselves.  Their one effect on control flow, the context that ends with the
  first commit of `create_payment_intent`, is in `RequestToPay`.
- *In the newer modules:* names, dates and reasons; the enrollment of students in
  terms and programs (all of them are); amounts of postings (a summary is the set it
  sums); several marks in one request (each stands alone); the token signature of a
  check-in code.
- *Components:* campaigns and performance reviews are single rows, written by one
  request and read by others, with no state that steps of two actors relate.
  Reports, transcripts and their PDFs read and format; request and response schemas
  restate columns.  Gateway, deployment, backups, seeds and migrations are
  configuration and sequential scripts; the constraints that migrations create are
  in the modules above.  `core/authz.py` checks the caller's role and keeps no state;
  callers that may not call are refused requests.

## 7. Plan

Done in the order planned: payments and enrollment, identity, exams, grades and
courses, payroll and the rest of hr, summaries.  Left:

- A composition of `EnrollmentPipeline` and `Payments`: from an enrollment to a paid
  invoice, as an abstract student's account.  They meet in one row, the invoice,
  which the first creates and only the second changes.

The number of runs is kept small: a new component brings one passing run for its
safety, shares configurations where it can, and takes the place of a
disagreement that section 5 can describe by its constants.
