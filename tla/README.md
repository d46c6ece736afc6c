# BCMS: a verification development

TLA+ modules, TLC runs and TLAPS proofs for the backend of BCMS, the budget cycle
management system in `src/backend`. Paths below are relative to
`src/backend/src/app/` unless they start with `src/`.

## 1. The system

A FastAPI server on PostgreSQL. A fiscal year's **budget cycle** is created, opened, closed
and sometimes reopened. While it is open, managers upload budget workbooks, HR imports
personnel budgets and Finance imports shared costs, each as a new **version**. Reports join
the latest versions. Everything is written to a hash-chained **audit log**. Every request has
a database session of its own (`infra/db/session.py`): handlers commit themselves, an
exception rolls back, and a session that is closed without a commit loses what it flushed.
The isolation level is PostgreSQL's default, READ COMMITTED, and handlers take no locks, so
every handler is a sequence of steps between which other requests run. Only unique
indexes stand between two handlers that act on the same stale read.

### Inventory

| component | state | operations | hard behaviour | what makes it correct |
|---|---|---|---|---|
| audit log (`domain/audit`) | `audit_logs`, the sequence | `record`, `verify_chain`, `query` | two writers read one latest row; rollbacks spend numbers; three different orders (number, time, commit) | links resolve, breaks have a benign cause only where writers overlapped, windows verify |
| cycles (`domain/cycles`) | `budget_cycles`, `cycle_reminder_schedules`, `org_units.excluded_for_cycle_ids` | `create`, `open`, `close`, `reopen`, `set_reminder_schedule`, `set_exclusions`, `dispatch_deadline_reminders`, `assert_open` | check-then-write on stale rows; the manager gate; crash between change and audit row; DELETE/INSERT races | state machine, one active cycle per year, no opening past a unit without manager, truthful audit, schedules of whole lists |
| budget uploads, personnel, shared costs | upload headers and lines, files | `upload`, `import_` (two), reads | cycle closes mid-upload; `MAX(version)+1`; file outside the transaction; stale diff base | append-only version log, files exist, no new work after closing |
| accounts and actuals (`domain/accounts`) | `account_codes`, `actual_expenses` | `upsert`, `import_actuals` | concurrent imports, each of which replaces what it sees | the actuals are those of one file, whole |
| templates (`domain/templates`) | `excel_templates`, files | `generate_for_cycle`, `regenerate`, `download` | per-unit failure, error row over a good row, counter | what is offered has its file, and counts that file's downloads |
| notifications (`domain/notifications`, `infra/email`) | `notifications`, `resubmit_requests` | `send`, `send_batch`, `resend`, resubmit `create` | mail goes out before its row is committed | a request before its mail, status tells what went out |
| open-cycle orchestrator (`api/v1/orchestrators`) | none of its own | `open_cycle` | failure after open was committed | who is told that the cycle is open has a template; one unit's failure does not stop the others |
| consolidation (`domain/consolidation`) | reads | `build`, `status_for_user` | several statements, one report | the rows cover the reader's scope, what the timestamps say of the figures, a submitted unit is shown |
| report export and job queue (`export.py`, `infra/jobs`) | `job_runs`, files | `enqueue`, `process_once`, handler | worker crash, retry, commit that nobody makes | a job runs, and is tried a bounded number of times |
| scheduler (`infra/scheduler`) | cron table | `register_cron` | failing recipients, walks up a tree with cycles | the nearest reviewer is told, walks end |
| auth, sessions, RBAC (`core/security`) | `users`, `sessions` | callback, refresh, logout, `current_user`, role and scope rules | refresh rotation race, logout against refresh, deactivation against login, expiry | a token is exchanged once, a logout ends earlier sessions, the scope is the subtree |
| administration (`api/v1/admin`) | `users`, `org_units` | PATCH, deactivate | lost update on the exclusion list, stale user rows | a change is undone only by another one that is meant to |
| row validation, readers (`domain/_shared`, `infra/tabular`, `csv_io`, `excel`) | none | pure functions | blanks, signs, rounding | every faulty row is named and no other, amounts change by rounding only |
| storage, crypto, e-mail, SSO, config, errors, logging, routes | files | I/O | | not modelled by themselves |
| frontend | | | | not modelled |

How they interact: the importers call `CycleService.assert_open` and never look at the cycle
again; every handler calls `AuditService.record` on its own session after its first commit; the
orchestrator calls cycles, then templates, then notifications; the export enqueues a job
that the worker process runs in sessions of its own; reminders read uploads and send
notifications. `PROJECT.json` lists every component with its status, and under `hazards`
what is hard to test, each at its line.

## 2. Modules

| module | models | proofs |
|---|---|---|
| `AuditChain` | `domain/audit/service.py` `record` and `verify_chain`, `repo.py`, the callers' transactions | `AuditChainProofs` |
| `CycleStatus` | abstract: what the cycles component promises about `status` | |
| `CycleLifecycle` | `domain/cycles/service.py`, `state_machine.py`, `reminders.py` `set_reminder_schedule` | `CycleLifecycleProofs` |
| `VersionLog` | abstract: what the importers promise their readers, an append-only log per series | |
| `UploadPipeline` | `budget_uploads`, `personnel` and `shared_costs` services with `next_version` and storage, composed with `CycleStatus` | `UploadPipelineProofs` |
| `JobStatus` | abstract: what the queue promises those who enqueue and poll jobs | |
| `JobQueue` | `infra/jobs/__init__.py` `enqueue`, `infra/jobs/worker.py`, the handler and the dropped enqueue of `domain/consolidation/export.py` | `JobQueueProofs` |
| `Access` | `core/security/auth_service.py`, `sessions.py`, `rbac.py` (`require_role`), `api/v1/auth.py`, `api/v1/admin/users.py` | `AccessProofs` |
| `Scope` | `core/security/rbac.py` `scoped_org_units`, `_descendants` as operators | `ReportingProofs` |
| `OrgWalks` | `shared_costs/helpers.py` `resolve_manager`, `cycles/reminders.py` `_walk_uplines`; extends `Scope` | `ReportingProofs` |
| `ImportRules` | the four validators, `_shared/row_validation.py`, `infra/tabular.py` and the readers' treatment of blank rows | `ImportRulesProofs` |
| `Reporting` | `domain/accounts/service.py`, `domain/consolidation/report.py` and `dashboard.py`, `unsubmitted_for_cycle`; extends `Scope` | `ReportingProofs` |
| `Notifications` | `domain/notifications`, `infra/email`, the callers' commits | `OpenCycleProofs` |
| `OpenCycle` | `api/v1/orchestrators/open_cycle.py`, `domain/templates`, the manager gate (`filing_units.py`), `exclusions.py`, `api/v1/admin/org_units.py`, `dispatch_deadline_reminders`; extends `Notifications` | `OpenCycleProofs` |
| `MCAuditChain`, `MCCycleLifecycle`, `MCUploadPipeline`, `MCJobQueue`, `MCAccess`, `MCReporting`, `MCOpenCycle` | instances for TLC | |

`CycleLifecycle` implements `CycleStatus` (checked and proved), so `UploadPipeline` composes
with `CycleStatus` instead of the five handlers. `Reporting` and `OpenCycle` take the
cycle's status the same way, as moves along the edges of the state machine, and `Reporting` takes the
uploads as the append-only rows that `VersionLog` promises. `OpenCycle` and `Notifications` are one
composition: the mails of the opening and of the reminders, and what the units' templates are by then.

**How the code becomes actions.** One action is what a handler does from one database
statement, or commit, to the next that other requests can see in between. In-memory checks
are guards. What a handler holds in memory (a status it read, a closing time it took, a
version it computed) is in the session's request record, which is why it can be stale. An error raised
before the first write is no step; an error, a conflict or a crash later is `Fail` or `Rollback`, which
may strike at every point. The commit that a unique index refuses is a disabled `Commit` or
`Persist`; `Fail` is then the way on.

**AuditChain.** `rows` is the committed table, `pending` the rows of open transactions,
`nextSeq` the sequence. `ReadLatest` and `InsertRow` are the halves of `record()`; several
calls may share a transaction; `Commit` and `Rollback` are the caller's. HMAC is taken to be collision free:
a hash is the list of payloads it covers. A row's `seen` field is history: what its
writer saw. The column `sequence_no` is taken to be filled from a sequence, as the ORM
model's `server_default` says.

**CycleLifecycle.** `Load...` actions read the row and check it, `Commit` writes the
columns the handler assigned by primary key whatever happened in between, `Audit` is the
second commit. `open()` decides on the default reminder schedule from a read of its own
(`ReadSchedule`) and its `DELETE` is a statement of its own (`DeleteSchedule`). The manager
gate of `open()` passes or fails with data outside this module, which `OpenCycle` has: a gate that fails is no step.
`LoadRemind` asks for no cycle, as the code does not: an empty list for an id of no cycle is
committed and audited, another is refused by the foreign key (`ForeignKeyHolds`). `lists` is history: the lists committed for
a cycle, each with the number of lists its `DELETE` could see; a row of the schedule is named by its day and its list.
The clock counts days, as `timedelta.days` does. Only that `opened_at` and
`reopened_at` are set is kept, `closed_at` keeps its value because `reopen()` computes with it.

**UploadPipeline.** The order of the steps of the three importers is data (`BudgetSteps`,
`PersonnelSteps`, `SharedCostSteps`): only shared costs read the version they are compared with.
`doc` stands for a request's content and for the fresh storage key it is saved under.
A personnel or shared cost row does not keep its storage key, so that its file exists
says less than for a budget upload, whose file can be downloaded.
The database makes a second `INSERT` of a version wait for the first one's commit and then
fail, so header, lines and commit are one action. `admitted` is history.

**JobQueue.** A worker is between two calls of `process_once`, in an open claim (it has read
the row and holds its lock), in the handler, or after the handler's own commit. The three
transactions of `process_once` (claim, outcome, and in between the handler's in sessions of its
own) are what a crash can separate. `Handled` is the registry of the worker process, which need not be
that of the API process in which `enqueue` checks the job type. The session that enqueues commits
(`CommitEnqueue`) or does not (`DropEnqueue`). A failed job goes back with
its old `enqueued_at`. `effects` and `lost` are history. `worker_id`, the result and the
error message are written and never read by the queue, and are left out. `MaxAttempts` is
at least 1: with 0 the code would still try once.

**Access.** A refresh token, its row in `sessions` and the access token minted with it are named by the
request that made them; a user who has a row at the start has one older session. A request remembers
the row it has read, and the ORM writes only the columns that now differ from it (`Merge`): that is why a patch of
the roles and a deactivation at the same time do not undo each other. `Expire` is the absolute
expiry, counted anew at every refresh. Access tokens are accepted until they expire whatever became of
their session, since `current_user` never reads the session row; so any user with any session may act.
Audit rows go through a side session of their own.

**Scope, OrgWalks.** No code moves a unit, so the tree is a parameter; nothing in the schema keeps it free of cycles, so
every function from units to parents is looked at. `resolve_manager` asks the database at each unit while `Staff`
changes who is there; `_walk_uplines` runs in memory over rows loaded once.

**ImportRules.** Rows combine every unit, account and amount. A cell is a class: a unit or account that is known, unknown or
blank, an amount in thousandths or something `Decimal` does not take. `WithoutBlanks` is the loop of both readers, which
drop blank rows. `validate` is the whole judgement of a
file, headers, rows, numbers of the faulty rows and the amounts kept; `Good` says in one line
what the documents ask of a row, and `ReadInOrder` what a reader may drop. A file is judged in one step (`Judge`), as no
validator touches the database. `Amounts` and `MaxRows` are what TLC looks at.

**Reporting.** A report is the statements of `build()` in the order of `BuildOrder`, each with a snapshot of
its own; its rows are computed from what it has read (`Rows`, `_build_row`). A figure is named by the version it comes from, an
actual by its import. A version keeps its lines, `uploaded_at` and (history) the time of its commit; `uploaded_at`
is taken after the version number (`NextVersions`), so it may be any time since the version before was committed. `_latest_budget_ts` is
the time of a version of highest number, of any unit that has as many (`LatestUnits`), as `ORDER BY version DESC LIMIT 1` over
the units of a cycle leaves it open which. Time is the number of writes of other components: what happens in between two
of them has the later one's number. The dashboard is `_collect_rows` statement by statement. `DeleteOld` and `CommitImport` are the
halves of `import_actuals`; the unique key refuses a row that another import has committed in between. An
upload, a template download, a resubmit request and a move of the cycle are the steps of the other components.

**Notifications.** What a request has to send is `post`: its recipients, the rows of its open
transaction, and how it ends. `send` has the three outcomes of `NotificationService.send`: sent; an SMTP error, after
which the mail may be out all the same; another exception, which only the reminder job survives. `CommitPost` is
the commit of the routes that make one (`resend`, resubmit requests). A `resend` has loaded the row, and the ORM leaves a status
equal to the loaded one out of its UPDATE (`StatusWritten`); confirmations, the opening and the
reminders make none, so their rows vanish with the session.

**OpenCycle.** One request goes through the gate (`ReadCycle`, `ReadUnits`, `ReadUsers`), the commit, the generation
of each unit (`Save`, `Delete`, `Insert`, `AuditRow`, or `GenerationFails` and its error row), `Dispatch` and
`Respond`. Other requests regenerate, download, exclude a unit, patch a unit, send, while users and the
cycle change. `aborted` is where the exception handler of `_generate_single_unit` raises (see 5).
An exclusion or a patch reads the unit's list (`ReadUnit`) and
writes it back whole (`CommitList`), unless its new list is the one it read. `RecipientsOf` is any subset of the units with a template, since
`_resolve_recipients` takes every active user of theirs whose address it can read, in whatever role.
`changed`, `before`, `over`, `served` are history; `over` says whose lists a request's own list replaced.

## 3. Runs

| run | expects | shows |
|---|---|---|
| `audit_chain` | pass | no dangling link, breaks only between overlapping writers, windows verify whenever the table does |
| `audit_fork` | violation of `UntamperedTableVerifies` | two overlapping writers fork the chain and `verify_chain` reports tampering |
| `cycle_lifecycle` | pass | state machine, unique year, `draft` left only through `open()`, truthful audit rows, a reminder schedule holds whole lists and nothing else |
| `cycle_open_from_closed` | violation of `OpenOnlyFromDraft` | `open()` reopens a closed cycle, which its docstring excludes |
| `uploads` | pass | version log, files, truthful audit rows, comparison base, no new work in a closed cycle |
| `shared_cost_audit` | violation of `SuccessIsAudited` | the audit row of a shared cost import is never committed |
| `job_queue` | pass | one worker per job, work counted by attempts, ended jobs stay ended, every queued job ends unless a worker dies with it |
| `job_restart` | violation of `JobsSurviveRestart` | a job whose worker dies stays running for ever, also after the restart |
| `access` | pass | a refresh token is exchanged twice only by overlapping refreshes; a logout ends what had committed before it; an administrator's change holds; no session for an inactive user but in one window |
| `reporting` | pass | reports and dashboards against concurrent writers; imports of actuals; the scope is the subtree; the two walks; the four validators over every small file |
| `opening` | pass | the manager gate, exclusions and patches of the exclusion list in the order of their commits, templates with their files and counters, and mails that stand for something committed |
| `template_isolation` | violation of `GenerationGoesOn` | one unit that fails ends the generation of all |

**Bounds, and why they are enough.** `audit_chain`: three writers (two that overlap and one that
sees the result), four numbers (a rollback, a fork and a row after it), two instants. `cycle_lifecycle`:
two sessions and two cycles of one year, the case where they compete for the year; two
days and a window of zero, so that reopening both succeeds and is too late; three
lists per cycle (`MaxLists`): two that race and the one they replace. `OneHazard` keeps two families of races
apart: states with schedule changes have one cycle and a clock that stands still, and end with the third list; states with two cycles or
a later day have `open()`'s default schedule only (731,460 states).
`uploads`: three sessions, so that two race while a third has finished; three
documents, hence at most three versions; one series of each kind in one cycle that
the runs open and close freely. Sessions, cycles, ids and documents are symmetric in
the runs that check invariants and safety refinements; no liveness is checked under symmetry.
`job_queue`: two workers compete for three jobs, so that one can be in each worker's hands
and another wait; one job has no handler; two attempts are a retry and a last try; one crash can strike at each step.
`access`: two requests of any two kinds, two users and two roles, so that an administrator and the user he changes
may be one or two; every race of this component is one of two requests. `reporting` has three parts that share no state: a
behaviour is one of a part and the others rest. Reports: one report or dashboard against an import
or an upsert (or two of those) on a tree of a company and a filing unit below it, one account, two writes of other components
at any two points; two readers do not disturb each other. `OnlyWhatIsRead` is a constraint: nothing is written
to a table that no request of the behaviour reads, an upload's time is told from its commit only where a report shows times, and
an import or upsert beside a report meets one write of a third party, not two (1,449,860 states). Walks: every parent function on three units, which includes
a chain, a fork, a loop and a loop that hangs on a chain, and users who come and go at every step. Files: every file of at most two rows
over all combinations of unit, account and amount, and over four sets of columns, which has one good and one faulty row in either order, blank rows included.
`opening`: two requests of any two kinds over two units, one move of a third party, and a second cycle
that the exclusion list may hold. Two units are one that fails and one that is
still to be done. At the start no unit is excluded from the other cycle, and the units of an open cycle
all have a template or none has (`MCInit`). Requests and units are symmetric.
Deadlock is not checked where all there is to do may have been done: in `job_queue`, where
`Jobs` is a bound, and in `access`, `reporting`, `opening` and `template_isolation`, where each request runs once.

**Fairness.** Request handlers may stop at any point, as they do when a client goes away or the
process dies, so the modules of requests assume none and state no liveness. `JobQueue` assumes weak fairness
of `process_once` for each worker: `run_worker` polls for ever, and a handler
returns or raises. The latter is an assumption, since the code sets no time limit; a handler that
hangs keeps its job running. Nothing is assumed of callers, and crashes are not fair; how
many there are is a bound. That `QueuedJobsEnd` holds needs that finitely many jobs are ahead
in the order of `enqueued_at`, and that each is tried a bounded number of times.

**Mutants.** Each property has an operator marked `(mutant: ...)` that changes one mapped definition
the way a plausible bug would (a missing unique constraint, `ORDER BY occurred_at`, a
missing assignment, an audit row first). TLC finds the property violated with it.

## 4. Proofs

Every invariant, action property and safety refinement that a passing run checks is also a theorem. The theorems hold for every number
of requests, users, units, cycles, jobs, documents and accounts, for every tree of units and files of every length,
from named assumptions on the constants only: `BoundsAssumption`, `CycleAssumption`, `UploadAssumption`, `JobAssumption`,
`AccessAssumption`, `AbsentAssumption`, `WalkAssumption`, `ReportingAssumption`, `NotificationsAssumption`,
`OpenCycleAssumption`, `ImportAssumption`. TLC evaluates them in the runs. They say that bounds are numbers,
that the constants have their types, that the units in one table are finitely many (for walks and reports), and that `NULL` is none of
the values it stands beside. The last needs saying: `NULL` is any value, and without it a request could itself be `NULL`.

Each module of proofs has one inductive invariant, `IInv` (`WalkInv` for the walks); only a file, judged in one step, needs none. What is proved of it: the initial states have it, every action keeps it, and
the properties follow. TLC checked each of them on the instance of its run before it was proved. In most of them the
work is in `Sound`: what of a request's stale reads is still true
when it writes, and if it is not, who has committed in between.

* **AuditChainProofs**: `TypeCorrect`, `LinksNeverDangle`, `BreaksNeedOverlap`, `SeenTableVerifies`, `SerialTableVerifies`,
  `WindowsVerify`.
  `LinksResolve` is not inductive: a session in the middle of `record()` holds a `prev_hash`
  that must still be in the table at its commit. `IInv` therefore says of committed rows,
  of pending rows and of sessions between read and insert that they are linked to the highest row
  they saw (`RowsLinked`, `PendingLinked`, `SessionsLinked`), and that
  numbers are never handed out twice (`NumbersUnique`). `SeenTableVerifies` is the
  positive half of the fork finding: in every state in which each committed row is by a writer that had seen the rows numbered below
  it (`EveryRowSeen`), `verify_chain` accepts the table. `SerialTableVerifies` says what gives that: any number of sessions that
  take turns from the read of the latest row to the commit or the rollback (`TakesTurns`, as under a lock), among which rollbacks still leave gaps in the numbers.
  Its invariant is that a session between read and insert has seen every row there is (`SawEverything`, `OneTurn`). `WindowsVerify`: if the table verifies,
  a row's predecessor by number is the row it read, which was written no later. So numbers are in the order of time, by
  the smallest number for which that fails, and a window of `occurred_at` is a run of neighbours.
* **CycleLifecycleProofs**: `TypeCorrect`, `OneActivePerYear`, `OpenedAndClosedInOrder`, `AuditIsTruthful`,
  `SchedulesNeverMix`, `Implements` (every step is a step of
  `CycleStatus` or leaves `status` unchanged). The invariant
  records what of a stale read stays true: a cycle that was open has `opened_at` set for ever,
  one that was closed keeps a `closed_at`, and the creator of a row is alone with it. That is why
  a commit that writes `open` or `closed` over any later status is still an edge of the
  state machine. `SchedulesNeverMix` says what a schedule holds after replacements
  that overlapped: every list that no later `DELETE` could see, whole, and no other row. It rests on `DeletesConsistent`: what a request is about to
  delete are the rows of the lists committed before its `DELETE`, as far as they are still there. `ClosedHasClosingTime` (a closed cycle has its closing time, which `reopen()` computes with) is
  proved with `OpenedAndClosedInOrder` and has no run of its own.
* **UploadPipelineProofs**: `TypeCorrect`, `NoNewWorkAfterClose`, `FilesExist`, `AuditsFollowCommits`, `BasesAreEarlier`,
  `Implements` (the importers implement `VersionLog`). Versions have no gap because
  `MAX + 1` was computed from committed rows that are never removed (`VersionsDense`), so at a
  commit that the unique constraint lets through, the number is exactly one more than the length. The same holds the base of a
  comparison below the version it is compared with, however many imports are accepted in between.
* **JobQueueProofs**: `TypeCorrect`, `ClaimsExclusive`, `WorkCounted`, `Implements` (the queue implements
  `JobStatus`). What a worker remembers of its row must stay true while it works
  without a transaction: `WorkersConsistent` says that the row still has the status the worker
  left and the attempts it counted, which holds because every other worker holds another job
  (`ClaimedOnce`) and every row outside the queue is out of reach of a select;
  `RowsConsistent` that a queued row has a try left, so that the next claim stays within
  `MaxAttempts`.
* **AccessProofs**: `TypeCorrect`, `TokensExchangedOnce`, `LogoutsEndSessions`, `AdministrationStands`, and the action
  property `InactiveGetNoSession`. A session minted by a refresh has a revoked parent (`Backed`), and nothing makes a revoked
  session live again. So a refresh that has found its token live has no successor of it in `before`
  (`TokenUnspent`), and a logout still has to revoke every live session that is not of a later request
  (`SessionsKnown`). `RowCurrent` says of a user row between its read and its write that it is as it was read, or that
  a login or a patch since then has changed it. That the ORM writes only the changed columns (`Merge`) carries it over to what is written (`ChangeHolds`).
* **ReportingProofs**, the walks: `NearestUnitIsTold`, `WalksAreBounded`, `ScopeIsTheSubtree`, on any parent links, cycles included. The units above
  one are the least set that holds it and is closed under parent links (`AboveLeast`), so the invariant of a walk relates the
  units passed to those still above, and needs no induction over a tree. That `_descendants` finds the subtree
  is an argument about its generations: what a generation adds is below the root; if the last of them still
  added a unit, each before it had added one, and they would be more than there are.
* **ReportingProofs**, the reads: `TypeCorrect`, `ReportsCoverTheirScope`, `StampsCoverFigures`,
  `ActualsAreOfOneImport`, `SubmittedUnitsAreShown`. A request keeps copies of what it has read; versions are only appended and
  accounts only added, so a copy stays below the table (`VersionsExist`, `CodesKnown`, `Stamped`). `StampsCoverFigures` is all that can be said of the timestamps:
  times grow with the versions of one series, so personnel and shared cost figures are no newer than theirs; the budget timestamp is that of
  a highest version, which says nothing of the figures of another unit (see 5). The actuals are the exception, as
  an import deletes rows. But a table of actuals holds the files of its imports as a whole (`Whole`), which a delete of all rows a
  snapshot shows keeps, and what of it is still to be removed was seen (`Removes`).
* **OpenCycleProofs**: `TypeCorrect`, `TheGateHolds`, `ExclusionsAreKept`, `TemplatesAreServed`, `MailsTellTruth`, for opening, templates, lists and mails at once.
  Of other requests the invariant needs only facts that hold for ever once they hold. `Passed(q, u)`: a request is done writing
  a row for a unit; a file is only served, and a download only counts, after that, so the fresh row with its counter of 0 cannot follow a
  download of the file it offers (`RowsServe`, `Counting`). `Listed`, for exclusions and patches: between read and write, the unit's list is still as it was
  read, or another change has been committed since; and what a change committed before the read says of the list that was read holds, or had been undone. So a list that is written back
  whole undoes nothing but what came in between (`ListsHold`, `Undoes`). `Gated`: what the gate read holds but for the
  units that were changed since. `Justified`: what stands behind a mail is there before the
  recipient is on the list of mails to send, and never goes away.
* **ImportRulesProofs**: `FilesAreJudged`, for files of any length and any amounts. What the readers' loop has kept after `n`
  rows is those rows without the blank ones, in order (`RowsAreRead`). A set that holds 0 and the successor of each of its members below `N`
  holds every number up to `N` (`UpTo`, from the least one missing): this takes the place of the induction theorems
  of the library, which no prover here can instantiate. Rounding half to even is within half a cent (`Rounded`), which
  gives the clause that only an amount below a cent becomes zero.

**Model-checked only**: `QueuedJobsEnd`, as liveness and the ENABLED of its fairness are out of the prover's reach, and the
five violations, which are counterexamples. The proofs are about the specifications of the components; that the parts of `MCReporting` and `MCInit` of `MCOpenCycle` are
restrictions of those is by construction of these modules.

## 5. Known divergences that no run shows

* A close that commits after `assert_open` does not stop the upload (FR-006 in
  `src/specs/domain_cycles.md` speaks of writes after closing);
  `ClosedCycleAdmitsNoNewWork` states what does hold.
* `src/consistency-registry.md` CR-006 wants the operation rolled back when its audit row fails; the code has
  committed it by then.
* `infra/db/helpers.py` asks callers to retry a version conflict; none does.
* `src/specs/domain_cycles.md` calls the `PATCH` of the schedule a replacement; two of them
  can merge: two lists of different days stand side by side when neither `DELETE` saw the other's rows, which `SchedulesAreWholeLists`
  says exactly; with a day in common the second is a server error. An empty list for a cycle that does not exist succeeds and is audited. The default schedule is set by `open()`, not by `create()`, and it overrides an
  empty schedule set on a draft.
* A draft is refused by `reopen()` with CYCLE_005, since the state machine lets it pass.
* As the code is wired, no export job would run: only the API's `lifespan` (`main.py`) registers the handler of
  `report_export`, the worker's `register_all_handlers` registers nothing, and the export
  route commits neither the job nor its audit row. `JobQueue` models every registry and both
  outcomes of the caller.
* `domain/templates/service.py`: an SQLAlchemy rollback expires every object of the session, whatever `expire_on_commit` says. The log line after
  it (254) reads `cycle.id`, which is then a lazy load outside a greenlet: it raises. This one is a run (`template_isolation`). Where it does not
  raise, the error row takes the place of a good template, which can then no longer be downloaded.
* `_walk_uplines` has no visited set; on a cycle of parents without reviewers the dispatch never returns. `WalksEnd` does not exclude it: it says
  that this is the only case, and that `resolve_manager` ends in every case.
* `parse_amount` asks for zero before it rounds: 0.004 passes as positive and becomes 0.00, which the table's `CHECK` refuses as a server error.
* The readers drop blank rows, so the row numbers in errors are not the rows of the file. Two rows for one unit and
  account pass validation and fail at the unique key.
* A unit whose latest upload has no lines is reported as `not_uploaded`. `_latest_budget_ts` says "Return the latest ``BudgetUpload.uploaded_at`` for the cycle" (`domain/consolidation/report.py:406`)
  and takes the `uploaded_at` of the highest version of all units: with unit A's second version of Monday and unit B's first of Friday, the report says Monday, and B's
  figures are newer. `StampCoversFigures` says what is left of the promise. A unit that submits between the dashboard's two reads is shown as
  not uploaded, with a version; `SubmittedIsShown` is about the units that had submitted before. The dashboard's resubmit status never ends: no code closes a resubmit request.
* Login reactivates a deactivated user and overwrites the roles an administrator gave. A refresh starts a new absolute expiry. Logout with an expired
  access token revokes nothing; an access token stays good after a logout; a refresh that overlaps a logout survives it.
  `get_active`, `touch` and `verify_csrf` have no caller.
* Two imports of actuals at a time: with disjoint keys both files stay, with a common key the second is a server error.
* The rows of confirmations, of opening mails and of reminders are flushed and never committed, against
  `src/backend/src/app/domain/notifications/resubmit.py:157-158` ("The notification service already committed its own audit row inside send()").
* `resend` does not ask whether the notification failed, and renders its template with an empty context, which the shipped templates refuse. When two
  resend at a time, one with success, and both loaded `failed`, the one that fails writes no status, as it is the one it loaded, and `sent` stays; if it loaded `sent` it may leave
  `failed` on a mail that went out.
* The templates of deadline reminders and resubmit requests name variables their callers do not pass: the send raises, for a resubmit request after its commit and before its audit row.
* E-mail addresses are read by decoding ciphertext as UTF-8, so that no recipient is found with real encryption.
  `get_notification_service` returns None, and the open route passes none; the run takes `Wired` as true, with which there is more to go wrong.
* Exclusions are a list in one column: one is lost to a change of another cycle's exclusion that overlaps with it. `apply_exclusion`
  is called by `set_exclusions` alone, and that by nothing under `src/backend/src/app`, where the PATCH of a unit is the only writer. Nothing registers the reminder job.
* The open route always answers `draft_to_open`, also for a closed cycle.
* `api/v1/reports.py` serves the download of an export whose job is `completed`; the worker writes `succeeded`.

## 6. Not modelled

Byte layouts, hashing and encryption, HTTP and JSON, workbook content and styling,
log lines, the connection pool, alembic as a process, the frontend. Of the modelled components: `query()` of the
audit log, lists, filters, sorting and paging (they read and change nothing); the delta percentage as a
number; `build_affected_summary` and `diff_affected_units`; the synchronous export and the
download of exports; the CSRF comparison and token signatures; which reminder schedules are due on a day; the
APScheduler. Whether a file survives a disk failure and whether PostgreSQL keeps
its promises are assumed.

## 7. Plan

Every component that keeps state has its module, and every safety property its theorem. What is left:

1. `diff_affected_units` against a reference definition (which units a diff names), and its theorem; the delta percentage.
2. That `Reporting`'s uploads and costs, and `OpenCycle`'s status, are the variables of `VersionLog` and `CycleStatus`: a
   refinement of each, stated and proved, in place of the argument in section 2.
3. More about the algorithms: that a refused file is accepted once its faulty rows are removed, and that a reader's scope grows with
   his roles or where it does not.
