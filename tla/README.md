# AegisCrawler: TLA+ specifications

AegisCrawler runs browser crawls from declarative rules. A Go server keeps rules, tasks,
schedules, LLM workflows and their budgets in one SQLite database. TypeScript workers claim tasks
over HTTP and run the rules in a browser: a host that drives Chromium contexts, or a userscript
that drives tabs. A browser extension records what a person does, an LLM wizard turns the recording
into a rule, and operators work in an admin UI. The specifications model the places where these
meet: shared rows, lost requests, pages and service workers that die, answers that come late.

`PROJECT.json` lists the components, the runs, the source lines every definition stands for, the
hazards with the properties that watch them, and the theorems. `tlc -config <cfg> <module>` checks
a run, `tlapm <module>.tla` checks the proofs of a module.

## 1. Inventory

### The server (Go)

**Task store, worker API, lease sweeper, human interventions, rule approval**
(`store/store.go`, `execution.go`, `human_intervention.go`, `rule_version.go`, `workspace.go`,
`api/handlers.go`, `scheduler/scheduler.go`). State: rows of `tasks`, `execution_attempts`,
`results`, `human_interventions`, approvals. Operations: create, claim, heartbeat, report a status
with and without an attempt id, submit results, cancel, retry; open, poll, decide and expire an
intervention; the sweeper's expire, list, read, release, dead-letter. The store has one connection,
so each transaction is atomic; the sweeper and the submission of results use several, with any
request between them. *Hard:* late reports of a worker that lost its lease; two writers of a task's
three tables; a decision, its deadline, the worker and the sweeper competing for one wait; one bad
row that stops every sweep. *Correct when:* tasks, attempts and interventions agree, closed rows
stay closed, held tasks can be swept, retries are bounded, `done` means delivered.

**Schedules and the scheduler lock** (`scheduler/schedules.go`, parts of `store.go` and
`handlers.go`). State: `schedules`, `scheduler_locks`, a runner in every server process. *Hard:* the
lease of the lock ends in mid-run; a crash between task and row; whole-row writes over an
operator's change; catch-up arithmetic. *Correct when:* each scheduled minute gets one task, none
is lost, every due row is seen to.

**Idempotency middleware** (`api/idempotency_middleware.go`, `store/idempotency.go`) and **circuit
breaker** (`api/circuitbreaker.go`). *Hard:* repeats and different bodies under one key at once, a
timeout while the handler runs on, a restart between effect and storage; answers recorded in
another period than the one that admitted the request. *Correct when:* a repeat takes effect once
and gets its own answer; half-open cannot get stuck and old failures do not open a closed circuit.

**LLM budget ledger and enforced completions** (`store/llm_budget.go`, `llm/budget`,
`llm/orchestrator.go`, `llm/dispatch.go`, the envelope of `store/dsl_workflow.go`). State:
reservations by dispatch identity, spending of workflows, the position of each call. *Hard:* lost
COMMIT answers, crashes around the network call, several processes, midnight, rounding. *Correct
when:* caps hold, what may have been sent stays counted and is never sent again.

### The runtimes (TypeScript)

**Rule engine and worker page** (`scriptcat-engine/executor.ts`, `executor-utils.ts`,
`step-path.ts`, `actions/index.ts`, `worker-host/page-driver.ts`, `worker-page`). State: the
position in a tree of steps, the context, the session in the page, the checkpoint at the host.
*Hard:* a navigation kills the script anywhere, what survives is kept in two places; a handler
given up after its timeout goes on beside its retry; branches and tabs share breakers and quotas.
*Correct when:* nothing completed runs again, nothing is skipped, handlers leave no key pressed.

**Worker and transport** (`worker/Worker.ts`, `HttpTransport.ts`, `buffering-transport.ts`).
*Hard:* a batch or its answer is lost and sent again, by the same call, the next tick or the drain.
*Correct when:* the server has each row once and a terminal status it accepts.

**Browser worker host** (`worker-host/host.ts`, `cli.ts`, `bridge-protocol.ts`). *Hard:* a signal
while slots are launched, claim, run or wait for a person. *Correct when:* a clean exit abandons no
task and everything ends.

**Userscript dispatcher and executor** (`dispatcher-entry.ts`, `userscript-entry.ts`,
`transport.ts`). *Hard:* a reload between a send and its checkpoint. *Correct when:* `done` has
every row once, no tab is left open.

### What people use

**Extension: recording** (`extension/src/background.ts`, `content.ts`), **replay and wizard**
(`intent/intent-page.ts`, `intent/replay-runner.ts`). State: memory of a service worker that may
die at any await, `chrome.storage`, tabs, the promise chain of handlers. *Hard:* a recording moves
between pages in four messages; a stop holds the chain and waits for a page that waits for the
chain; clean-ups of one replay overlap the next. *Correct when:* recorded events are kept and only
one page records; a replay is accepted only when it ran; what is confirmed is what was shown.

**Rule generator** (`rule-generator/recorder`, `rule-generator/converter`,
`extension/src/recording/preprocessor.ts`). State: the hooks of a page controller with the calls that
are in them; otherwise a function from a recording to a rule. *Hard:* a hooked call awaits a snapshot
and the method before it writes its event, so events, snapshots and the document differ in age; texts
typed are replaced wherever they occur. *Correct when:* the rule does what was shown.

**Admin UI** (`admin-ui/src/pages`, `api/client.ts`, `contexts`). *Hard:* answers in any order
while a draft is edited by paths. *Correct when:* what is saved, decided and shown is what it was
when the person acted.

**Live qualification** (`scripts/live-workflow`, `live-workflow-test.ts`). *Hard:* booting fails at
any step, later phases fail or are given up. *Correct when:* what was started is given back and the
exit code tells the truth.

Section 9 lists the parts without a module.

## 2. Modules

| Module | Models | Checked by | Proofs |
|---|---|---|---|
| `TaskLifecycle` | task store, worker API, sweeper, interventions, rule approval | `MCTaskLifecycle` | `TaskLifecycleProofs` |
| `AttemptLedger` | abstract: what the task store promises of attempts | refined by `TaskLifecycle` | `TaskLifecycleProofs` |
| `ScheduleRunner` | schedules, scheduler lock, runners | `MCScheduleRunner` | `ScheduleRunnerProofs` |
| `LLMBudget` | ledger, enforced completions, envelopes | `MCLLMBudget` | `LLMBudgetProofs` |
| `Idempotency` | middleware, its table and mutexes | `MCServices` | `ServiceProofs` |
| `CircuitBreaker` | one endpoint | `MCServices` | `ServiceProofs` |
| `Dispatch` | userscript dispatcher, its tabs, the executor in them | `MCServices` | `ServiceProofs` |
| `Host` | browser worker host, its slots, signals | `MCServices` | `ServiceProofs` |
| `PageBridge` | the channel from page to host and the buffer behind it | `MCServices` | `ServiceProofs` |
| `LiveSetup` | live qualification: `main()` around the scenarios | `MCServices` | `ServiceProofs` |
| `LiveRun` | live qualification: a scenario | `MCServices` | `ServiceProofs` |
| `RuleRun` | executor and page driver over navigations | `MCExecution` | `RuleRunProofs` |
| `Actions` | action handlers on a moving page | `MCExecution` | `RuleRunProofs` |
| `StepGuards` | breaker, quota and human steps of a rule | `MCExecution` | `WorkerTaskProofs` |
| `WorkerTask` | one claimed task: buffer, transport, terminal status | `MCExecution` | `WorkerTaskProofs` |
| `Recorder` | a recording in the extension | `MCExtension` | |
| `ReplaySession` | a replay of a provisional rule | `MCExtension` | `InterfaceProofs` |
| `Capture` | recording within one document, snapshots, marks | `MCInterfaces` | |
| `RuleConversion` | recorder hooks and the converter from a recording to a rule | `MCInterfaces` | |
| `Wizard` | requirement and DSL workflow as the wizard sees it | `MCInterfaces` | |
| `RuleEditor` | the admin UI's rule page | `MCInterfaces` | |
| `Console` | the other pages of the admin UI | `MCInterfaces` | `InterfaceProofs` |
| `InductionLemmas` | least elements, counting up, sums over finite sets | | cited by the other proof modules |

**Conventions.** A transaction of the store, or a statement outside one, is one action; a handler
that uses several is several actions with its locals in a variable (`inflight`, `sweep`, `runner`,
`editor`, `call`). TypeScript code is cut at its awaits: what runs between two of them is one
action. A deadline is only compared with the clock, so a lease is `live` or `expired` and an action
lets it run out. Contents of payloads, prompts, pages and log lines are left out; a row, a page, an
event is named by what the code tells apart. Variables that the code does not have are marked
*ghost* and only record what happened. A definition "a slip" beside another is a plausible mistake
in it, used by no specification.

**Sums of modules.** `MCExecution`, `MCExtension`, `MCInterfaces` and `MCServices` extend several
modules that share no variable, and a selector (`part`, `half`, `screen`, `service`) fixed in the
initial state says which of them moves, the others staying as they are at rest. A state of the sum
is a state of one part, so the sum checks each part's specification unchanged. Fairness is stated
per goroutine, page or timer; the sum asks weak fairness of disjunctions that hold at most one
disjunct of every part, which for a fixed selector is the fairness of that part's disjunct.

**How state and actions correspond to the code.**

* `TaskLifecycle`: `task`, `attempts`, `human`, `results` are tables, `inflight` the submissions
  between the check and the insert of `InsertResultIdempotent`, `sweep` the sweeper's goroutine.
  `ClaimTask` is the whole of `claimTask`: limit (`ActiveCount`), selection (`Eligible`,
  `ClaimsBefore`), the next attempt, the version resolved after the selection. `WriteStatus` is what
  both status handlers write; their guards differ. An overdue row that nothing waits on disables
  `SweepExpire`, the code's early return. `AttemptLedger` keeps a phase per task and a numbered list
  of attempts: opened one at a time and in order, closed once, held exactly while one is open.
* `ScheduleRunner`: one minute is a unit of time, `CronSlots` the minutes an expression matches.
  `runner` holds rows as listed, so `UpdateAfterRun` writes a stale copy as the code does; `editor`
  is an admin update between its read and its write. `disturbed` (ghost) says what went wrong so far.
* `LLMBudget`: an identity is an operation and a route; `call` is one completion through
  `completeEnforced` and `dispatchAdmitted`. Each ledger call has a form that fails with or without
  effect: `ReserveRefused(c, TRUE)` is a COMMIT whose answer was lost. `Restart` loses all calls and
  reconciles; `Recover` is another process starting on the same database.
* `Idempotency`: `mutexes` are the locked entries of `idempotencyInflight`, named by key and body;
  `excused` (ghost) the keys whose response expired or could not be stored. `CircuitBreaker`: a
  request remembers only whether it was admitted as a probe.
* `Dispatch`: `dsp` is each dispatcher's loop, `tabs` hash and `sessionStorage` per attempt, `realms`
  the executor in it. A realm's `seq` starts from 0 in every page (`createTransport`).
* `Host`: `proc` is `main` and `start`, `sig` the signal handler, `slot` each `Worker` loop, `srv` the
  server's leases as the claims see them.
* `WorkerTask`: `buffer`, `retry` and `chain` are the buffer's rows, the failed batch and the queued
  flushes; `posts` the request each caller has under way. `StepGuards`: `breakers` live on `window`,
  `quota` in `localStorage`. `RuleRun`: `session` and `host.checkpoint` are the two places that
  survive a page. `Recorder` and `ReplaySession`: `jobs` are handlers cut at their awaits, the four
  stores survive a crash. `Wizard`, `RuleEditor`, `Console`: a request is a record that is answered
  in any order.

## 3. Runs

| Run | Instance | Checks |
|---|---|---|
| `task_attempts` | 1 task, 2 workers, 2 attempts, 1 intervention, 1 retry, a rule getting a version; fair sweeper | `TypeOK`, `OneOpenAttempt`, `WaitHasDecision`, `QueueIsSound`, `ClosedStaysClosed`, `SweeperCatchesUp` |
| `task_results` | 1 versioned task, 2 attempts, a batch and rival summaries | `DoneHasResults` |
| `task_queue` | 2 tasks (one bound to a profile), 2 workers with limit 1 | `LimitPassedOnlyByApproval`, `ImplementsLedger` |
| `schedule_runs` | 1 cron schedule with catch-up, 2 instances, 4 minutes | `RunsAreSound`, `NoRunLost` |
| `schedule_mixed` | cron and one-time schedule, 1 instance; fair runner | `DueIsHandled` |
| `budget_ledger` | 3 calls (2 of one operation), 2 workspaces, 2 routes, 2 days | `LedgerIsSound`, `DispatchIsAccounted`, `TrustedCostFits` |
| `execution` | 6 rules on 3 pages, 50 rules of actions, 2 branches, a task of 4 rows | `RunSurvivesPages`, `HandlersLeaveNothing`, `GuardsHold`, `ResultsAreExact`, `WorkSettles` |
| `extension` | 2 tabs, 2 origins; 2 replays of a rule with a navigation | `RecordingIsKept`, `ReplayIsTrue`, `FinalIsFinal`, `RetainedStays`, `StopsAndSessionsEnd` |
| `interfaces` | 3 pages, 2 events; 8 demonstrations of up to 4 events; 3 jobs and a workflow; rules of 3 and 4 steps; 8 console pages | `CaptureIsFaithful`, `RuleIsWhatWasShown`, `WizardShowsTruth`, `EditorIsTrue`, `ConsoleIsTrue`, `NobodyWaits` |
| `services` | 4 requests under one key; 3 requests, threshold 2; 1 dispatcher, 3 rules, 2 attempts; 2 slots; 3 page calls; every selection of scenarios and switches | `RepeatsAreSafe`, `BreakerIsSound`, `DispatchIsExact`, `HostDrains`, `BridgeKeepsCalls`, `RunIsHonest`, `SetupIsHonest`, `NoTaskAfterStop`, `EverythingEnds` |
| `task_lateresult` | 1 versioned task, 3 results | finding: `NoResultAfterClose` is violated |
| `dispatch_resume` | 1 dispatcher, no fault at all | finding: `ResumeNeverConflicts` is violated |

The sums have between half a million and a million distinct states each, `budget_ledger` a million
under symmetry, `schedule_runs` two million.

### Properties
A headline such as `QueueIsSound` or `GuardsHold` is the conjunction, at the end of its module, of
the module's type invariant and its named safety parts; the parts carry their own comments. Those
that take some explaining:

* `OneOpenAttempt`, `WaitHasDecision`, `HeldIsSweepable` (in `QueueIsSound`): many operations write
  two or three tables on their own; one forgotten row is a task nobody can finish, or a sweeper that
  stops. `RetriesBounded` relates the count the sweeper read to the row's at the time it acts.
* `DoneHasResults` looks at the results of the attempt that finished, after another attempt of the
  same task left results behind. `LimitPassedOnlyByApproval` is an action property: the limit is
  passed, and it says how.
* `OneTaskPerRun` (in `RunsAreSound`) holds without crash, failed write, overlap or edit: what is
  left is the arithmetic of `nextRun`, catch-up and the hand-over of the lock. `NoRunLost` holds also
  with crashes and failed writes, since the task comes before the row.
* `NoRedispatch` ties the requests sent for an identity to the one call that may still send.
  `SpendIsLedgered` holds although settlement and envelope are two transactions and another process
  may settle in between, because that process charges in full.
* `DispatchIsExact`: a realm that lost its count starts numbering from 1 again; either its number is
  the one of the step, or the server refuses it, so no row is stored twice.
* `HostDrains`, `NoTaskAfterStop`: an answer to a claim that comes after the stop is not started, and
  a clean exit waits for what is under way.
* `RuleIsWhatWasShown` runs the rule on the document that was demonstrated on and compares what was
  done: clicks, submissions, extractions and scrolls of the same targets in the same order, each with
  the same contents of the fields, and the same document in the end. It leaves out what no recording
  can tell (`beyond`: overlapping calls, a snapshot that failed, a tab opened and not gone to, a field
  reached by Tab) and words that occur in a placeholder (`NamesClash`).
* `ReplayIsTrue`: a history variable notes what a replay is not protected against. `VerifiedRan` and
  `OneRunner` except behaviours in which a handler outlived its replay (`late`) or two replays met
  (`overlap`: one is asked for while another is active, stored or being cleaned up); `VerifiedHasRows`
  those in which a runner went on in the middle of the rule without any context (`blind`,
  section 6). Crashes, navigations and lost messages are not excepted.
* `RunSurvivesPages`, `ResultsAreExact`, `RecordingIsKept`, `ReplayIsTrue`, `CaptureIsFaithful`,
  `WizardShowsTruth`, `EditorIsTrue`, `ConsoleIsTrue`: each relates what a component shows, stores or
  accepts to ghosts of what really happened, under the losses the component is built for.

### Bounds
Server: two attempts are the least for a late report or a leftover result, and with `MaxRetries = 1`
a task meets both a requeue and a dead letter. Three more minutes suffice for a run, a missed one, a
catch-up and a jump; `MaxCatchUp` is `maxCatchUpIterations` made small so that the cap is met.
`MaxDay = 1` allows one midnight; `CallMaxRetries = 1` and a rate unit of two tokens make retry and
rounding happen; caps let two reservations fit a workspace and not three a day.

Runtimes: two navigations (`MaxNavs`) with a hop limit of one give a run that is resumed, resumed
again and refused; one message on the wire (`MaxWire`) is enough for a stale checkpoint, and six rules
hold each container, signal and hook once. Two tries
and two changes of the page give a handler that goes on beside its retry. Two branches, threshold,
limit, window and cooldown of two in four units of time let a breaker open, cool down, be probed and
reopen. Four rows, a batch of one, a buffer of one and two faults meet the cap, a repeat and a lost
answer. `Dispatch` has one reload and one fault, `Host` one fault and two leases, `PageBridge` three
calls on a buffer of one with a server that is busy up to four times.

Extension and interfaces: outside events (starts, stops, navigations, closed tabs, crashes, edits)
are given out by *plans*, each a small bag of one kind of trouble, because their free combination is
out of reach; every plan is a constant of the run and listed in its MC module. A demonstration is four events at
most, of one kind or two, on two views and a page no recorder runs in: enough for a text that grows, is
submitted and leads on, for two snapshots of one millisecond, for a group of extractions with a way to
the next page, and for two hooked calls that overlap. The live options are those of nine switches, the
profile and the selections that differ to the validators, the empty and the repeated one included.

The theorems of section 4 have none of these bounds.

`SYMMETRY` is used only in runs without liveness. Deadlock is checked in the runs of
`TaskLifecycle` and `ScheduleRunner`; the others are finite pieces of work (a set of calls, a
scenario, a rule) that come to their end.

### Fairness
* Sweeper (`task_attempts`): weak fairness of its steps; its ticker goroutine runs while the server
  does, and restarts end sooner or later. Nothing is asked of workers, operators or time.
* Runner (`schedule_mixed`): weak fairness of each runner's steps and of the end of an unrenewed
  lease. Failures and crashes end, and an operator's request is not for ever half-done.
* Requests, dispatchers, slots, calls (`services`): handlers return, `sync.Mutex` is not unfair for
  ever (its starvation mode), loops and polls come round, the server's sweeper runs. For the host the
  hard deadline of `cli.ts` (`ForceExit`) is fair. Nothing is asked of signals or of people, except
  that `LiveSetup` expects the person at its warm-up prompt to press Enter.
* `execution`: the executor, the driver, timers and answers go on; nothing is asked of navigations,
  aborts or of the page's own changes.
* `extension`, `interfaces`: the service worker's event loop, tabs that load, timers and answers;
  nothing of users, crashes or closed tabs.

## 4. Theorems

All proofs hold for every value of the constants that satisfies the module's assumptions, which
only say what kind of value a constant is (sets of names are disjoint from the code's sentinels,
counts are naturals, sets that are summed over are finite).

**TaskLifecycleProofs.** `TypeCorrect`, `OpenAttemptIsUnique`, `WaitsAreDecidable`,
`HeldTasksAreSweepable`, `RetriesAreBounded`, `QueueAlwaysSound`. None of the four safety facts is
inductive alone. That a status report closes the right attempt needs the task's attempt to be the
open one; that it is needs waits to have exactly one pending row of that attempt; that a release
leaves no lease needs the held task's worker. They are proved together as one agreement of the
three tables (`Agreement`), one step per action, with lemmas for the writes the actions share. The
count the sweeper read is never less than the row's: only the sweeper raises it, and `RetryTask`
sets it to zero (`RetriesBounded`).
`ClosedNeverReopens` and `StoreImplementsLedger` follow from a classification of what a step may do
to the rows (`RowsMove`): every action opens an attempt, closes one, changes the status of an open
one, or leaves them; each case is a step of `AttemptLedger` or a stutter. `DoneAlwaysHasResults`
rests on `DoneInv`: a summary is stored once for an attempt because the insert itself checks for
one, and what passed the gate is never deleted. `LimitOnlyByApproval` counts a worker's tasks as a
finite set: every other step adds none to it or adds one below the limit.

**ScheduleRunnerProofs.** `TypeCorrect`, `RunsAlwaysSound`, `NoRunEverLost`. The invariant
(`ScheduleInv`) says, while nothing is disturbed, that at most the owner of the lock is inside a
run, that its copy of a row is the row, and that tasks exist exactly for the runs before the row's
next one or the one in hand. The catch-up loop is a recursive function; that its result lies after
its start, not beyond the present unless capped, is proved by induction over its iterations.

**LLMBudgetProofs.** `TypeCorrect`, `SentStaysCounted`, `NeverRedispatched`, `DispatchesAccounted`,
`DailyCapsHold`, `SpendAlwaysLedgered`, `LedgerAlwaysSound`, `TrustedAlwaysFits`. The invariant adds
*ownership*: between its admission and its settlement a call is the only one of its identity
(`SoleOwner`), because admission needs an absent entry and no operation, reconciliation included,
makes an entry absent again; and what an owner knows of its entry and of what was sent. The caps
are sums over the finite set of entries: a step changes one entry, and the sum changes by that
entry's difference. `EnvelopeInv` says who may still charge a workflow (`SoleCharger`), what it
will charge (`Known`), and that spending plus what is still to be charged is covered by the entries
of the workflow's calls (`SpendCovered`). `TrustedAlwaysFits` is arithmetic: rounding up is monotone
and loses at most one by being done in two parts, for any rates, unit and caps.

**ServiceProofs.** `HostAlwaysDrains`, `NoTaskTakenAfterStop`: slots are launched in order, those a
signal stopped were launched, browsers close only when they have ended, and a clean exit comes after
that (`HostInv`); that a stopped worker stays idle needs that a slot which claims was not stopped
(`Sane`). `DispatchAlwaysExact`: what a realm has behind it is stored, its count is that of its step
or 0 after a checkpoint (`RowSound`), and every stored row carries the number of its step
(`RowsNumbered`). A realm that lost its count would send number 1, which belongs to the first send
of the rule: the row is stored already, its content differs, the server refuses it. That the number
of sends goes up by one at a send and that the first send has number 1 is `Counting`.
`BridgeAlwaysKeepsCalls`, for any positive capacity and number of attempts: the calls whose turn of
the flush lock it is or will be are exactly those in line, each once, and only the holder is about
to take the oldest entry out, which the server has then (`LockSound`); a buffered entry belongs to a
call that returned, and no answer of it came back but that one (`BufferSound`); a call was taken at
most once more than its answers were lost, and no more often than that before its own send is over
(`CallSound`). Without the lock a second flush would take out an entry nobody sent. That a validated
call is sound is shown for the fields of each method (`ValidatedIsSound`).
`SetupAlwaysHonest`: the validators are used together (`ValidTogether`), and what they establish holds
from the first thing that is read, opened, run or kept (`Checked`); a trace is explained by the
switches that cause it (`TracesSound`); a report stands for a scenario that ran, so that exit code 0
means all of them passed (`ReportsSound`). What is open at which stage is `HeldSound`, so that nothing
is left at an exit but the directory of a profile that could not be removed. What was asked for is any
list of names, of which parsing makes a list again (`ParsedIsList`); one of commas alone selects
nothing, runs nothing and exits with 1.
`LiveAlwaysHonest`, for any modes, task cases, budget, patience and number of slips: a pass is judged by
the tracker's copy, so the proof is about when that copy is the server's. From the moment a poll has
shown the approval nothing of the workflow moves any more (`ApprovedStays`), and unless a repair took
the current job's place the copy then has every job the server ran (`SeenSound`); a repair fails the
strict contract by its count. That needs what a workflow's state says of its jobs, replays and repairs
(`FlowSound`) and where the driver is when (`PlaceSound`): a phase begins only where the one before
it has been reached, and what it waits for stays once it is there (`ServerRests`). The kept
cases are the first ones, each with its status and rows (`KeptSound`); a token outlives its revocation
only with a case that is not kept, and so with a run that fails (`OwnSound`). The assumption on the
constants is that modes are known ones and that there are cases, each with a terminal status.
For the idempotency middleware `TypeCorrect`, `EffectIsUnique`, `ReplayIsFaithful`, `MutexIsSound`,
`RepeatsAlwaysSafe`. `HandledOnce` needs three more facts: what is stored under a key belongs to it;
a finished effect keeps its key occupied unless excused; a request about to run its handler is the
first of its key and body, which the mutex preserves between the miss and the effect. For the circuit
breaker `BreakerTypeCorrect`, `HalfOpenIsNeverStuck`, `ClosedIsBelowThreshold`,
`BreakerAlwaysSound`: inductive together, for a probe leaves only through `record`, and `record` on
a half-open circuit always leaves half-open.

**WorkerTaskProofs.** `ResultsAlwaysExact`. `WorkerInv` says where the rows are (`RowsSound`): each is
stored, given up, buffered, in the failed batch or in the pending envelope, in one place only, but
that the failed batch may be the pending envelope itself; numbers of results are distinct, and a
stored result with the number in use *is* the pending envelope, so sending it again is answered as a
duplicate. A request in flight carries that envelope and only one result request is out (`Carried`);
a flush of the chain that is not a tick is alone and its owner waits for it (`ChainSound`); with a
summary pending or stored no flush is left, and `done` is on its way only with everything stored
(`EndSound`). What a step does to the rows is stated over values (`Sound`), once for each way rows
move, and cited by the actions that move them that way.
`GuardsAlwaysHold`: the breaker keeps a pruned list of failures, forgets it on opening and closing and
does not extend it while open, so that it opened for a cause cannot be read off it. The invariant
relates it to all that was reported in the tab: place by place, what it remembers is no later than
the last reports (`Covered`), so at least as many of these are in the window (`CoveredAreRecent`).
An operation under way was let through before the breaker last opened or after its cooldown
(`LetThrough`), which a later opening keeps true because it is at the present (`TabSound`). For the
quota it says which admissions the counter counts, and that whoever was admitted `Limit` places
before its window began came a whole window earlier (`Spaced`); so two windows' worth of admissions
never fall into one (`WindowsApart`). The proof corrected the property: a failed probe was taken to
keep the breaker open for a cooldown from *its* failure. With two branches in a tab the other one's
failure may have reopened the breaker before; then this one changes nothing (`index.ts:1656`) and
the cooldown runs from the earlier one. The bounds of the run had hidden this.

**RuleRunProofs.** `RunAlwaysSurvives`, for any rules, pages, origins, hop limit and length of the wire.
Nothing of `RunSurvivesPages` is inductive alone, since all that a new page has of its predecessors is the
light state in `sessionStorage` and the context of the host's checkpoint, and either may be behind. `RunInv`
says: whatever page is there, each path, the one resumed from included, leads through the rule
(`RunTyped`, `Fits`), and the calls in progress hang together (`PlaceSound`); everything that was done
lies before where the light state would resume, before where a new call begins, and before the step the
executor is at, or the executor is still on its way there and has the rest of the path with it
(`DoneSound`, `Reached`). "Before" is in the order of the path's frames, and a place is not before those
inside it (`Below`), so a step that is about to run is none of those done. For the data `ContextSound`
says which outputs a context may lack: those of steps of the rule after its own path. A context that is not older
than the light state (`ValidateResume`) therefore lacks none (`ResumeHasOutputs`), and that is where the
order of `comparePath` is needed. The proof corrected the property and the model. With one message on
the wire `SuccessHasTopOutput` had looked true of every run; with two, a context of the run's middle can be
resumed from after a hook at the end has put the light state back, and the run then succeeds without an
output. Those runs are excepted now (`lateHook`), and section 6 describes them. The assumption is that
rules are trees of known steps with the lists their containers need, that the entry lies in the domain,
that the domain consists of whole origins, and that the bounds are naturals.
`HandlersAlwaysLeaveNothing`, for any rules of the modelled kinds and any number of attempts. The
hard timeout leaves handlers running beside their retries, so what is down is no property of the
step: the invariant counts one press for each live attempt, given up or not, that stands between its
"down" and its "up" (`PressesCounted`), and attempts are told apart by step and number
(`AttemptsDiffer`), of which there are only so many. That a press is always let go is read off the
scripts, handler by handler (`ScriptsKeepFaith`): between press and release no script has an
operation that can fail. For the field it says what a handler that writes has left at each place of
its script (`MayHold`), and before that what the last writer left (`FieldFollows`); for the
transport, that the rows cover the sends of the steps that are done (`SendsCounted`). The assumption
is that rules are nonempty sequences of these kinds and that a step is tried at least once.

**InterfaceProofs.** `ConsoleAlwaysTrue`, for any set of tasks, filters, rules with their versions and
any page limit. `ConsoleInv` says of each page what the answers still to come may do to it. A table
with a sequence guard waits for one answer, and that one is to the filter shown (`TableSound`); a
fetch of a task's page is of the task in the address (`DetailSound`); an export holds the batches
before the one it asks for, each once (`ExportSound`); the versions offered are those of the rule
named, for an answer with the form's generation was asked for that rule (`FormSound`); an act on its
way was sent for the state that was on the page (`ActSound`); who is let in has been verified with
the key that is stored (`SessionSound`). The assumption on the constants is that versions are
naturals with a greatest one for each rule, old rules are rules, and the page limit is positive.

`ReplayAlwaysTrue` and `RetainedAlwaysStays` are about `ReplaySession`, for any number of steps and
replays, any steps that navigate, any hop limit and credit, and any plan of outside events. What the
server accepts is the end of a chain of a dozen handlers, each of which may be cut off, so the
invariant `ReplayInv` follows the claim "this replay is complete" through all of them: the tab's
position, the message it posts, the job that handles it, the broadcast, the wizard's request.
Its parts: the promise chain of the service worker works on one request at a time (`ChainSound`); no
task is known anywhere before it was made (`NothingAhead`); a runner
has said and kept nothing before its only boot (`BootsFirst`); a position recorded anywhere was executed up to there (`ProgressIsDone`);
and, as long as no runner was resumed without its context, whoever is at a position holds the values
of the steps before it (`ValuesAreKept`). While no handler has outlived its replay and no request
has met another's cleanup there is also one replay at a time, an end belongs to the attempt that is
waiting, one tab runs, and nobody is about to close a retained tab (`OneReplay`, `EndIsOwn`,
`OneRuns`, `RetainedIsLeft`, together `WhenClean`). This last group is what the two properties use,
and its condition is the exception that they state. `ReplayAssumption` is the only assumption.

**InductionLemmas.** The prover cannot instantiate the library's induction rules, which take an
operator. Induction is done as a least counterexample instead, from the well-foundedness of the
naturals and of the subsets of a finite set: `LeastNatural`, `CountUp`, `SubsetInduction`, and from
these what the sums of `SumFunctionOnSet` do when one value changes.

**Only model-checked.** Liveness (`SweeperCatchesUp`, `DueIsHandled`, `WorkSettles`,
`StopsAndSessionsEnd`, `NobodyWaits`, `EverythingEnds`): fairness and ENABLED are out of the prover's
reach. The safety of `Recorder`, `Capture`, `Wizard` and `RuleEditor`: their
instances are given by plans and rules, and their invariants have not been strengthened to
inductive ones. `RuleConversion` is folds and recursive functions over recordings
and texts; what these compute for every input is induction over data. Cron parsing is not modelled, so
`CronSlots` is any set of minutes.

## 5. Findings

* `task_lateresult`: `InsertResultIdempotent` checks the attempt in one statement and inserts in a
  later one; an attempt closed in between receives the result, against
  `execution_test.go:339` ("new data after terminal status should fail").
* `dispatch_resume`: a page numbers its batches from 1 again; after a navigation the first one
  reuses an idempotency key, the server answers with a conflict, and the rule that
  `userscript-entry.ts:144` promises to resume fails, with no fault at all.

## 6. Observations

Behaviour the models contain and no run states as a property.

**Server.**
* `processSchedule` (`schedules.go:384`) writes back every column it listed, `enabled` included, and
  undoes an operator's disable in between. A runner that outlives its lock overlaps with the next
  owner; nothing fences its writes.
* The mutex of the idempotency middleware is named by key *and* body (`idempotency_middleware.go:79`),
  so two bodies under one key do not exclude each other, against the 409 of `:52`. The map of
  mutexes never shrinks (`:43`), nor do breakers per path (`circuitbreaker.go:36`).
* An admitted dispatch may be retried by the provider layer (`orchestrator.go:593`), although the
  comments at `:270`, `:432` and `config.go:191` say a call is sent at most once.
* `ReleaseTask` tests the status and not the lease: a lease renewed between the sweeper's read and
  its release is lost. `RetryTask` leaves `cancel_requested` (`store.go:1057`). `claimTask` resolves the
  version of the first task only (`:1211`). `InsertResult` without an attempt id makes a placeholder
  attempt in separate statements (`:1390`). `PurgeOldData` deletes what it selected earlier (`:1990`).
* A failed read of the rule is taken for an inactive rule and disables the schedule
  (`schedules.go:302`). The catch-up cap can leave a schedule whose next run is not one of its slots.
* The workflow envelope is checked and not reserved, as its comment says; calls of one workflow at
  the same time may pass it together.

**Engine and workers.**
* A resume inside a container skips its first children (`executor-utils.ts:119`); `comparePath`
  treats a container prefix and `resume-guard.ts:14` a whole path, which can end a run successfully
  without its rows. An abort between two realms is lost. Flow-control steps ignore `onError`.
* A hook after the main steps writes the path its page had started from (`executor.ts:271`). A page
  that navigates before the run is reported begins there again: steps run twice, and one that is
  skipped the second time leaves a success without its output. `RunSurvivesPages` excepts such runs
  by `lateHook`.
* A timed-out handler keeps running beside its retry; `scrollToBottom` by steps is unbounded; a
  navigation to the same URL always times out.
* `sendStatus` drops `cancelled` for attempts with results; an immediate send that races a flush
  throws; the buffer's cap drops its oldest rows silently.
* A second gate in half-open closes a breaker while the probe is in flight; a late failure after the
  cooldown reopens it as a failed probe; `skip` lets the operation run uncounted; `wait` writes back
  a stale count.
* A 4xx entry stays at the head of the transport's buffer and blocks later flushes; a later log
  overtakes a buffered one; aborted sends vanish silently.
* A signal during `start()` leaves slots to be launched after it; an aborted claim leaves a lease to
  expire; one failed slot launch ends the process with others in mid-task; one failed poll for a
  human decision fails the run; a browser that hangs on close keeps its slot.
* The userscript saves `done` in its session before the final report; a cleared session whose hash
  is still there runs again on a second reload; the dispatcher's own status has no attempt id and is
  refused where one is required; `waitTerminal` does not know `dead_letter`.

**Extension.**
* `RECORDING_STATUS stopped` never clears the tab's checkpoint; a stop after a limit stop takes the
  orphan path and overwrites a complete recording by a partial one; events made during A to B to A
  navigations are dropped; the source tab records between export and discard.
* `START_REPLAY` promises to clear "any pre-existing session (incl. stale SW-restart recovery state)"
  (`background.ts:2953`), but looks at `activeReplay` only, which a restart empties until recovery has
  read the storage: a request served before that leaves the stored replay's tab executing beside the
  new one and overwrites its session (`overlap`). `replay-runner.ts:253` refuses to resume when the last
  `REPLAY_CONTEXT` was lost; where the *first* one was lost there is no context to compare with
  (`:257`), and the replay goes on with empty outputs (`blind`).
* Clean-ups take whatever replay is active; `REPLAY_COMPLETE` has no task id; progress between wake and recovery is
  dropped; recovery may overwrite a newer replay.
* The wizard: a resumed workflow has no normalised requirement; `reconcileOrphaned` compares neither
  recording nor marks; an upload takes storage's last rule; a service worker that dies during restore
  leaves a blank page.
* Capture: a snapshot reference may name what was dropped (the server fails closed); an event during
  the last capture makes `final` not the last; a slow capture records a submission twice; the flush of
  an action limit exceeds it; a failed capture drops its event unless it is a navigation.

**Rule generator.**
* Enter within the 100 ms a typed text waits: `handleKeydown` reads the clock before it flushes, text
  and submission may share a millisecond, there are two before-action snapshots of it, and
  `resolveTarget` fails the whole rule as ambiguous (`ThrownForCause`).
* `templatize` may put a value into a placeholder it has just inserted. Texts inside a loop are not
  templated. Enter is pressed without a target, so a field reached by Tab is not told.
* After a tab that was opened and not gone to, or with overlapping calls of a controller, events are
  resolved in the snapshot of another page.
* With annotations: a way to the next page without a group of extractions is dropped, logins and
  captchas move to the end, a group is extracted from its first element only.
* `optimizeSelector` uses a `[REDACTED]` label as it is; `preprocess` adds up scrolls by direction only.

**Admin UI and scripts.**
* The rule page: the answer to a save overwrites edits made meanwhile; a save crossing a toggle
  leaves a stale clean copy; undo after a lost answer shows the old rule as clean; a save reverts
  another admin's approval; "reject and delete" of an enhancement deletes the approved rule; keys act
  while typing in the drawer; applying JSON loses id and description.
* The console: several lists fetch without a sequence guard; actions refetch a closed-over filter; a
  late 401 removes a newer key; a network failure at load logs out; the schedule form keeps the
  previous version's label; creating a task has no idempotency key.
* The live driver's poll does not know `cancelled`; errors of its tracker's refresh are swallowed; a
  5xx of a best-effort poll fails the run. Where the directory of a profile cannot be removed the shutdown
  throws, and the shop ends with the process only.

## 7. Hazards

`PROJECT.json` lists forty, with lines and properties. Two have no property: the claim that looks at
one task only, and the deletion of terminal tasks that does not look at their status again.

## 8. Plan

Modelled, checked and proved as described above. Next, in this order:
1. A proof for `RuleEditor` (`EditorIsTrue`).
2. An abstract recording (events are appended, kept, closed once) that `Recorder` implements.
3. `InsertResult` without an attempt id and `PurgeOldData` in `TaskLifecycle`.

## 9. Not modelled

Provider clients, prompts, redaction, rule validation and cron parsing (text processing over
unbounded inputs); rate limiting (independent counters); retention; recording archives on the
server; MCP (a second front end over the same store); authentication, crypto and configuration
(stateless checks); leases and attempts of the server's LLM jobs other than as wizard, replay and
editor see them; template expressions, extraction formats and captcha services of the engine; the
generator's YAML, intent templates, JSON patches and encodings other than a blank's; rendering and settings of extension and admin UI;
other scripts and examples.
