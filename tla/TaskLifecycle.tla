---------------------------- MODULE TaskLifecycle ----------------------------
(***************************************************************************)
(* The life of a crawl task in the server's store: the rows of the tables  *)
(* tasks, execution_attempts, human_interventions and results, and every   *)
(* operation of the worker API, the admin API and the lease sweeper that   *)
(* writes them.                                                            *)
(*                                                                         *)
(* The store opens its SQLite database with one connection                 *)
(* (SetMaxOpenConns(1)), so a transaction, or a statement outside one, is  *)
(* one atomic step here; what a handler or the sweeper does in several     *)
(* transactions is several steps, and every other actor may run between.   *)
(*                                                                         *)
(* A deadline column (lease_until, expires_at, scheduled_at) is only ever  *)
(* compared with the current time.  The model keeps the outcome of that    *)
(* comparison, and the three actions under "time passes" change it.        *)
(***************************************************************************)
EXTENDS Integers, FiniteSets

CONSTANTS
  Tasks,            \* ids of the tasks that may be created
  Workers,          \* worker ids
  Rules,            \* rule ids
  HumanIds,         \* ids of human interventions (bounds how many are made)
  Submissions,      \* result bodies a worker may submit to an attempt
  BrowserProfiles,  \* named browser profiles
  NoProfile,        \* the empty browser_profile_id
  NoWorker,         \* worker_id NULL
  NoTask,           \* task_id of an intervention row not inserted yet
  RuleOf,           \* rule_id of each task
  Priority,         \* priority of each task: 0 high, 1 normal, 2 low
  ProfileOf,        \* browser_profile_id of each task
  CreatedAt,        \* created_at of each task
  Versioned,        \* the tasks whose contract needs attempt lineage
  Drafts,           \* bound: the rules a first version is drafted for in a run
  MaxRetries,       \* max_retries of every task
  MaxWorkerTasks,   \* the per-worker concurrency limit of the configuration
  MaxAttempts       \* bound: attempts a task may be given in a run

AttemptNumbers == 1..MaxAttempts

Profiles == BrowserProfiles \cup {NoProfile}

ASSUME NamesAssumption ==
  /\ NoProfile \notin BrowserProfiles
  /\ NoWorker \notin Workers
  /\ NoTask \notin Tasks

ASSUME TaskDataAssumption ==
  /\ RuleOf \in [Tasks -> Rules]
  /\ Priority \in [Tasks -> 0..2]
  /\ ProfileOf \in [Tasks -> Profiles]
  /\ CreatedAt \in [Tasks -> Nat]
  /\ Versioned \subseteq Tasks
  /\ Drafts \subseteq Rules

ASSUME SubmissionsAssumption ==
  \A s \in Submissions :
    /\ s.kind \in {"batch", "summary"}
    /\ s.valid \in BOOLEAN
    /\ s.kind = "summary" => s.valid

ASSUME BoundsAssumption ==
  /\ IsFiniteSet(Tasks)
  /\ MaxRetries \in Nat
  /\ MaxWorkerTasks \in Nat
  /\ MaxAttempts \in Nat

-----------------------------------------------------------------------------
(* The values of the status columns.  "absent" and "none" stand for rows    *)
(* that have not been inserted.                                             *)

HeldStatuses == {"leased", "running"}

LiveStatuses == HeldStatuses \cup {"waiting_for_human"}

TerminalStatuses == {"done", "failed", "cancelled", "dead_letter"}

TaskStatuses == {"absent", "pending"} \cup LiveStatuses \cup TerminalStatuses

AttemptTerminal == {"succeeded", "failed", "cancelled", "dead_letter", "lease_expired"}

AttemptStatuses == {"none"} \cup LiveStatuses \cup AttemptTerminal

HumanStatuses == {"unused", "pending", "approved", "rejected", "expired", "cancelled"}

VersionStatuses == {"none", "pending", "approved", "rejected"}

Leases == {"none", "live", "expired"}

VARIABLES
  task,      \* tasks: status, worker_id, lease_until, retry_count, cancel_requested,
             \* current_attempt_id (0 is NULL) and whether scheduled_at has come
  attempts,  \* execution_attempts by task and attempt_number: worker_id and status
  human,     \* human_interventions: task, attempt, worker, status and whether overdue
  results,   \* results by task and attempt: the submissions stored
  rule,      \* rules: approval_status is 'approved'; rule_versions: version 1 of each
  inflight,  \* result submissions that passed their checks and are not stored yet
  sweep      \* the sweeper goroutine: where it is and what it has read

tables == <<task, attempts, human, results>>
vars == <<task, attempts, human, results, rule, inflight, sweep>>

TaskRows ==
  [status : TaskStatuses, worker : Workers \cup {NoWorker}, lease : Leases,
   retry : Nat, cancel : BOOLEAN, current : 0..MaxAttempts, due : BOOLEAN]

AttemptRows == [worker : Workers \cup {NoWorker}, status : AttemptStatuses]

HumanRows ==
  [task : Tasks \cup {NoTask}, attempt : 0..MaxAttempts,
   worker : Workers \cup {NoWorker}, status : HumanStatuses, overdue : BOOLEAN]

SweepStates ==
  [pc : {"idle", "list", "loop"}, ids : SUBSET Tasks,
   id : {NoTask}, worker : {NoWorker}, retry : {0}]
  \cup
  [pc : {"act"}, ids : SUBSET Tasks,
   id : Tasks, worker : Workers \cup {NoWorker}, retry : Nat]

InflightRows == [task : Tasks, attempt : AttemptNumbers, sub : Submissions]

\* Type invariant: every row of the store and the sweeper's locals hold values
\* of the columns' types.
TypeOK ==
  /\ task \in [Tasks -> TaskRows]
  /\ attempts \in [Tasks -> [AttemptNumbers -> AttemptRows]]
  /\ human \in [HumanIds -> HumanRows]
  /\ results \in [Tasks -> [AttemptNumbers -> SUBSET Submissions]]
  /\ rule \in [Rules -> [approved : BOOLEAN, version : VersionStatuses]]
  /\ inflight \in SUBSET InflightRows
  /\ sweep \in SweepStates

SweepIdle == [pc |-> "idle", ids |-> {}, id |-> NoTask, worker |-> NoWorker, retry |-> 0]

Init ==
  /\ task = [t \in Tasks |->
       [status |-> "absent", worker |-> NoWorker, lease |-> "none", retry |-> 0,
        cancel |-> FALSE, current |-> 0, due |-> FALSE]]
  /\ attempts = [t \in Tasks |-> [n \in AttemptNumbers |->
       [worker |-> NoWorker, status |-> "none"]]]
  /\ human = [h \in HumanIds |->
       [task |-> NoTask, attempt |-> 0, worker |-> NoWorker, status |-> "unused",
        overdue |-> FALSE]]
  /\ results = [t \in Tasks |-> [n \in AttemptNumbers |-> {}]]
  /\ rule = [r \in Rules |->
       [approved |-> TRUE,
        version |-> IF \E t \in Versioned : RuleOf[t] = r THEN "approved" ELSE "none"]]
  /\ inflight = {}
  /\ sweep = SweepIdle

-----------------------------------------------------------------------------
(* Time passes.                                                             *)

\* now reaches lease_until of a task.
LeaseRunsOut(t) ==
  /\ task[t].lease = "live"
  /\ task' = [task EXCEPT ![t].lease = "expired"]
  /\ UNCHANGED <<attempts, human, results, rule, inflight, sweep>>

\* now reaches scheduled_at of a task.
ScheduledTimeComes(t) ==
  /\ task[t].status # "absent"
  /\ ~task[t].due
  /\ task' = [task EXCEPT ![t].due = TRUE]
  /\ UNCHANGED <<attempts, human, results, rule, inflight, sweep>>

\* now reaches expires_at of a pending intervention.
DecisionDeadlinePasses(h) ==
  /\ human[h].status = "pending"
  /\ ~human[h].overdue
  /\ human' = [human EXCEPT ![h].overdue = TRUE]
  /\ UNCHANGED <<task, attempts, results, rule, inflight, sweep>>

-----------------------------------------------------------------------------
(* The admin API.                                                           *)

\* Tasks are created in the order of their created_at.  A scheduled_at that is
\* not in the future is stored as NULL.  A versioned task is bound to an approved
\* version; any other is taken for version 1, which need not exist.
CreateTask(t, due) ==
  /\ task[t].status = "absent"
  /\ \A u \in Tasks : CreatedAt[u] < CreatedAt[t] => task[u].status # "absent"
  /\ t \in Versioned => rule[RuleOf[t]].version = "approved"
  /\ task' = [task EXCEPT ![t] = [task[t] EXCEPT !.status = "pending", !.due = due]]
  /\ UNCHANGED <<attempts, human, results, rule, inflight, sweep>>

\* ApproveRule and RejectRule.
SetRuleApproval(r, b) ==
  /\ rule' = [rule EXCEPT ![r].approved = b]
  /\ UNCHANGED <<tables, inflight, sweep>>

\* The first immutable version of a rule that had none.  (WorkflowV2Enabled decides at
\* start-up whether rules are changed this way or by the two handlers above.)
CreateRuleVersion(r) ==
  /\ r \in Drafts
  /\ rule[r].version = "none"
  /\ rule' = [rule EXCEPT ![r].version = "pending"]
  /\ UNCHANGED <<tables, inflight, sweep>>

\* Approving the version also writes it to the catalogue, as approved.
ApproveRuleVersion(r) ==
  /\ rule[r].version = "pending"
  /\ rule' = [rule EXCEPT ![r] = [approved |-> TRUE, version |-> "approved"]]
  /\ UNCHANGED <<tables, inflight, sweep>>

RejectRuleVersion(r) ==
  /\ rule[r].version = "pending"
  /\ rule' = [rule EXCEPT ![r].version = "rejected"]
  /\ UNCHANGED <<tables, inflight, sweep>>

\* Pending interventions S become decided with status s.
CloseInterventions(S, s) ==
  [h \in HumanIds |-> IF h \in S THEN [human[h] EXCEPT !.status = s] ELSE human[h]]

PendingOf(t) == {h \in HumanIds : human[h].status = "pending" /\ human[h].task = t}

\* A slip: a waiting attempt is forgotten.
CancelIdleTaskLeavesAttempt(t) ==
  /\ task[t].status \in {"pending", "leased", "waiting_for_human"}
  /\ task' = [task EXCEPT ![t].status = "cancelled"]
  /\ attempts' = [attempts EXCEPT ![t] = [n \in AttemptNumbers |->
       IF n = task[t].current /\ attempts[t][n].status = "leased"
       THEN [attempts[t][n] EXCEPT !.status = "cancelled"] ELSE attempts[t][n]]]
  /\ human' = CloseInterventions(PendingOf(t), "cancelled")
  /\ UNCHANGED <<results, rule, inflight, sweep>>

\* A slip: the pending intervention is forgotten.
CancelIdleTaskLeavesIntervention(t) ==
  /\ task[t].status \in {"pending", "leased", "waiting_for_human"}
  /\ task' = [task EXCEPT ![t].status = "cancelled"]
  /\ attempts' = [attempts EXCEPT ![t] = [n \in AttemptNumbers |->
       IF n = task[t].current /\ attempts[t][n].status \in {"leased", "waiting_for_human"}
       THEN [attempts[t][n] EXCEPT !.status = "cancelled"] ELSE attempts[t][n]]]
  /\ UNCHANGED <<human, results, rule, inflight, sweep>>

\* Fast path of CancelTask: the task and its open attempt become cancelled in one
\* transaction.  worker_id, lease_until and current_attempt_id stay as they are.
CancelIdleTask(t) ==
  /\ task[t].status \in {"pending", "leased", "waiting_for_human"}
  /\ task' = [task EXCEPT ![t].status = "cancelled"]
  /\ attempts' = [attempts EXCEPT ![t] = [n \in AttemptNumbers |->
       IF n = task[t].current /\ attempts[t][n].status \in {"leased", "waiting_for_human"}
       THEN [attempts[t][n] EXCEPT !.status = "cancelled"] ELSE attempts[t][n]]]
  /\ human' = CloseInterventions(PendingOf(t), "cancelled")
  /\ UNCHANGED <<results, rule, inflight, sweep>>

\* A running task is only asked to stop.
RequestCancel(t) ==
  /\ task[t].status = "running"
  /\ task' = [task EXCEPT ![t].cancel = TRUE]
  /\ UNCHANGED <<attempts, human, results, rule, inflight, sweep>>

CancelTask(t) == CancelIdleTask(t) \/ RequestCancel(t)

\* A slip: any terminal task can be retried.
RetryTaskAnyTerminal(t) ==
  /\ task[t].status \in TerminalStatuses
  /\ task' = [task EXCEPT ![t] =
       [task[t] EXCEPT !.status = "pending", !.retry = 0, !.worker = NoWorker, !.lease = "none"]]
  /\ UNCHANGED <<attempts, human, results, rule, inflight, sweep>>

\* cancel_requested and current_attempt_id are not reset.
RetryTask(t) ==
  /\ task[t].status \in {"failed", "dead_letter", "cancelled"}
  /\ task' = [task EXCEPT ![t] =
       [task[t] EXCEPT !.status = "pending", !.retry = 0, !.worker = NoWorker, !.lease = "none"]]
  /\ UNCHANGED <<attempts, human, results, rule, inflight, sweep>>

-----------------------------------------------------------------------------
(* The worker API.                                                          *)

\* A slip: claimed tasks that have not started are not counted.
ActiveCountRunningOnly(w) ==
  Cardinality({u \in Tasks : task[u].worker = w /\ task[u].status = "running"})

ActiveCount(w) ==
  Cardinality({u \in Tasks : task[u].worker = w /\ task[u].status \in HeldStatuses})

Eligible(p) ==
  {t \in Tasks :
     /\ task[t].status = "pending"
     /\ rule[RuleOf[t]].approved
     /\ task[t].due
     /\ task[t].lease # "live"
     /\ ProfileOf[t] \in {NoProfile, p}}

\* ORDER BY priority, exact profile match first, created_at.
ClaimsBefore(p, t, u) ==
  \/ Priority[t] < Priority[u]
  \/ /\ Priority[t] = Priority[u]
     /\ \/ ProfileOf[t] = p /\ ProfileOf[u] # p
        \/ /\ (ProfileOf[t] = p) <=> (ProfileOf[u] = p)
           /\ CreatedAt[t] < CreatedAt[u]

\* attempt_number = COALESCE(MAX(attempt_number), 0) + 1.
IsNextAttempt(t, n) ==
  /\ attempts[t][n].status = "none"
  /\ \A m \in AttemptNumbers : m < n <=> attempts[t][m].status # "none"

\* The version of the task selected is missing or approved.
Resolvable(t) == rule[RuleOf[t]].version \in {"none", "approved"}

\* claimTask looks at one task, the first of the order: when its version is not
\* approved the transaction rolls back and the claim fails.
ClaimTask(w, p, t, n) ==
  /\ ActiveCount(w) < MaxWorkerTasks
  /\ t \in Eligible(p)
  /\ \A u \in Eligible(p) : ~ClaimsBefore(p, u, t)
  /\ IsNextAttempt(t, n)
  /\ Resolvable(t)
  /\ attempts' = [attempts EXCEPT ![t][n] = [worker |-> w, status |-> "leased"]]
  /\ task' = [task EXCEPT ![t] =
       [task[t] EXCEPT !.status = "leased", !.worker = w, !.lease = "live", !.current = n]]
  /\ UNCHANGED <<human, results, rule, inflight, sweep>>

\* SubmitHeartbeat: RenewLease extends the lease of whoever holds the task; the
\* answer carries cancel_requested, read afterwards.
SubmitHeartbeat(w, t) ==
  /\ task[t].worker = w
  /\ task[t].status \in LiveStatuses
  /\ task' = [task EXCEPT ![t].lease = "live"]
  /\ UNCHANGED <<attempts, human, results, rule, inflight, sweep>>

\* A slip: the task status is written as it is.
AttemptStatusVerbatim(s) == s

\* The attempt status a task status is recorded as.
AttemptStatusOf(s) == IF s = "done" THEN "succeeded" ELSE s

MayCloseHumanWait(s) == s \in {"failed", "cancelled", "dead_letter"}

\* What both status handlers write once their checks have passed: the task, the
\* row of attempt n if it is worker w's, and a pending intervention of that attempt.
WriteStatus(w, t, n, s) ==
  /\ task' = [task EXCEPT ![t] = [task[t] EXCEPT !.status = s,
       !.lease = IF s \in TerminalStatuses THEN "none" ELSE task[t].lease]]
  /\ attempts' = [attempts EXCEPT ![t] = [m \in AttemptNumbers |->
       IF m = n /\ attempts[t][m].worker = w
       THEN [attempts[t][m] EXCEPT !.status = AttemptStatusOf(s)] ELSE attempts[t][m]]]
  /\ human' = IF MayCloseHumanWait(s)
              THEN CloseInterventions({h \in PendingOf(t) : human[h].attempt = n}, "cancelled")
              ELSE human
  /\ UNCHANGED <<results, rule, inflight>>

\* The WHERE clause of UpdateTaskStatus.
CanUpdateTaskStatus(w, t, s) ==
  /\ task[t].worker = w
  /\ \/ task[t].status \in HeldStatuses
     \/ task[t].status = "waiting_for_human" /\ MayCloseHumanWait(s)

ReportedStatuses == {"running"} \cup TerminalStatuses

\* SubmitStatus without an attemptId, for a task on the legacy contract.
SubmitLegacyStatus(w, t, s) ==
  /\ t \notin Versioned
  /\ CanUpdateTaskStatus(w, t, s)
  /\ WriteStatus(w, t, task[t].current, s)
  /\ UNCHANGED sweep

\* A slip: the results of every attempt of the task are counted.
ResultsCompleteOfTask(t, n) ==
  LET stored == UNION {results[t][m] : m \in AttemptNumbers}
  IN /\ \E r \in stored : r.kind = "batch" /\ r.valid
     /\ \A r \in stored : r.kind = "batch" => r.valid
     /\ \E r \in stored : r.kind = "summary"

\* Completion gate: a valid batch, no invalid one, exactly one summary.
ResultsComplete(t, n) ==
  /\ \E r \in results[t][n] : r.kind = "batch" /\ r.valid
  /\ \A r \in results[t][n] : r.kind = "batch" => r.valid
  /\ \E r \in results[t][n] : r.kind = "summary"

\* SubmitStatus with an attemptId.  An exact repeat of the stored state is
\* acknowledged without a write.
SubmitAttemptStatus(w, t, n, s) ==
  /\ task[t].worker = w
  /\ attempts[t][n].worker = w
  /\ task[t].current = n
  /\ ~(task[t].status = s /\ attempts[t][n].status = AttemptStatusOf(s))
  /\ task[t].status \in HeldStatuses \cup (IF MayCloseHumanWait(s) THEN {"waiting_for_human"} ELSE {})
  /\ attempts[t][n].status \in HeldStatuses \cup (IF MayCloseHumanWait(s) THEN {"waiting_for_human"} ELSE {})
  /\ s = "done" => ResultsComplete(t, n)
  /\ WriteStatus(w, t, n, s)
  /\ UNCHANGED sweep

\* InsertResultIdempotent, first two statements: no row has the submission's
\* key, and the attempt is open and current for this worker.
CheckResult(w, t, n, sub) ==
  /\ \A r \in results[t][n] : r.key # sub.key
  /\ attempts[t][n].worker = w
  /\ task[t].current = n
  /\ attempts[t][n].status \in LiveStatuses
  /\ inflight' = inflight \cup {[task |-> t, attempt |-> n, sub |-> sub]}
  /\ UNCHANGED <<tables, rule, sweep>>

\* The unique indexes of the results table.
ResultConflicts(t, n, sub) ==
  \E r \in results[t][n] :
    \/ r.key = sub.key
    \/ r.kind = "summary" /\ sub.kind = "summary"
    \/ /\ r.kind = "batch" /\ r.valid /\ sub.kind = "batch" /\ sub.valid
       /\ r.seq = sub.seq

\* InsertResultIdempotent, last statement: the INSERT, which a unique index may
\* refuse.
InsertResult(f) ==
  /\ inflight' = inflight \ {f}
  /\ results' = IF ResultConflicts(f.task, f.attempt, f.sub) THEN results
                ELSE [results EXCEPT ![f.task][f.attempt] = @ \cup {f.sub}]
  /\ UNCHANGED <<task, attempts, human, rule, sweep>>

\* CreateHumanIntervention: checkpoint, pending row and both status changes in
\* one transaction; a second pending row for the task violates a unique index.
CreateHumanIntervention(w, t, n, h) ==
  /\ task[t].current = n
  /\ task[t].worker = w
  /\ task[t].status \in HeldStatuses
  /\ attempts[t][n].worker = w
  /\ attempts[t][n].status \in HeldStatuses
  /\ human[h].status = "unused"
  /\ PendingOf(t) = {}
  /\ human' = [human EXCEPT ![h] = [task |-> t, attempt |-> n, worker |-> w,
                                   status |-> "pending", overdue |-> FALSE]]
  /\ task' = [task EXCEPT ![t] = [task[t] EXCEPT !.status = "waiting_for_human", !.lease = "none"]]
  /\ attempts' = [attempts EXCEPT ![t][n].status = "waiting_for_human"]
  /\ UNCHANGED <<results, rule, inflight, sweep>>

-----------------------------------------------------------------------------
(* Operator decisions and their expiry.                                     *)

\* Both rows match the intervention, as the UPDATEs of failWaitingHumanAttempt
\* and of an approval require; otherwise the transaction rolls back.
WaitsOn(h) ==
  LET t == human[h].task
      n == human[h].attempt
  IN /\ t \in Tasks
     /\ n \in AttemptNumbers
     /\ task[t].current = n
     /\ task[t].worker = human[h].worker
     /\ task[t].status = "waiting_for_human"
     /\ attempts[t][n].worker = human[h].worker
     /\ attempts[t][n].status = "waiting_for_human"

\* failWaitingHumanAttempt for each intervention of S.
FailWaiting(S) ==
  /\ task' = [t \in Tasks |->
       IF \E h \in S : human[h].task = t
       THEN [task[t] EXCEPT !.status = "failed", !.lease = "none"] ELSE task[t]]
  /\ attempts' = [t \in Tasks |-> [n \in AttemptNumbers |->
       IF \E h \in S : human[h].task = t /\ human[h].attempt = n
       THEN [attempts[t][n] EXCEPT !.status = "failed"] ELSE attempts[t][n]]]

Overdue == {h \in HumanIds : human[h].status = "pending" /\ human[h].overdue}

ExpireInterventions(S) ==
  /\ \A h \in S : WaitsOn(h)
  /\ human' = CloseInterventions(S, "expired")
  /\ FailWaiting(S)

\* GetHumanIntervention (the worker's poll, and the first half of the decision
\* handler) and ListHumanInterventions expire what is overdue before they read.
PollDecision(h) ==
  /\ h \in Overdue
  /\ ExpireInterventions({h})
  /\ UNCHANGED <<results, rule, inflight, sweep>>

\* A rejection fails the attempt that waits.
RejectDecision(h) ==
  /\ human' = CloseInterventions({h}, "rejected")
  /\ FailWaiting({h})

\* An approval resumes the same attempt, under a new lease.
ApproveDecision(h) ==
  LET t == human[h].task
      n == human[h].attempt
  IN /\ human' = CloseInterventions({h}, "approved")
     /\ task' = [task EXCEPT ![t] = [task[t] EXCEPT !.status = "running", !.lease = "live"]]
     /\ attempts' = [attempts EXCEPT ![t][n].status = "running"]

\* DecideHumanIntervention with the stored checkpoint; an overdue row expires
\* instead, whatever the decision.
DecideHumanIntervention(h, decision) ==
  /\ human[h].status = "pending"
  /\ WaitsOn(h)
  /\ \/ human[h].overdue /\ ExpireInterventions({h})
     \/ ~human[h].overdue /\ decision = "rejected" /\ RejectDecision(h)
     \/ ~human[h].overdue /\ decision = "approved" /\ ApproveDecision(h)
  /\ UNCHANGED <<results, rule, inflight, sweep>>

-----------------------------------------------------------------------------
(* The sweeper: sweep() of scheduler.go, one transaction per step.          *)

\* ExpireHumanInterventions over the workspace.  An overdue row that nothing waits
\* on rolls the transaction back and ends the sweep before it has looked at any
\* lease: the sweeper is back where it was, which is this action being disabled.
SweepExpire ==
  /\ sweep.pc = "idle"
  /\ ExpireInterventions(Overdue)
  /\ sweep' = [sweep EXCEPT !.pc = "list"]
  /\ UNCHANGED <<results, rule, inflight>>

\* A slip: claimed tasks whose worker never reported are not looked at.
SweepListRunning ==
  /\ sweep.pc = "list"
  /\ sweep' = [sweep EXCEPT !.pc = "loop",
       !.ids = {t \in Tasks : task[t].status = "running" /\ task[t].lease = "expired"}]
  /\ UNCHANGED <<tables, rule, inflight>>

\* ListExpiredLeases.
SweepList ==
  /\ sweep.pc = "list"
  /\ sweep' = [sweep EXCEPT !.pc = "loop",
       !.ids = {t \in Tasks : task[t].status \in HeldStatuses /\ task[t].lease = "expired"}]
  /\ UNCHANGED <<tables, rule, inflight>>

\* GetTaskByID for the next listed task.
SweepRead(t) ==
  /\ sweep.pc = "loop"
  /\ t \in sweep.ids
  /\ sweep' = [pc |-> "act", ids |-> sweep.ids \ {t}, id |-> t,
               worker |-> task[t].worker, retry |-> task[t].retry]
  /\ UNCHANGED <<tables, rule, inflight>>

SweepNext == [sweep EXCEPT !.pc = "loop", !.id = NoTask, !.worker = NoWorker, !.retry = 0]

\* retry_count read >= max_retries: UpdateTaskStatus to dead_letter, in the name
\* of the worker read.
SweepDeadLetter ==
  /\ sweep.pc = "act"
  /\ sweep.retry >= MaxRetries
  /\ IF sweep.worker # NoWorker /\ CanUpdateTaskStatus(sweep.worker, sweep.id, "dead_letter")
     THEN WriteStatus(sweep.worker, sweep.id, task[sweep.id].current, "dead_letter")
     ELSE UNCHANGED <<tables, rule, inflight>>
  /\ sweep' = SweepNext

\* ReleaseTask: looks at the status again, not at the lease.
ReleaseTask(t) ==
  /\ attempts' = [attempts EXCEPT ![t] = [n \in AttemptNumbers |->
       IF n = task[t].current /\ attempts[t][n].status \in HeldStatuses
       THEN [attempts[t][n] EXCEPT !.status = "lease_expired"] ELSE attempts[t][n]]]
  /\ task' = [task EXCEPT ![t] = [task[t] EXCEPT !.status = "pending", !.worker = NoWorker,
                                  !.lease = "none", !.retry = task[t].retry + 1]]
  /\ UNCHANGED <<human, results, rule, inflight>>

\* A slip: one retry too many.
SweepReleaseOffByOne ==
  /\ sweep.pc = "act"
  /\ sweep.retry <= MaxRetries
  /\ IF task[sweep.id].status \in HeldStatuses
     THEN ReleaseTask(sweep.id)
     ELSE UNCHANGED <<tables, rule, inflight>>
  /\ sweep' = SweepNext

\* A slip: the status is not looked at again.
SweepReleaseUnchecked ==
  /\ sweep.pc = "act"
  /\ sweep.retry < MaxRetries
  /\ ReleaseTask(sweep.id)
  /\ sweep' = SweepNext

SweepRelease ==
  /\ sweep.pc = "act"
  /\ sweep.retry < MaxRetries
  /\ IF task[sweep.id].status \in HeldStatuses
     THEN ReleaseTask(sweep.id)
     ELSE UNCHANGED <<tables, rule, inflight>>
  /\ sweep' = SweepNext

SweepDone ==
  /\ sweep.pc = "loop"
  /\ sweep.ids = {}
  /\ sweep' = SweepIdle
  /\ UNCHANGED <<tables, rule, inflight>>

Sweep ==
  \/ SweepExpire \/ SweepList \/ SweepDeadLetter \/ SweepRelease \/ SweepDone
  \/ \E t \in Tasks : SweepRead(t)

\* The server process stops and starts again: what goroutines held is lost.  (With
\* nothing held there is nothing to lose.)
ServerRestart ==
  /\ inflight # {} \/ sweep.pc \in {"list", "act"} \/ sweep.ids # {}
  /\ inflight' = {}
  /\ sweep' = SweepIdle
  /\ UNCHANGED <<tables, rule>>

-----------------------------------------------------------------------------
TimePasses ==
  \/ \E t \in Tasks : LeaseRunsOut(t) \/ ScheduledTimeComes(t)
  \/ \E h \in HumanIds : DecisionDeadlinePasses(h)

RuleRequest(r) ==
  \/ CreateRuleVersion(r) \/ ApproveRuleVersion(r) \/ RejectRuleVersion(r)
  \/ \E b \in BOOLEAN : SetRuleApproval(r, b)

AdminRequest ==
  \/ \E t \in Tasks : CancelTask(t) \/ RetryTask(t) \/ \E due \in BOOLEAN : CreateTask(t, due)
  \/ \E r \in Rules : RuleRequest(r)
  \/ \E h \in HumanIds, d \in {"approved", "rejected"} : DecideHumanIntervention(h, d)

WorkerRequest ==
  \E w \in Workers, t \in Tasks :
    \/ SubmitHeartbeat(w, t)
    \/ \E s \in ReportedStatuses : SubmitLegacyStatus(w, t, s)
    \/ \E n \in AttemptNumbers :
         \/ \E p \in Profiles : ClaimTask(w, p, t, n)
         \/ \E s \in ReportedStatuses : SubmitAttemptStatus(w, t, n, s)
         \/ \E sub \in Submissions : CheckResult(w, t, n, sub)
         \/ \E h \in HumanIds : CreateHumanIntervention(w, t, n, h)

Next ==
  \/ TimePasses
  \/ AdminRequest
  \/ WorkerRequest
  \/ \E f \in inflight : InsertResult(f)
  \/ \E h \in HumanIds : PollDecision(h)
  \/ Sweep
  \/ ServerRestart

Spec == Init /\ [][Next]_vars

(* The sweeper's ticker goroutine keeps running while the server is up, so    *)
(* each of its steps is taken sooner or later; the server may crash, but not  *)
(* for ever.  No fairness is asked of workers, operators or time.             *)
FairSpec == Spec /\ WF_vars(Sweep) /\ <>[][~ServerRestart]_vars

-----------------------------------------------------------------------------
(* Correctness.                                                             *)

\* An attempt is open exactly when it is the current attempt of a task in the
\* same status held by the attempt's worker: no two attempts of a task are ever
\* open together, and a task that nobody works on has no open attempt left over.
\* claimTask, CancelTask, ReleaseTask, both status updates and the three ways an
\* intervention ends each write the two tables on their own.
OneOpenAttempt ==
  \A t \in Tasks :
    /\ task[t].status \in LiveStatuses =>
         /\ task[t].current \in AttemptNumbers
         /\ attempts[t][task[t].current].status = task[t].status
         /\ attempts[t][task[t].current].worker = task[t].worker
    /\ \A n \in AttemptNumbers :
         attempts[t][n].status \in LiveStatuses =>
           task[t].current = n /\ task[t].status \in LiveStatuses

\* A task waits for a human exactly when one pending intervention, of its current
\* attempt and worker, is there to end the wait.  If it broke, the wait could never
\* end, or one stray row would abort every sweep from then on.
WaitHasDecision ==
  /\ \A h \in HumanIds : human[h].status = "pending" => WaitsOn(h)
  /\ \A t \in Tasks : task[t].status = "waiting_for_human" =>
       \E h \in HumanIds : human[h].status = "pending" /\ human[h].task = t
  /\ \A h, k \in HumanIds :
       human[h].status = "pending" /\ human[k].status = "pending"
         /\ human[h].task = human[k].task => h = k

\* A task a worker holds has a lease the sweeper can see expire, and a queued task
\* has neither worker nor lease: nothing is out of reach of both claimTask and the
\* sweeper, whichever way (claim, heartbeat, approval, release, retry) it came.
HeldIsSweepable ==
  \A t \in Tasks :
    /\ task[t].status \in HeldStatuses => task[t].lease # "none"
    /\ task[t].status \in LiveStatuses => task[t].worker \in Workers
    /\ task[t].status \in {"absent", "pending"} =>
         task[t].lease = "none" /\ task[t].worker = NoWorker

\* retry_count never passes max_retries, although the sweeper compares the count it
\* read in one transaction and increments it in a later one: what it read is never
\* less than what the row holds when it acts.
RetriesBounded ==
  /\ \A t \in Tasks : task[t].retry <= MaxRetries
  /\ sweep.pc = "act" => task[sweep.id].retry <= sweep.retry

\* Every held task is within reach of the sweeper, every queued one of a claim, and
\* no task is queued more often than max_retries allows.
QueueIsSound ==
  /\ HeldIsSweepable
  /\ RetriesBounded

\* A worker passes its concurrency limit only by an operator approving the resume
\* of one of its waiting tasks; claims, retries and releases never take it there.
LimitPassedOnlyByApproval ==
  [][\A w \in Workers :
       ActiveCount(w)' > MaxWorkerTasks /\ ActiveCount(w)' > ActiveCount(w) =>
         \E h \in HumanIds :
           /\ human[h].status = "pending" /\ human'[h].status = "approved"
           /\ human[h].worker = w]_vars

\* A versioned task is done only with a valid batch and exactly one summary stored
\* for the attempt that finished it, and they stay.
DoneHasResults ==
  \A t \in Versioned :
    task[t].status = "done" =>
      /\ \E r \in results[t][task[t].current] : r.kind = "batch" /\ r.valid
      /\ Cardinality({r \in results[t][task[t].current] : r.kind = "summary"}) = 1

\* History is never rewritten: a closed attempt keeps its outcome, a decided
\* intervention its decision and a done task its status, whatever late worker
\* call, sweep step, decision or admin request comes after.
ClosedStaysClosed ==
  [][/\ \A t \in Tasks : task[t].status = "done" => task'[t].status = "done"
     /\ \A t \in Tasks, n \in AttemptNumbers :
          attempts[t][n].status \in AttemptTerminal => attempts'[t][n] = attempts[t][n]
     /\ \A h \in HumanIds :
          human[h].status \notin {"unused", "pending"} => human'[h] = human[h]]_vars

\* Every expired lease of a held task is noticed: the sweeper requeues it or moves
\* it to dead_letter, unless its worker renews or ends it first.
ExpiredLeaseIsSwept ==
  \A t \in Tasks :
    (task[t].status \in HeldStatuses /\ task[t].lease = "expired")
      ~> ~(task[t].status \in HeldStatuses /\ task[t].lease = "expired")

\* Every overdue decision is closed without anyone asking for it.
OverdueDecisionCloses ==
  \A h \in HumanIds : (h \in Overdue) ~> (h \notin Overdue)

\* The sweeper catches up: it never stops short of a lease that ran out or a decision
\* that is overdue.
SweeperCatchesUp ==
  /\ ExpiredLeaseIsSwept
  /\ OverdueDecisionCloses

-----------------------------------------------------------------------------
(* The store implements the attempt ledger.                                 *)

PhaseOf(s) ==
  CASE s = "absent" -> "absent"
    [] s = "pending" -> "queued"
    [] s \in LiveStatuses -> "held"
    [] s = "done" -> "done"
    [] OTHER -> "closed"

EntryOf(s) ==
  CASE s = "none" -> "none"
    [] s \in LiveStatuses -> "open"
    [] s = "succeeded" -> "succeeded"
    [] OTHER -> "lost"

Ledger == INSTANCE AttemptLedger WITH
  phase <- [t \in Tasks |-> PhaseOf(task[t].status)],
  ledger <- [t \in Tasks |-> [n \in AttemptNumbers |-> EntryOf(attempts[t][n].status)]]

\* Whatever workers, operators and the sweeper do, what a task and its attempts go
\* through is a behaviour of the abstract ledger.
ImplementsLedger == Ledger!Spec

-----------------------------------------------------------------------------
(* What the repository says of this code and the code does not do.          *)

\* "new data after terminal status should fail": no result is stored for a closed
\* attempt.
NoResultAfterClose ==
  [][\A t \in Tasks, n \in AttemptNumbers :
       attempts[t][n].status \in AttemptTerminal => results'[t][n] = results[t][n]]_vars

=============================================================================
