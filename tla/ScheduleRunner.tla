---------------------------- MODULE ScheduleRunner ----------------------------
(***************************************************************************)
(* Cron and one-time schedules: the rows of the tables schedules and       *)
(* scheduler_locks, the schedule runner of every server instance that      *)
(* shares the database, and the admin requests on schedules.               *)
(*                                                                         *)
(* A run of the runner is a sequence of separate statements: take the      *)
(* lock, list the due schedules, then for each one read its rule, insert   *)
(* the task, perhaps a catch-up task, write the whole schedule row back,   *)
(* and finally renew the lock.  Each is a step here, and other runners,    *)
(* operators, crashes and the end of the lock's lease come between.        *)
(*                                                                         *)
(* One unit of time is the minute of a cron expression.  expires_at of the *)
(* lock is only compared with the current time; the outcome is kept.       *)
(***************************************************************************)
EXTENDS Integers

CONSTANTS
  Schedules,    \* schedule ids
  Instances,    \* server instances, each with one runner
  NoOwner,      \* no row in scheduler_locks
  Departed,     \* the instance id of a process that is gone
  Cron,         \* the schedules of type cron; the others are of type once
  RunOnce,      \* the schedules whose catchup is run_once; the others skip
  CronSlots,    \* the minutes that match the cron expression
  MaxCatchUp,   \* maxCatchUpIterations
  MaxTime       \* bound: the last minute of a run

ASSUME InstancesAssumption ==
  /\ NoOwner \notin Instances
  /\ Departed \notin Instances
  /\ NoOwner # Departed

ASSUME TimesAssumption ==
  /\ MaxTime \in Nat
  /\ MaxCatchUp \in Nat
  /\ CronSlots \subseteq 0..MaxTime

ASSUME SchedulesAssumption ==
  /\ Cron \subseteq Schedules
  /\ RunOnce \subseteq Schedules

Minutes == 0..MaxTime

\* A run later than any minute of the model.
Later == MaxTime + 1

RunTimes == 0..Later

\* next_run_at NULL.
Null == -1

VARIABLES
  now,       \* the clock
  row,       \* schedules: whether the row is there, enabled, next_run_at
  active,    \* the schedules whose rule is enabled and approved
  tasks,     \* the tasks made by runners: <<schedule_id, scheduled_at>>
  lock,      \* the row schedule_runner of scheduler_locks
  runner,    \* the goroutine of each instance
  editor,    \* an admin UpdateSchedule request between its read and its write
  disturbed  \* history: which kinds of disturbance have happened

vars == <<now, row, active, tasks, lock, runner, editor, disturbed>>

Rows == [state : {"unused", "present", "deleted"}, enabled : BOOLEAN, next : RunTimes \cup {Null}]

Absent == [state |-> "unused", enabled |-> FALSE, next |-> Null]

Steps == {"list", "loop", "create", "disable", "catchup", "update"}

Idle(acquired) ==
  [pc |-> "idle", acquired |-> acquired, at |-> 0, todo |-> {}, cur |-> {}, copy |-> Absent]

Copies == [id : Schedules, copy : Rows]

\* Type invariant of the schedules, the lock and the runners.
TypeOK ==
  /\ now \in Minutes
  /\ row \in [Schedules -> Rows]
  /\ active \in SUBSET Schedules
  /\ tasks \in SUBSET (Schedules \X RunTimes)
  /\ lock \in [owner : Instances \cup {NoOwner, Departed}, live : BOOLEAN]
  /\ runner \in [Instances ->
       [pc : {"idle"} \cup Steps, acquired : BOOLEAN, at : Minutes,
        todo : SUBSET Copies, cur : SUBSET Schedules, copy : Rows]]
  /\ editor \in SUBSET Copies
  /\ disturbed \in SUBSET {"failure", "overlap", "edit"}

Init ==
  /\ now = 0
  /\ row = [s \in Schedules |-> Absent]
  /\ active = Schedules
  /\ tasks = {}
  /\ lock = [owner |-> NoOwner, live |-> FALSE]
  /\ runner = [i \in Instances |-> Idle(FALSE)]
  /\ editor = {}
  /\ disturbed = {}

-----------------------------------------------------------------------------
(* Cron arithmetic.                                                         *)

\* A slip: the search starts at the minute itself.
nextRunInclusive(after) ==
  LET matching == {m \in CronSlots : m >= after}
  IN IF matching = {} THEN Later
     ELSE CHOOSE m \in matching : \A k \in matching : m <= k

\* The first matching minute strictly after the given one.
nextRun(after) ==
  LET matching == {m \in CronSlots : m > after}
  IN IF matching = {} THEN Later
     ELSE CHOOSE m \in matching : \A k \in matching : m <= k

\* The advancement loop: at most MaxCatchUp further runs are computed, then the
\* next run is set to the present.
Advance(next, at) ==
  LET step[left \in 0..MaxCatchUp] ==
        [n \in RunTimes |-> IF n > at THEN n
                            ELSE IF left = 0 THEN at ELSE step[left - 1][nextRun(n)]]
  IN step[MaxCatchUp][next]

-----------------------------------------------------------------------------
(* The lock and the runner.                                                 *)

Tick ==
  /\ now < MaxTime
  /\ now' = now + 1
  /\ UNCHANGED <<row, active, tasks, lock, runner, editor, disturbed>>

\* now reaches expires_at of the lock.
LockRunsOut ==
  /\ lock.live
  /\ lock' = [lock EXCEPT !.live = FALSE]
  /\ UNCHANGED <<now, row, active, tasks, runner, editor, disturbed>>

\* A slip: the lock of an owner that is gone is never taken over.
MayTakeLockUnowned(i) == lock.owner \in {NoOwner, i}

MayTakeLock(i) == lock.owner \in {NoOwner, i} \/ ~lock.live

\* AcquireSchedulerLock on a tick of the runner.
Acquire(i) ==
  /\ runner[i].pc = "idle"
  /\ MayTakeLock(i)
  /\ lock' = [owner |-> i, live |-> TRUE]
  /\ runner' = [runner EXCEPT ![i] = [runner[i] EXCEPT !.pc = "list", !.acquired = TRUE]]
  /\ disturbed' = IF \E j \in Instances \ {i} : runner[j].pc # "idle"
                  THEN disturbed \cup {"overlap"} ELSE disturbed
  /\ UNCHANGED <<now, row, active, tasks, editor>>

NotAcquired(i) ==
  /\ runner[i].pc = "idle"
  /\ ~MayTakeLock(i)
  /\ runner[i].acquired
  /\ runner' = [runner EXCEPT ![i].acquired = FALSE]
  /\ UNCHANGED <<now, row, active, tasks, lock, editor, disturbed>>

Due(s) == row[s].state = "present" /\ row[s].enabled /\ row[s].next # Null /\ row[s].next <= now

\* runOnce: the time is read and the due rows are copied.
ListDueSchedules(i) ==
  /\ runner[i].pc = "list"
  /\ runner' = [runner EXCEPT ![i] =
       [runner[i] EXCEPT !.pc = "loop", !.at = now,
          !.todo = {[id |-> s, copy |-> row[s]] : s \in {u \in Schedules : Due(u)}}]]
  /\ UNCHANGED <<now, row, active, tasks, lock, editor, disturbed>>

\* processSchedule for the next copy, oldest first: its rule is read.  A read that
\* fails, for whatever reason, counts as an inactive rule.
ReadRule(i, c, ok) ==
  /\ runner[i].pc = "loop"
  /\ c \in runner[i].todo
  /\ \A d \in runner[i].todo : c.copy.next <= d.copy.next
  /\ runner' = [runner EXCEPT ![i] =
       [runner[i] EXCEPT !.pc = IF ok /\ c.id \in active THEN "create" ELSE "disable",
          !.todo = runner[i].todo \ {c}, !.cur = {c.id}, !.copy = c.copy]]
  /\ UNCHANGED <<now, row, active, tasks, lock, editor, disturbed>>

\* UpdateSchedule writes every column of a row that is still there.
WriteRow(s, copy) ==
  row' = IF row[s].state = "present" THEN [row EXCEPT ![s] = copy] ELSE row

disableSchedule(i, s) ==
  /\ runner[i].pc = "disable"
  /\ s \in runner[i].cur
  /\ WriteRow(s, [runner[i].copy EXCEPT !.enabled = FALSE])
  /\ runner' = [runner EXCEPT ![i] =
       [runner[i] EXCEPT !.pc = "loop", !.cur = {}, !.copy = Absent]]
  /\ UNCHANGED <<now, active, tasks, lock, editor, disturbed>>

\* The copy and the step after the task for copy.next is made.
AfterRun(i, s) ==
  LET at == runner[i].at
      copy == runner[i].copy
      next == nextRun(copy.next)
  IN CASE s \notin Cron ->
            [pc |-> "update", copy |-> [copy EXCEPT !.next = Null, !.enabled = FALSE]]
       [] s \in Cron /\ next <= at /\ s \in RunOnce ->
            [pc |-> "catchup", copy |-> [copy EXCEPT !.next = next]]
       [] OTHER ->
            [pc |-> "update", copy |-> [copy EXCEPT !.next = Advance(next, at)]]

\* A slip: the row is written before the task is made.
CreateTaskAfterUpdate(i, s) ==
  /\ runner[i].pc = "create"
  /\ s \in runner[i].cur
  /\ WriteRow(s, AfterRun(i, s).copy)
  /\ runner' = [runner EXCEPT ![i] = [runner[i] EXCEPT !.pc = "update"]]
  /\ UNCHANGED <<now, active, tasks, lock, editor, disturbed>>

\* createTaskFromSchedule for the due run.
CreateTask(i, s) ==
  /\ runner[i].pc = "create"
  /\ s \in runner[i].cur
  /\ tasks' = tasks \cup {<<s, runner[i].copy.next>>}
  /\ runner' = [runner EXCEPT ![i] =
       [runner[i] EXCEPT !.pc = AfterRun(i, s).pc, !.copy = AfterRun(i, s).copy]]
  /\ UNCHANGED <<now, row, active, lock, editor, disturbed>>

\* createTaskFromSchedule for the first missed run, under run_once; whether it
\* succeeds makes no difference to the row.
CreateCatchUpTask(i, s) ==
  /\ runner[i].pc = "catchup"
  /\ s \in runner[i].cur
  /\ \/ tasks' = tasks \cup {<<s, runner[i].copy.next>>}
     \/ UNCHANGED tasks
  /\ runner' = [runner EXCEPT ![i] =
       [runner[i] EXCEPT !.pc = "update",
          !.copy.next = Advance(nextRun(runner[i].copy.next), runner[i].at)]]
  /\ UNCHANGED <<now, row, active, lock, editor, disturbed>>

UpdateAfterRun(i, s) ==
  /\ runner[i].pc = "update"
  /\ s \in runner[i].cur
  /\ WriteRow(s, runner[i].copy)
  /\ runner' = [runner EXCEPT ![i] =
       [runner[i] EXCEPT !.pc = "loop", !.cur = {}, !.copy = Absent]]
  /\ UNCHANGED <<now, active, tasks, lock, editor, disturbed>>

\* The list, the task or the row cannot be read or written: it is logged, and the
\* runner goes on with the next schedule.
StatementFails(i) ==
  /\ runner[i].pc \in {"list", "create", "disable", "update"}
  /\ runner' = [runner EXCEPT ![i] =
       [runner[i] EXCEPT !.pc = "loop", !.cur = {}, !.copy = Absent]]
  /\ disturbed' = IF runner[i].pc = "update" THEN disturbed \cup {"failure"} ELSE disturbed
  /\ UNCHANGED <<now, row, active, tasks, lock, editor>>

\* RenewSchedulerLock, for the owner only; the answer is not looked at.
RenewSchedulerLock(i) ==
  /\ runner[i].pc = "loop"
  /\ runner[i].todo = {}
  /\ lock' = IF lock.owner = i THEN [lock EXCEPT !.live = TRUE] ELSE lock
  /\ runner' = [runner EXCEPT ![i] = Idle(TRUE)]
  /\ UNCHANGED <<now, row, active, tasks, editor, disturbed>>

\* The context is cancelled: the statements left in the run fail, and a runner that
\* believes it has the lock deletes the lock row if it is its own.
Shutdown(i) ==
  /\ runner[i].acquired
  /\ lock' = IF lock.owner = i THEN [owner |-> NoOwner, live |-> FALSE] ELSE lock
  /\ runner' = [runner EXCEPT ![i] = Idle(FALSE)]
  /\ disturbed' = IF runner[i].pc # "idle" THEN disturbed \cup {"failure"} ELSE disturbed
  /\ UNCHANGED <<now, row, active, tasks, editor>>

\* The process dies; it comes back under another instance id.
Crash(i) ==
  /\ runner[i].acquired
  /\ lock' = IF lock.owner = i THEN [lock EXCEPT !.owner = Departed] ELSE lock
  /\ runner' = [runner EXCEPT ![i] = Idle(FALSE)]
  /\ disturbed' = disturbed \cup {"failure"}
  /\ UNCHANGED <<now, row, active, tasks, editor>>

-----------------------------------------------------------------------------
(* The admin API.                                                           *)

\* The first run of a new or changed expression: any time for type once.
FirstRuns(s) == IF s \in Cron THEN {nextRun(now)} ELSE Minutes

CreateSchedule(s, next, enabled) ==
  /\ row[s] = Absent
  /\ s \in active
  /\ next \in FirstRuns(s)
  /\ row' = [row EXCEPT ![s] = [state |-> "present", enabled |-> enabled, next |-> next]]
  /\ UNCHANGED <<now, active, tasks, lock, runner, editor, disturbed>>

\* UpdateSchedule, first statement: GetScheduleByID.
EditRead(s) ==
  /\ editor = {}
  /\ row[s].state = "present"
  /\ editor' = {[id |-> s, copy |-> row[s]]}
  /\ UNCHANGED <<now, row, active, tasks, lock, runner, disturbed>>

\* UpdateSchedule, last statement: enabled, or the expression and with it
\* next_run_at, is changed in the copy, and all of the copy is written.
EditWrite(e, enabled, next) ==
  /\ e \in editor
  /\ next \in FirstRuns(e.id) \cup {e.copy.next}
  /\ WriteRow(e.id, [e.copy EXCEPT !.enabled = enabled, !.next = next])
  /\ editor' = {}
  /\ disturbed' = disturbed \cup {"edit"}
  /\ UNCHANGED <<now, active, tasks, lock, runner>>

DeleteSchedule(s) ==
  /\ row[s].state = "present"
  /\ row' = [row EXCEPT ![s] = [Absent EXCEPT !.state = "deleted"]]
  /\ UNCHANGED <<now, active, tasks, lock, runner, editor, disturbed>>

\* The rule of a schedule is enabled and approved, or no longer so.
SetRuleActive(s) ==
  /\ active' = IF s \in active THEN active \ {s} ELSE active \cup {s}
  /\ UNCHANGED <<now, row, tasks, lock, runner, editor, disturbed>>

-----------------------------------------------------------------------------
RunnerStep(i) ==
  \/ Acquire(i) \/ NotAcquired(i) \/ ListDueSchedules(i) \/ RenewSchedulerLock(i)
  \/ \E c \in runner[i].todo, ok \in BOOLEAN : ReadRule(i, c, ok)
  \/ \E s \in Schedules :
       \/ disableSchedule(i, s)
       \/ CreateTask(i, s)
       \/ CreateCatchUpTask(i, s)
       \/ UpdateAfterRun(i, s)

AdminRequest ==
  \/ \E s \in Schedules : EditRead(s) \/ DeleteSchedule(s) \/ SetRuleActive(s)
  \/ \E s \in Schedules, next \in RunTimes, enabled \in BOOLEAN : CreateSchedule(s, next, enabled)
  \/ \E e \in editor, next \in RunTimes \cup {Null}, enabled \in BOOLEAN : EditWrite(e, enabled, next)

Next ==
  \/ Tick
  \/ LockRunsOut
  \/ \E i \in Instances : RunnerStep(i) \/ StatementFails(i) \/ Shutdown(i) \/ Crash(i)
  \/ AdminRequest

Spec == Init /\ [][Next]_vars

(* Each runner's ticker goroutine keeps running and time keeps passing, so that *)
(* a lock nobody renews runs out.  Processes do not die and statements do not   *)
(* fail for ever, and operators do not for ever write stale copies of a         *)
(* schedule over what a runner wrote.                                           *)
FairSpec ==
  /\ Spec
  /\ WF_vars(LockRunsOut)
  /\ \A i \in Instances : WF_vars(RunnerStep(i))
  /\ <>[][~\E i \in Instances : StatementFails(i) \/ Shutdown(i) \/ Crash(i)]_vars
  /\ <>[](editor = {})

-----------------------------------------------------------------------------
(* Correctness.                                                             *)

\* The run a runner is about to make a task for.
Making(i) == IF runner[i].pc \in {"create", "catchup"}
             THEN runner[i].cur \X {runner[i].copy.next} ELSE {}

\* A run gets a second task only after a process died or was stopped in the middle of
\* a run, a row could not be written back, two runners overlapped, or an operator
\* wrote the schedule: never from the cron arithmetic, the catch-up task, the jump to
\* the present, or the hand-over of the lock between runs.
OneTaskPerRun ==
  disturbed = {} => \A i \in Instances : Making(i) \cap tasks = {}

\* A due run leaves next_run_at only when its task exists, or because its schedule is
\* disabled, deleted or edited.  No crash, shutdown or failed statement loses a run:
\* the task is made before the row moves on.
NoRunLost ==
  [][\A s \in Schedules :
       /\ disturbed' \subseteq {"failure"}
       /\ Due(s)
       /\ row'[s].state = "present"
       /\ row'[s].next # row[s].next
       => <<s, row[s].next>> \in tasks]_vars

\* Every due schedule is seen to: its next run moves into the future or it is
\* disabled, also when the lock's owner died with the lock in hand.
DueIsHandled == \A s \in Schedules : Due(s) ~> ~Due(s)

\* Types hold, and one task per scheduled run.
RunsAreSound ==
  /\ TypeOK
  /\ OneTaskPerRun

=============================================================================
