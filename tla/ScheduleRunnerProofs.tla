------------------------- MODULE ScheduleRunnerProofs -------------------------
(***************************************************************************)
(* Proofs about ScheduleRunner, for any schedules, instances, cron          *)
(* expressions, limit of catch-up iterations and length of a run.           *)
(***************************************************************************)
EXTENDS ScheduleRunner, InductionLemmas

-----------------------------------------------------------------------------
(* Cron arithmetic.                                                         *)

\* The next run is a minute of the model or lies beyond it, and it is a later one.
LEMMA NextRunLater ==
  ASSUME NEW after \in RunTimes
  PROVE  /\ nextRun(after) \in RunTimes
         /\ nextRun(after) >= after
         /\ after \in Minutes => nextRun(after) > after
<1> DEFINE matching == {m \in CronSlots : m > after}
<1>0. /\ \A m \in CronSlots : m \in Nat /\ m <= MaxTime
      /\ MaxTime \in Nat /\ after \in Nat /\ after <= MaxTime + 1
  BY TimesAssumption DEF RunTimes, Later
<1> USE DEF RunTimes, Later, Minutes
<1>1. CASE matching = {}
  <2>1. nextRun(after) = Later
    BY <1>1 DEF nextRun
  <2>2. after \in Minutes => after < MaxTime + 1
    BY <1>0
  <2> QED BY <1>0, <2>1, <2>2
<1>2. CASE matching # {}
  <2>1. matching \in SUBSET Nat
    BY <1>0
  <2>2. \E m \in matching : \A k \in matching : m <= k
    <3> HIDE DEF matching
    <3> QED BY <1>2, <2>1, LeastNatural
  <2>3. nextRun(after) \in matching
    BY <1>2, <2>2 DEF nextRun
  <2>4. nextRun(after) \in Nat /\ nextRun(after) <= MaxTime /\ nextRun(after) > after
    BY <1>0, <2>3
  <2> HIDE DEF matching
  <2> QED BY <1>0, <2>4
<1> QED BY <1>1, <1>2

\* The loop ends, at no earlier run than it began with.
LEMMA AdvanceLater ==
  ASSUME NEW next \in RunTimes, NEW at \in Minutes
  PROVE  Advance(next, at) \in RunTimes /\ Advance(next, at) >= next
<1> DEFINE Body(g, left) ==
             [n \in RunTimes |-> IF n > at THEN n
                                 ELSE IF left = 0 THEN at ELSE g[left - 1][nextRun(n)]]
           Loop(g, k) == \A left \in 0..k : g[left] = Body(g, left)
           Solves(g, k) == g = [left \in 0..k |-> g[left]] /\ Loop(g, k)
           Good == {k \in 0..MaxCatchUp : \E g : Solves(g, k)}
<1>1. \A k \in 0..MaxCatchUp : k \in Good
  <2>1. 0 \in Good
    <3> DEFINE g == [left \in 0..0 |-> [n \in RunTimes |-> IF n > at THEN n ELSE at]]
    <3>1. Solves(g, 0)
      OBVIOUS
    <3> HIDE DEF Solves, g
    <3> QED BY <3>1, TimesAssumption
  <2>2. ASSUME NEW k \in 0..MaxCatchUp, k + 1 \in 0..MaxCatchUp, k \in Good
        PROVE  k + 1 \in Good
    <3>1. PICK g : Solves(g, k)
      BY <2>2
    <3> DEFINE h == [left \in 0..(k + 1) |-> IF left \in 0..k THEN g[left] ELSE Body(g, k + 1)]
    <3>2. ASSUME NEW left \in 0..(k + 1) PROVE h[left] = Body(h, left)
      <4>1. CASE left \in 0..k
        <5>1. h[left] = Body(g, left)
          BY <3>1, <4>1
        <5>2. left # 0 => h[left - 1] = g[left - 1]
          BY <4>1
        <5> QED BY <5>1, <5>2
      <4>2. CASE left = k + 1
        <5>1. h[left] = Body(g, k + 1) /\ h[k] = g[k]
          BY <4>2
        <5> QED BY <4>2, <5>1, SMTT(30)
      <4> QED BY <4>1, <4>2
    <3>3. h = [left \in 0..(k + 1) |-> h[left]]
      OBVIOUS
    <3>4. Solves(h, k + 1)
      <4> HIDE DEF h, Body
      <4> QED BY <3>2, <3>3
    <3> HIDE DEF Solves, h
    <3> QED BY <2>2, <3>4
  <2> HIDE DEF Good
  <2> QED BY <2>1, <2>2, CountUp, TimesAssumption
<1> DEFINE step == CHOOSE g : g = [left \in 0..MaxCatchUp |-> Body(g, left)]
<1>2. step = [left \in 0..MaxCatchUp |-> Body(step, left)]
  <2>1. MaxCatchUp \in 0..MaxCatchUp
    BY TimesAssumption
  <2>2. PICK g : Solves(g, MaxCatchUp)
    BY <1>1, <2>1
  <2>3. g = [left \in 0..MaxCatchUp |-> Body(g, left)]
    BY <2>2
  <2> HIDE DEF Body
  <2> QED BY <2>3
<1>3. Advance(next, at) = step[MaxCatchUp][next]
  BY DEF Advance
<1> HIDE DEF step
<1> DEFINE Ends == {k \in 0..MaxCatchUp : \A n \in RunTimes : step[k][n] \in RunTimes /\ step[k][n] >= n}
<1>4. \A k \in 0..MaxCatchUp : k \in Ends
  <2> USE TimesAssumption DEF RunTimes, Later, Minutes
  <2>1. 0 \in Ends
    <3>1. step[0] = Body(step, 0)
      BY <1>2
    <3> QED BY <3>1
  <2>2. ASSUME NEW k \in 0..MaxCatchUp, k + 1 \in 0..MaxCatchUp, k \in Ends
        PROVE  k + 1 \in Ends
    <3>1. step[k + 1] = Body(step, k + 1)
      BY <1>2, <2>2
    <3> SUFFICES ASSUME NEW n \in RunTimes
                 PROVE  step[k + 1][n] \in RunTimes /\ step[k + 1][n] >= n
      BY <2>2
    <3>2. step[k + 1][n] = IF n > at THEN n ELSE step[k][nextRun(n)]
      BY <3>1
    <3>3. nextRun(n) \in RunTimes /\ nextRun(n) >= n
      BY NextRunLater
    <3>4. step[k][nextRun(n)] \in RunTimes /\ step[k][nextRun(n)] >= nextRun(n)
      BY <2>2, <3>3
    <3> QED BY <3>2, <3>3, <3>4
  <2> HIDE DEF Ends
  <2> QED BY <2>1, <2>2, CountUp
<1>5. MaxCatchUp \in 0..MaxCatchUp
  BY TimesAssumption
<1> QED BY <1>3, <1>4, <1>5

-----------------------------------------------------------------------------
(* Types.                                                                   *)

\* A runner, as TypeOK has it.
RunnerType ==
  [pc : {"idle"} \cup Steps, acquired : BOOLEAN, at : Minutes,
   todo : SUBSET Copies, cur : SUBSET Schedules, copy : Rows]

\* The null values have the types of what they stand for.
LEMMA NullTypes ==
  /\ Absent \in Rows
  /\ \A acquired \in BOOLEAN : Idle(acquired) \in RunnerType
  /\ 0 \in Minutes /\ Minutes \subseteq RunTimes
<1>1. 0 \in Minutes /\ Minutes \subseteq RunTimes
  BY TimesAssumption DEF Minutes, RunTimes, Later
<1>2. Absent \in Rows
  BY DEF Absent, Rows
<1>3. ASSUME NEW acquired \in BOOLEAN PROVE Idle(acquired) \in RunnerType
  BY <1>1, <1>2 DEF Idle, RunnerType
<1> QED BY <1>1, <1>2, <1>3

\* The fields of a runner.
LEMMA RunnerFields ==
  ASSUME TypeOK, NEW i \in Instances
  PROVE  /\ runner[i] \in RunnerType
         /\ runner[i].copy \in Rows /\ runner[i].at \in Minutes
         /\ runner[i].cur \in SUBSET Schedules /\ runner[i].todo \in SUBSET Copies
         /\ runner[i].acquired \in BOOLEAN
BY DEF TypeOK, RunnerType

\* Writing a row, and what a run leaves in the copy.
LEMMA WriteRowType ==
  ASSUME TypeOK, NEW s \in Schedules, NEW copy \in Rows, WriteRow(s, copy)
  PROVE  /\ row' \in [Schedules -> Rows]
         /\ \A t \in Schedules : row'[t] = row[t] \/ (t = s /\ row[s].state = "present" /\ row'[t] = copy)
BY DEF TypeOK, WriteRow

LEMMA AfterRunType ==
  ASSUME TypeOK, NEW i \in Instances, NEW s \in Schedules, runner[i].copy.next \in RunTimes
  PROVE  /\ AfterRun(i, s).pc \in {"catchup", "update"}
         /\ AfterRun(i, s).copy \in Rows
         /\ AfterRun(i, s).copy.state = runner[i].copy.state
         /\ \/ AfterRun(i, s).copy.next = Null /\ AfterRun(i, s).pc = "update"
            \/ /\ AfterRun(i, s).copy.next \in RunTimes
               /\ AfterRun(i, s).copy.next >= nextRun(runner[i].copy.next)
         /\ AfterRun(i, s).pc = "catchup" =>
              /\ AfterRun(i, s).copy.next \in RunTimes
              /\ AfterRun(i, s).copy.next <= runner[i].at
<1> DEFINE copy == runner[i].copy
           at == runner[i].at
           next == nextRun(copy.next)
<1>1. copy \in Rows /\ at \in Minutes
  BY RunnerFields
<1>2. next \in RunTimes
  BY NextRunLater
<1>3. Advance(next, at) \in RunTimes /\ Advance(next, at) >= next
  BY <1>1, <1>2, AdvanceLater
<1>4. next >= next /\ next = nextRun(runner[i].copy.next)
  BY <1>2 DEF RunTimes
<1> HIDE DEF next
<1>5. CASE s \notin Cron
  <2>1. AfterRun(i, s) = [pc |-> "update", copy |-> [copy EXCEPT !.next = Null, !.enabled = FALSE]]
    BY <1>5 DEF AfterRun
  <2>2. AfterRun(i, s).pc = "update"
        /\ AfterRun(i, s).copy = [copy EXCEPT !.next = Null, !.enabled = FALSE]
    BY <2>1
  <2>3. /\ [copy EXCEPT !.next = Null, !.enabled = FALSE] \in Rows
        /\ [copy EXCEPT !.next = Null, !.enabled = FALSE].next = Null
        /\ [copy EXCEPT !.next = Null, !.enabled = FALSE].state = copy.state
    BY <1>1 DEF Rows
  <2> QED BY <2>2, <2>3
<1>6. ASSUME NEW n \in RunTimes
      PROVE  /\ [copy EXCEPT !.next = n] \in Rows
             /\ [copy EXCEPT !.next = n].next = n
             /\ [copy EXCEPT !.next = n].state = copy.state
  BY <1>1 DEF Rows
<1>7. CASE s \in Cron /\ next <= at /\ s \in RunOnce
  <2>1. AfterRun(i, s) = [pc |-> "catchup", copy |-> [copy EXCEPT !.next = next]]
    BY <1>7 DEF AfterRun, next
  <2>2. AfterRun(i, s).pc = "catchup" /\ AfterRun(i, s).copy = [copy EXCEPT !.next = next]
    BY <2>1
  <2>3. AfterRun(i, s).copy \in Rows /\ AfterRun(i, s).copy.next = next
        /\ AfterRun(i, s).copy.state = copy.state
    BY <1>2, <1>6, <2>2
  <2> QED BY <1>2, <1>4, <1>7, <2>2, <2>3
<1>8. CASE s \in Cron /\ ~(next <= at /\ s \in RunOnce)
  <2> DEFINE adv == Advance(next, at)
  <2>1. AfterRun(i, s) = [pc |-> "update", copy |-> [copy EXCEPT !.next = adv]]
    BY <1>8 DEF AfterRun, next
  <2>2. adv \in RunTimes /\ adv >= next
    BY <1>3
  <2> HIDE DEF adv
  <2>3. AfterRun(i, s).pc = "update" /\ AfterRun(i, s).copy = [copy EXCEPT !.next = adv]
    BY <2>1
  <2>4. AfterRun(i, s).copy \in Rows /\ AfterRun(i, s).copy.next = adv
        /\ AfterRun(i, s).copy.state = copy.state
    BY <1>6, <2>2, <2>3
  <2> QED BY <1>4, <2>2, <2>3, <2>4
<1> QED BY <1>5, <1>7, <1>8

\* A step of runner i that keeps its type keeps those of all runners.
LEMMA RunnerUpdate ==
  ASSUME TypeOK, NEW i \in Instances, NEW r \in RunnerType, runner' = [runner EXCEPT ![i] = r]
  PROVE  /\ runner' \in [Instances -> RunnerType]
         /\ runner'[i] = r
         /\ \A j \in Instances \ {i} : runner'[j] = runner[j]
BY DEF TypeOK, RunnerType

-----------------------------------------------------------------------------
(* What a runner works on.                                                  *)

\* The schedule in hand is one, it is not among those to do, and what is to do was
\* due when it was listed.
WorkOf(r) ==
  /\ r.pc \in {"idle", "list"} => r.todo = {}
  /\ r.pc \in {"idle", "list", "loop"} => r.cur = {}
  /\ \A s, t \in r.cur : s = t
  /\ \A c, d \in r.todo : c.id = d.id => c = d
  /\ \A c \in r.todo : c.id \notin r.cur
  /\ \A c \in r.todo : c.copy.next \in RunTimes /\ c.copy.next <= r.at
  /\ r.pc \in {"create", "disable", "catchup"} =>
       r.copy.next \in RunTimes /\ r.copy.next <= r.at

WorkIsApart == \A i \in Instances : WorkOf(runner[i])

\* Idle has nothing to do.
LEMMA IdleWork == \A acquired \in BOOLEAN : WorkOf(Idle(acquired))
BY DEF WorkOf, Idle

\* The runner at the end of one schedule.
LEMMA NextSchedule ==
  ASSUME TypeOK, NEW i \in Instances, WorkOf(runner[i]), runner[i].pc # "idle",
         NEW r, r = [runner[i] EXCEPT !.pc = "loop", !.cur = {}, !.copy = Absent]
  PROVE  r \in RunnerType /\ WorkOf(r)
<1>1. runner[i] \in RunnerType
  BY RunnerFields
<1>2. r \in RunnerType
  BY <1>1, NullTypes DEF RunnerType, Steps
<1>3. r.pc = "loop" /\ r.cur = {} /\ r.todo = runner[i].todo /\ r.at = runner[i].at
  BY <1>1 DEF RunnerType
<1> QED BY <1>2, <1>3 DEF WorkOf

\* What every step of a runner makes of the runner.
LEMMA RunnerSteps ==
  ASSUME TypeOK, WorkIsApart, NEW i \in Instances,
         RunnerStep(i) \/ StatementFails(i) \/ Shutdown(i) \/ Crash(i)
  PROVE  \E r \in RunnerType : WorkOf(r) /\ runner' = [runner EXCEPT ![i] = r]
<1>0. /\ runner[i] \in RunnerType /\ WorkOf(runner[i])
      /\ runner \in [Instances -> RunnerType]
  BY RunnerFields DEF WorkIsApart, TypeOK, RunnerType
<1>1. CASE Acquire(i)
  <2> DEFINE r == [runner[i] EXCEPT !.pc = "list", !.acquired = TRUE]
  <2>1. r \in RunnerType
    BY <1>0 DEF RunnerType, Steps
  <2>2. r.pc = "list" /\ r.todo = runner[i].todo /\ r.cur = runner[i].cur /\ r.at = runner[i].at
    BY <1>0 DEF RunnerType
  <2>3. runner[i].pc = "idle" /\ runner' = [runner EXCEPT ![i] = r]
    BY <1>1 DEF Acquire
  <2> HIDE DEF r
  <2> QED BY <1>0, <2>1, <2>2, <2>3 DEF WorkOf
<1>2. CASE NotAcquired(i)
  <2> DEFINE r == [runner[i] EXCEPT !.acquired = FALSE]
  <2>1. r \in RunnerType
    BY <1>0 DEF RunnerType
  <2>2. r.pc = runner[i].pc /\ r.todo = runner[i].todo /\ r.cur = runner[i].cur
        /\ r.at = runner[i].at /\ r.copy = runner[i].copy
    BY <1>0 DEF RunnerType
  <2>3. runner' = [runner EXCEPT ![i] = r]
    BY <1>2 DEF NotAcquired
  <2> HIDE DEF r
  <2>4. WorkOf(r)
    BY <1>0, <2>2, <2>3 DEF WorkOf
  <2> QED BY <2>1, <2>3, <2>4
<1>3. CASE ListDueSchedules(i)
  <2> DEFINE listed == {[id |-> s, copy |-> row[s]] : s \in {u \in Schedules : Due(u)}}
             r == [runner[i] EXCEPT !.pc = "loop", !.at = now, !.todo = listed]
  <2>1. runner[i].pc = "list" /\ runner' = [runner EXCEPT ![i] = r]
    BY <1>3 DEF ListDueSchedules
  <2>2. listed \in SUBSET Copies
    BY DEF TypeOK, Copies
  <2>3. \A c \in listed : c.copy.next \in RunTimes /\ c.copy.next <= now
    BY DEF TypeOK, Due, Rows
  <2>4. \A c, d \in listed : c.id = d.id => c = d
    OBVIOUS
  <2> HIDE DEF listed
  <2>5. r \in RunnerType
    BY <1>0, <2>2 DEF RunnerType, Steps, TypeOK
  <2>6. r.pc = "loop" /\ r.todo = listed /\ r.cur = runner[i].cur /\ r.at = now
    BY <1>0 DEF RunnerType
  <2> HIDE DEF r
  <2> QED BY <1>0, <2>1, <2>3, <2>4, <2>5, <2>6 DEF WorkOf
<1>4. ASSUME NEW c \in runner[i].todo, NEW ok \in BOOLEAN, ReadRule(i, c, ok)
      PROVE  \E r \in RunnerType : WorkOf(r) /\ runner' = [runner EXCEPT ![i] = r]
  <2> DEFINE pc == IF ok /\ c.id \in active THEN "create" ELSE "disable"
             r == [runner[i] EXCEPT !.pc = pc, !.todo = runner[i].todo \ {c}, !.cur = {c.id},
                     !.copy = c.copy]
  <2>1. runner' = [runner EXCEPT ![i] = r]
    BY <1>4 DEF ReadRule
  <2>2. c.id \in Schedules /\ c.copy \in Rows /\ runner[i].todo \in SUBSET Copies
    BY RunnerFields DEF Copies
  <2>3. pc \in {"create", "disable"}
    OBVIOUS
  <2> HIDE DEF pc
  <2>4. r \in RunnerType
    BY <1>0, <2>2, <2>3 DEF RunnerType, Steps
  <2>5. r.pc = pc /\ r.todo = runner[i].todo \ {c} /\ r.cur = {c.id} /\ r.at = runner[i].at
        /\ r.copy = c.copy
    BY <1>0 DEF RunnerType
  <2> HIDE DEF r
  <2>6. WorkOf(r)
    BY <1>0, <2>3, <2>5 DEF WorkOf
  <2> QED BY <2>1, <2>4, <2>6
<1>5. ASSUME NEW s \in Schedules, disableSchedule(i, s)
      PROVE  \E r \in RunnerType : WorkOf(r) /\ runner' = [runner EXCEPT ![i] = r]
  BY <1>0, <1>5, NextSchedule DEF disableSchedule
<1>6. ASSUME NEW s \in Schedules, CreateTask(i, s)
      PROVE  \E r \in RunnerType : WorkOf(r) /\ runner' = [runner EXCEPT ![i] = r]
  <2> DEFINE pc == AfterRun(i, s).pc
             copy == AfterRun(i, s).copy
             r == [runner[i] EXCEPT !.pc = pc, !.copy = copy]
  <2>1. runner[i].pc = "create" /\ runner' = [runner EXCEPT ![i] = r]
    BY <1>6 DEF CreateTask
  <2>2. pc \in {"catchup", "update"} /\ copy \in Rows
        /\ (pc = "catchup" => copy.next \in RunTimes /\ copy.next <= runner[i].at)
    BY <1>0, <2>1, AfterRunType DEF WorkOf
  <2> HIDE DEF pc, copy
  <2>3. r \in RunnerType
    BY <1>0, <2>2 DEF RunnerType, Steps
  <2>4. r.pc = pc /\ r.todo = runner[i].todo /\ r.cur = runner[i].cur /\ r.at = runner[i].at
        /\ r.copy = copy
    BY <1>0 DEF RunnerType
  <2> HIDE DEF r
  <2>5. WorkOf(r)
    BY <1>0, <2>1, <2>2, <2>4 DEF WorkOf
  <2> QED BY <2>1, <2>3, <2>5
<1>7. ASSUME NEW s \in Schedules, CreateCatchUpTask(i, s)
      PROVE  \E r \in RunnerType : WorkOf(r) /\ runner' = [runner EXCEPT ![i] = r]
  <2> DEFINE next == Advance(nextRun(runner[i].copy.next), runner[i].at)
             r == [runner[i] EXCEPT !.pc = "update", !.copy.next = next]
  <2>1. runner[i].pc = "catchup" /\ runner' = [runner EXCEPT ![i] = r]
    BY <1>7 DEF CreateCatchUpTask
  <2>2. next \in RunTimes
    BY <1>0, <2>1, RunnerFields, NextRunLater, AdvanceLater DEF WorkOf
  <2> HIDE DEF next
  <2>3. [runner[i].copy EXCEPT !.next = next] \in Rows
    BY <2>2, RunnerFields DEF Rows
  <2>4. r = [runner[i] EXCEPT !.pc = "update", !.copy = [runner[i].copy EXCEPT !.next = next]]
    BY <1>0 DEF RunnerType
  <2>5. r \in RunnerType
    BY <1>0, <2>3, <2>4 DEF RunnerType, Steps
  <2>6. r.pc = "update" /\ r.todo = runner[i].todo /\ r.cur = runner[i].cur
        /\ r.at = runner[i].at
    BY <1>0, <2>4 DEF RunnerType
  <2> HIDE DEF r
  <2>7. WorkOf(r)
    BY <1>0, <2>1, <2>6 DEF WorkOf
  <2> QED BY <2>1, <2>5, <2>7
<1>8. ASSUME NEW s \in Schedules, UpdateAfterRun(i, s)
      PROVE  \E r \in RunnerType : WorkOf(r) /\ runner' = [runner EXCEPT ![i] = r]
  BY <1>0, <1>8, NextSchedule DEF UpdateAfterRun
<1>9. CASE StatementFails(i)
  BY <1>0, <1>9, NextSchedule DEF StatementFails
<1>10. CASE RenewSchedulerLock(i) \/ Shutdown(i) \/ Crash(i)
  <2>1. \E acquired \in BOOLEAN : runner' = [runner EXCEPT ![i] = Idle(acquired)]
    BY <1>10 DEF RenewSchedulerLock, Shutdown, Crash
  <2> QED BY <2>1, NullTypes, IdleWork
<1> QED BY <1>1, <1>2, <1>3, <1>4, <1>5, <1>6, <1>7, <1>8, <1>9, <1>10 DEF RunnerStep

\* The rows after a runner's step.
LEMMA RunnerRows ==
  ASSUME TypeOK, WorkIsApart, NEW i \in Instances,
         RunnerStep(i) \/ StatementFails(i) \/ Shutdown(i) \/ Crash(i)
  PROVE  row' \in [Schedules -> Rows]
<1>1. runner[i].copy \in Rows /\ row \in [Schedules -> Rows]
  BY RunnerFields DEF TypeOK
<1>2. ASSUME NEW s \in Schedules, disableSchedule(i, s)
      PROVE  row' \in [Schedules -> Rows]
  <2>1. [runner[i].copy EXCEPT !.enabled = FALSE] \in Rows
    BY <1>1 DEF Rows
  <2> QED BY <1>2, <2>1, WriteRowType DEF disableSchedule
<1>3. ASSUME NEW s \in Schedules, UpdateAfterRun(i, s)
      PROVE  row' \in [Schedules -> Rows]
  BY <1>1, <1>3, WriteRowType DEF UpdateAfterRun
<1>4. CASE UNCHANGED row
  BY <1>1, <1>4
<1> QED
  BY <1>2, <1>3, <1>4 DEF RunnerStep, Acquire, NotAcquired, ListDueSchedules, ReadRule, CreateTask,
     CreateCatchUpTask, StatementFails, RenewSchedulerLock, Shutdown, Crash

\* The other variables after a runner's step.
LEMMA RunnerRest ==
  ASSUME TypeOK, WorkIsApart, NEW i \in Instances,
         RunnerStep(i) \/ StatementFails(i) \/ Shutdown(i) \/ Crash(i)
  PROVE  /\ UNCHANGED <<now, active, editor>>
         /\ tasks' \in SUBSET (Schedules \X RunTimes)
         /\ lock' \in [owner : Instances \cup {NoOwner, Departed}, live : BOOLEAN]
         /\ disturbed' \in SUBSET {"failure", "overlap", "edit"}
         /\ disturbed \subseteq disturbed'
<1>1. UNCHANGED <<now, active, editor>>
  BY DEF RunnerStep, Acquire, NotAcquired, ListDueSchedules, ReadRule, CreateTask, disableSchedule,
     CreateCatchUpTask, UpdateAfterRun, StatementFails, RenewSchedulerLock, Shutdown, Crash
<1>2. tasks' \in SUBSET (Schedules \X RunTimes)
  <2>1. ASSUME NEW s \in Schedules, CreateTask(i, s) \/ CreateCatchUpTask(i, s)
        PROVE  tasks' \in SUBSET (Schedules \X RunTimes)
    <3>1. runner[i].copy.next \in RunTimes
      BY <2>1 DEF CreateTask, CreateCatchUpTask, WorkIsApart, WorkOf
    <3> QED BY <2>1, <3>1 DEF CreateTask, CreateCatchUpTask, TypeOK
  <2>2. CASE UNCHANGED tasks
    BY <2>2 DEF TypeOK
  <2> QED
    BY <2>1, <2>2 DEF RunnerStep, Acquire, NotAcquired, ListDueSchedules, ReadRule,
       disableSchedule, UpdateAfterRun, StatementFails, RenewSchedulerLock, Shutdown, Crash
<1>3. lock' \in [owner : Instances \cup {NoOwner, Departed}, live : BOOLEAN]
  <2>1. CASE Acquire(i)
    BY <2>1 DEF Acquire
  <2>2. CASE RenewSchedulerLock(i)
    BY <2>2 DEF RenewSchedulerLock, TypeOK
  <2>3. CASE Shutdown(i)
    BY <2>3 DEF Shutdown, TypeOK
  <2>4. CASE Crash(i)
    BY <2>4 DEF Crash, TypeOK
  <2>5. CASE UNCHANGED lock
    BY <2>5 DEF TypeOK
  <2> QED
    BY <2>1, <2>2, <2>3, <2>4, <2>5 DEF RunnerStep, NotAcquired, ListDueSchedules, ReadRule,
       CreateTask, disableSchedule, CreateCatchUpTask, UpdateAfterRun, StatementFails
<1>4. /\ disturbed' \in SUBSET {"failure", "overlap", "edit"}
      /\ disturbed \subseteq disturbed'
  <2>1. \/ disturbed' \in {disturbed, disturbed \cup {"overlap"}, disturbed \cup {"failure"}}
    BY DEF RunnerStep, Acquire, NotAcquired, ListDueSchedules, ReadRule, CreateTask,
       disableSchedule, CreateCatchUpTask, UpdateAfterRun, StatementFails, RenewSchedulerLock,
       Shutdown, Crash
  <2> QED BY <2>1 DEF TypeOK
<1> QED BY <1>1, <1>2, <1>3, <1>4

\* What a step that is no runner's leaves alone, and the type of what it changes.
LEMMA OtherSteps ==
  ASSUME TypeOK, Tick \/ LockRunsOut \/ AdminRequest
  PROVE  /\ UNCHANGED <<runner, tasks>>
         /\ TypeOK'
         /\ disturbed \subseteq disturbed'
         /\ disturbed' \subseteq {"failure"} =>
              \A s \in Schedules :
                \/ row'[s] = row[s]
                \/ row[s] = Absent /\ s \in active
                \/ row[s].state = "present" /\ row'[s].state = "deleted"
<1>0. /\ row \in [Schedules -> Rows] /\ editor \in SUBSET Copies /\ now \in Minutes
      /\ Minutes \subseteq RunTimes
  BY NullTypes DEF TypeOK
<1>1. CASE Tick
  BY <1>1, TimesAssumption DEF Tick, TypeOK, Minutes
<1>2. CASE LockRunsOut
  BY <1>2 DEF LockRunsOut, TypeOK
<1>3. ASSUME NEW s \in Schedules, EditRead(s)
      PROVE  /\ UNCHANGED <<runner, tasks, row, disturbed>>
             /\ TypeOK'
  <2>1. editor' \in SUBSET Copies
    BY <1>0, <1>3 DEF EditRead, Copies
  <2> QED BY <1>3, <2>1 DEF EditRead, TypeOK
<1>4. ASSUME NEW s \in Schedules, DeleteSchedule(s)
      PROVE  /\ UNCHANGED <<runner, tasks, disturbed>>
             /\ TypeOK'
             /\ row[s].state = "present" /\ row'[s].state = "deleted"
             /\ \A t \in Schedules \ {s} : row'[t] = row[t]
  <2> DEFINE gone == [Absent EXCEPT !.state = "deleted"]
  <2>1. gone \in Rows /\ gone.state = "deleted"
    BY DEF Absent, Rows
  <2>2. row' = [row EXCEPT ![s] = gone]
    BY <1>4 DEF DeleteSchedule
  <2> HIDE DEF gone
  <2>3. row' \in [Schedules -> Rows]
    BY <1>0, <2>1, <2>2
  <2> QED BY <1>0, <1>4, <2>1, <2>2, <2>3 DEF DeleteSchedule, TypeOK
<1>5. ASSUME NEW s \in Schedules, SetRuleActive(s)
      PROVE  /\ UNCHANGED <<runner, tasks, row, disturbed>>
             /\ TypeOK'
  BY <1>5 DEF SetRuleActive, TypeOK
<1>6. ASSUME NEW s \in Schedules, NEW next \in RunTimes, NEW enabled \in BOOLEAN,
             CreateSchedule(s, next, enabled)
      PROVE  /\ UNCHANGED <<runner, tasks, disturbed>>
             /\ TypeOK'
             /\ row[s] = Absent /\ s \in active
             /\ \A t \in Schedules \ {s} : row'[t] = row[t]
  <2> DEFINE new == [state |-> "present", enabled |-> enabled, next |-> next]
  <2>1. new \in Rows
    BY DEF Rows
  <2>2. row' = [row EXCEPT ![s] = new]
    BY <1>6 DEF CreateSchedule
  <2> HIDE DEF new
  <2>3. row' \in [Schedules -> Rows]
    BY <1>0, <2>1, <2>2
  <2> QED BY <1>0, <1>6, <2>2, <2>3 DEF CreateSchedule, TypeOK
<1>7. ASSUME NEW e \in editor, NEW next \in RunTimes \cup {Null}, NEW enabled \in BOOLEAN,
             EditWrite(e, enabled, next)
      PROVE  /\ UNCHANGED <<runner, tasks>>
             /\ TypeOK'
             /\ disturbed' = disturbed \cup {"edit"}
  <2> DEFINE copy == [e.copy EXCEPT !.enabled = enabled, !.next = next]
  <2>1. e.id \in Schedules /\ e.copy \in Rows
    BY <1>0 DEF Copies
  <2>2. copy \in Rows
    BY <2>1 DEF Rows
  <2>3. WriteRow(e.id, copy)
    BY <1>7 DEF EditWrite
  <2> HIDE DEF copy
  <2>4. row' \in [Schedules -> Rows]
    BY <2>1, <2>2, <2>3, WriteRowType
  <2> QED BY <1>7, <2>4 DEF EditWrite, TypeOK
<1> QED
  <2>1. CASE Tick \/ LockRunsOut
    BY <1>1, <1>2, <2>1 DEF Tick, LockRunsOut
  <2>2. CASE AdminRequest
    BY <1>3, <1>4, <1>5, <1>6, <1>7, <2>2 DEF AdminRequest
  <2> QED BY <2>1, <2>2

\* Types hold and work stays apart.
LEMMA TypeAndWork == TypeOK /\ WorkIsApart /\ [Next]_vars => TypeOK' /\ WorkIsApart'
<1> SUFFICES ASSUME TypeOK, WorkIsApart, [Next]_vars PROVE TypeOK' /\ WorkIsApart'
  OBVIOUS
<1>1. ASSUME NEW i \in Instances, RunnerStep(i) \/ StatementFails(i) \/ Shutdown(i) \/ Crash(i)
      PROVE  TypeOK' /\ WorkIsApart'
  <2>1. PICK r \in RunnerType : WorkOf(r) /\ runner' = [runner EXCEPT ![i] = r]
    BY <1>1, RunnerSteps
  <2>2. /\ runner' \in [Instances -> RunnerType] /\ runner'[i] = r
        /\ \A j \in Instances \ {i} : runner'[j] = runner[j]
    BY <2>1, RunnerUpdate
  <2>3. WorkIsApart'
    BY <2>1, <2>2 DEF WorkIsApart
  <2>4. row' \in [Schedules -> Rows]
    BY <1>1, RunnerRows
  <2>5. /\ UNCHANGED <<now, active, editor>>
        /\ tasks' \in SUBSET (Schedules \X RunTimes)
        /\ lock' \in [owner : Instances \cup {NoOwner, Departed}, live : BOOLEAN]
        /\ disturbed' \in SUBSET {"failure", "overlap", "edit"}
    BY <1>1, RunnerRest
  <2>6. TypeOK'
    BY <2>2, <2>4, <2>5 DEF TypeOK, RunnerType
  <2> QED BY <2>3, <2>6
<1>2. CASE Tick \/ LockRunsOut \/ AdminRequest
  BY <1>2, OtherSteps DEF WorkIsApart
<1>3. CASE UNCHANGED vars
  BY <1>3 DEF vars, TypeOK, WorkIsApart
<1> QED BY <1>1, <1>2, <1>3 DEF Next

\* Initially.
LEMMA TypeAndWorkInit == Init => TypeOK /\ WorkIsApart
<1> SUFFICES ASSUME Init PROVE TypeOK /\ WorkIsApart
  OBVIOUS
<1>1. runner \in [Instances -> RunnerType]
  BY NullTypes DEF Init
<1>2. row \in [Schedules -> Rows] /\ now \in Minutes
  BY NullTypes DEF Init
<1>3. TypeOK
  BY <1>1, <1>2 DEF Init, TypeOK, RunnerType
<1>4. WorkIsApart
  BY IdleWork DEF Init, WorkIsApart
<1> QED BY <1>3, <1>4

\* TypeOK is an invariant: no interleaving of runners, crashes, failed statements and
\* admin requests leaves a schedule, the lock or a runner in a state the code does not know.
THEOREM TypeCorrect == Spec => []TypeOK
<1>1. Init => TypeOK /\ WorkIsApart
  BY TypeAndWorkInit
<1>2. TypeOK /\ WorkIsApart /\ [Next]_vars => TypeOK' /\ WorkIsApart'
  BY TypeAndWork
<1> QED BY <1>1, <1>2, PTL DEF Spec

-----------------------------------------------------------------------------
(* The runner after each of its steps, field by field.                      *)

\* The record i afterwards, of a step that changes this record only.
After(i, pc, todo, cur, copy) ==
  /\ runner'[i].pc = pc
  /\ runner'[i].todo = todo
  /\ runner'[i].cur = cur
  /\ runner'[i].copy = copy
  /\ \A j \in Instances \ {i} : runner'[j] = runner[j]

LEMMA RunnerAfter ==
  ASSUME TypeOK, NEW i \in Instances
  PROVE  /\ Acquire(i) =>
              After(i, "list", runner[i].todo, runner[i].cur, runner[i].copy)
         /\ NotAcquired(i) =>
              After(i, "idle", runner[i].todo, runner[i].cur, runner[i].copy)
         /\ ListDueSchedules(i) =>
              After(i, "loop", {[id |-> s, copy |-> row[s]] : s \in {u \in Schedules : Due(u)}},
                    runner[i].cur, runner[i].copy)
         /\ \A c \in runner[i].todo, ok \in BOOLEAN : ReadRule(i, c, ok) =>
              \E pc \in {"create", "disable"} :
                After(i, pc, runner[i].todo \ {c}, {c.id}, c.copy)
         /\ \A s \in Schedules : disableSchedule(i, s) \/ UpdateAfterRun(i, s) =>
              After(i, "loop", runner[i].todo, {}, Absent)
         /\ \A s \in Schedules : CreateTask(i, s) =>
              After(i, AfterRun(i, s).pc, runner[i].todo, runner[i].cur, AfterRun(i, s).copy)
         /\ \A s \in Schedules : CreateCatchUpTask(i, s) =>
              After(i, "update", runner[i].todo, runner[i].cur,
                [runner[i].copy EXCEPT
                   !.next = Advance(nextRun(runner[i].copy.next), runner[i].at)])
         /\ StatementFails(i) => After(i, "loop", runner[i].todo, {}, Absent)
         /\ RenewSchedulerLock(i) \/ Shutdown(i) \/ Crash(i) => After(i, "idle", {}, {}, Absent)
<1>0. runner[i] \in RunnerType /\ runner \in [Instances -> RunnerType]
  BY RunnerFields DEF TypeOK, RunnerType
<1>1. Acquire(i) => After(i, "list", runner[i].todo, runner[i].cur, runner[i].copy)
  BY <1>0 DEF Acquire, After, RunnerType
<1>2. NotAcquired(i) => After(i, "idle", runner[i].todo, runner[i].cur, runner[i].copy)
  BY <1>0 DEF NotAcquired, After, RunnerType
<1>3. ListDueSchedules(i) =>
        After(i, "loop", {[id |-> s, copy |-> row[s]] : s \in {u \in Schedules : Due(u)}},
              runner[i].cur, runner[i].copy)
  BY <1>0 DEF ListDueSchedules, After, RunnerType
<1>4. ASSUME NEW c \in runner[i].todo, NEW ok \in BOOLEAN, ReadRule(i, c, ok)
      PROVE  \E pc \in {"create", "disable"} :
               After(i, pc, runner[i].todo \ {c}, {c.id}, c.copy)
  <2> DEFINE pc == IF ok /\ c.id \in active THEN "create" ELSE "disable"
  <2>1. runner' = [runner EXCEPT ![i] =
          [runner[i] EXCEPT !.pc = pc, !.todo = runner[i].todo \ {c}, !.cur = {c.id},
             !.copy = c.copy]]
    BY <1>4 DEF ReadRule
  <2>2. pc \in {"create", "disable"}
    OBVIOUS
  <2> HIDE DEF pc
  <2>3. After(i, pc, runner[i].todo \ {c}, {c.id}, c.copy)
    BY <1>0, <2>1 DEF After, RunnerType
  <2> QED BY <2>2, <2>3
<1>5. ASSUME NEW s \in Schedules, disableSchedule(i, s) \/ UpdateAfterRun(i, s)
      PROVE  After(i, "loop", runner[i].todo, {}, Absent)
  <2>1. runner' = [runner EXCEPT ![i] =
          [runner[i] EXCEPT !.pc = "loop", !.cur = {}, !.copy = Absent]]
    BY <1>5 DEF disableSchedule, UpdateAfterRun
  <2> QED BY <1>0, <2>1 DEF After, RunnerType
<1>6. ASSUME NEW s \in Schedules
      PROVE  CreateTask(i, s) =>
               After(i, AfterRun(i, s).pc, runner[i].todo, runner[i].cur, AfterRun(i, s).copy)
  BY <1>0 DEF CreateTask, After, RunnerType
<1>7. ASSUME NEW s \in Schedules, CreateCatchUpTask(i, s)
      PROVE  After(i, "update", runner[i].todo, runner[i].cur,
               [runner[i].copy EXCEPT
                  !.next = Advance(nextRun(runner[i].copy.next), runner[i].at)])
  <2> DEFINE next == Advance(nextRun(runner[i].copy.next), runner[i].at)
  <2>1. runner' = [runner EXCEPT ![i] = [runner[i] EXCEPT !.pc = "update", !.copy.next = next]]
    BY <1>7 DEF CreateCatchUpTask
  <2> HIDE DEF next
  <2>2. After(i, "update", runner[i].todo, runner[i].cur, [runner[i].copy EXCEPT !.next = next])
    BY <1>0, <2>1 DEF After, RunnerType
  <2> QED BY <2>2 DEF next
<1>8. StatementFails(i) => After(i, "loop", runner[i].todo, {}, Absent)
  BY <1>0 DEF StatementFails, After, RunnerType
<1>9. RenewSchedulerLock(i) \/ Shutdown(i) \/ Crash(i) => After(i, "idle", {}, {}, Absent)
  BY <1>0 DEF RenewSchedulerLock, Shutdown, Crash, After, Idle
<1> QED BY <1>1, <1>2, <1>3, <1>4, <1>5, <1>6, <1>7, <1>8, <1>9

-----------------------------------------------------------------------------
(* The inductive invariant.                                                 *)

Busy(i) == runner[i].pc # "idle"

\* The tasks of a schedule are all for runs before t.
RanBefore(s, t) == t = Null \/ \A u \in RunTimes : <<s, u>> \in tasks => u < t

\* A schedule id not given out has no task and is in nobody's hands, and what is in
\* somebody's hands is a copy of a row that was there.
NewIsUntouched ==
  /\ \A s \in Schedules : row[s].state = "unused" =>
       /\ \A t \in RunTimes : <<s, t>> \notin tasks
       /\ \A i \in Instances : s \notin runner[i].cur /\ \A c \in runner[i].todo : c.id # s
       /\ \A e \in editor : e.id # s
  /\ \A i \in Instances :
       /\ \A c \in runner[i].todo : c.copy.state = "present"
       /\ runner[i].cur # {} => runner[i].copy.state = "present"
  /\ \A e \in editor : e.copy.state = "present"

\* The lock keeps runners apart unless it was lost in the middle of a run.
OneRunner ==
  "overlap" \notin disturbed => \A i, j \in Instances : Busy(i) /\ Busy(j) => i = j

\* A row's next run is later than all that were made, save while its runner is between
\* the task and the write.
NextRunsAhead ==
  /\ \A s \in Schedules : row[s].state = "present" =>
       \/ RanBefore(s, row[s].next)
       \/ \E i \in Instances : runner[i].pc \in {"catchup", "update"} /\ s \in runner[i].cur
  /\ \A i \in Instances :
       /\ \A c \in runner[i].todo : RanBefore(c.id, c.copy.next)
       /\ \A s \in runner[i].cur : RanBefore(s, runner[i].copy.next)

RowsAhead == disturbed = {} => NextRunsAhead

\* A runner's copy agrees with the row until the task is made, and from then on the run
\* the row still names has its task.
CopiesAgree ==
  \A i \in Instances :
    /\ \A c \in runner[i].todo :
         row[c.id].state = "present" => row[c.id].next = c.copy.next
    /\ \A s \in runner[i].cur : row[s].state = "present" =>
         IF runner[i].pc \in {"create", "disable"} THEN row[s].next = runner[i].copy.next
         ELSE <<s, row[s].next>> \in tasks

CopiesFresh == disturbed \subseteq {"failure"} => CopiesAgree

\* The whole of it.
ScheduleInv ==
  /\ TypeOK
  /\ WorkIsApart
  /\ NewIsUntouched
  /\ OneRunner
  /\ RowsAhead
  /\ CopiesFresh

\* Initially.
LEMMA ScheduleInvInit == Init => ScheduleInv
<1> SUFFICES ASSUME Init PROVE ScheduleInv
  OBVIOUS
<1>1. TypeOK /\ WorkIsApart
  BY TypeAndWorkInit
<1>2. \A i \in Instances : runner[i].pc = "idle" /\ runner[i].todo = {} /\ runner[i].cur = {}
  BY DEF Init, Idle
<1>3. /\ \A s \in Schedules : row[s].state = "unused"
      /\ tasks = {} /\ editor = {}
  BY DEF Init, Absent
<1> QED
  BY <1>1, <1>2, <1>3 DEF ScheduleInv, NewIsUntouched, OneRunner, Busy, RowsAhead,
     NextRunsAhead, RanBefore, CopiesFresh, CopiesAgree

\* One runner at a time.
LEMMA OneRunnerStep == ScheduleInv /\ [Next]_vars => OneRunner'
<1> SUFFICES ASSUME ScheduleInv, [Next]_vars PROVE OneRunner'
  OBVIOUS
<1> USE DEF ScheduleInv
<1>1. ASSUME NEW i \in Instances, RunnerStep(i) \/ StatementFails(i) \/ Shutdown(i) \/ Crash(i)
      PROVE  OneRunner'
  <2>0. disturbed \subseteq disturbed'
    BY <1>1, RunnerRest
  <2>1. CASE Acquire(i)
    <3>1. \A j \in Instances \ {i} : runner'[j] = runner[j]
      BY <2>1, RunnerAfter DEF After
    <3>2. "overlap" \notin disturbed' => \A j \in Instances \ {i} : runner[j].pc = "idle"
      BY <2>1 DEF Acquire
    <3> QED BY <3>1, <3>2 DEF OneRunner, Busy
  <2>2. CASE ~Acquire(i)
    <3>1. /\ \A j \in Instances \ {i} : runner'[j] = runner[j]
          /\ runner'[i].pc = "idle" \/ runner[i].pc # "idle"
      <4>1. CASE \/ NotAcquired(i) \/ RenewSchedulerLock(i) \/ Shutdown(i) \/ Crash(i)
        BY <4>1, RunnerAfter DEF After
      <4>2. CASE ListDueSchedules(i)
        BY <4>2, RunnerAfter DEF After, ListDueSchedules
      <4>3. CASE StatementFails(i)
        BY <4>3, RunnerAfter DEF After, StatementFails
      <4>4. ASSUME NEW c \in runner[i].todo, NEW ok \in BOOLEAN, ReadRule(i, c, ok)
            PROVE  /\ \A j \in Instances \ {i} : runner'[j] = runner[j]
                   /\ runner[i].pc # "idle"
        BY <4>4, RunnerAfter DEF After, ReadRule
      <4>5. ASSUME NEW s \in Schedules, disableSchedule(i, s) \/ UpdateAfterRun(i, s)
            PROVE  /\ \A j \in Instances \ {i} : runner'[j] = runner[j]
                   /\ runner[i].pc # "idle"
        BY <4>5, RunnerAfter DEF After, disableSchedule, UpdateAfterRun
      <4>6. ASSUME NEW s \in Schedules, CreateTask(i, s)
            PROVE  /\ \A j \in Instances \ {i} : runner'[j] = runner[j]
                   /\ runner[i].pc # "idle"
        BY <4>6, RunnerAfter DEF After, CreateTask
      <4>7. ASSUME NEW s \in Schedules, CreateCatchUpTask(i, s)
            PROVE  /\ \A j \in Instances \ {i} : runner'[j] = runner[j]
                   /\ runner[i].pc # "idle"
        BY <4>7, RunnerAfter DEF After, CreateCatchUpTask
      <4> QED BY <1>1, <2>2, <4>1, <4>2, <4>3, <4>4, <4>5, <4>6, <4>7 DEF RunnerStep
    <3> QED BY <2>0, <3>1 DEF OneRunner, Busy
  <2> QED BY <2>1, <2>2
<1>2. CASE Tick \/ LockRunsOut \/ AdminRequest
  BY <1>2, OtherSteps DEF OneRunner, Busy
<1>3. CASE UNCHANGED vars
  BY <1>3 DEF vars, OneRunner, Busy
<1> QED BY <1>1, <1>2, <1>3 DEF Next

\* Without overlap, a busy runner is alone in having anything in hand.
LEMMA OthersHaveNothing ==
  ASSUME ScheduleInv, NEW i \in Instances, Busy(i), "overlap" \notin disturbed
  PROVE  \A j \in Instances \ {i} :
           runner[j].pc = "idle" /\ runner[j].todo = {} /\ runner[j].cur = {}
BY DEF ScheduleInv, OneRunner, Busy, WorkIsApart, WorkOf

\* A step that puts down the schedule in hand, or lists the due ones, and changes no
\* row and no task.
LEMMA SettledStep ==
  ASSUME ScheduleInv, NEW i \in Instances, NEW pc, NEW todo, NEW copy,
         UNCHANGED <<row, tasks, editor>>, disturbed \subseteq disturbed',
         After(i, pc, todo, {}, copy),
         \/ todo \subseteq runner[i].todo
         \/ /\ todo = {[id |-> s, copy |-> row[s]] : s \in {u \in Schedules : Due(u)}}
            /\ runner[i].pc = "list",
         disturbed' = {} => runner[i].pc \notin {"catchup", "update"}
  PROVE  NewIsUntouched' /\ RowsAhead' /\ CopiesFresh'
<1> USE DEF ScheduleInv, After
<1>1. ASSUME NEW c \in todo
      PROVE  \/ c \in runner[i].todo
             \/ /\ runner[i].pc = "list"
                /\ c.id \in Schedules /\ c.copy = row[c.id] /\ row[c.id].state = "present"
  BY <1>1 DEF Due
<1>2. NewIsUntouched'
  BY <1>1 DEF NewIsUntouched
<1>3. RowsAhead'
  <2> SUFFICES ASSUME disturbed' = {} PROVE NextRunsAhead'
    BY DEF RowsAhead
  <2>1. disturbed = {} /\ runner[i].pc \notin {"catchup", "update"}
    OBVIOUS
  <2>2. \A s \in Schedules, u \in RunTimes \cup {Null} : RanBefore(s, u)' <=> RanBefore(s, u)
    BY DEF RanBefore
  <2>3. ASSUME NEW s \in Schedules, row'[s].state = "present"
        PROVE  \/ RanBefore(s, row[s].next)
               \/ \E j \in Instances : runner'[j].pc \in {"catchup", "update"} /\ s \in runner'[j].cur
    BY <2>1, <2>3 DEF RowsAhead, NextRunsAhead
  <2>4. ASSUME NEW c \in todo PROVE RanBefore(c.id, c.copy.next)
    <3>1. CASE c \in runner[i].todo
      BY <2>1, <3>1 DEF RowsAhead, NextRunsAhead
    <3>2. CASE c \notin runner[i].todo
      <4>1. /\ runner[i].pc = "list" /\ c.copy = row[c.id] /\ row[c.id].state = "present"
            /\ c.id \in Schedules
        BY <1>1, <3>2
      <4>2. \A j \in Instances : runner[j].pc \notin {"catchup", "update"}
        BY <2>1, <4>1, OthersHaveNothing DEF Busy
      <4> QED BY <2>1, <4>1, <4>2 DEF RowsAhead, NextRunsAhead
    <3> QED BY <3>1, <3>2
  <2>5. /\ \A c \in todo : RanBefore(c.id, c.copy.next)'
        /\ \A s \in Schedules : row'[s].state = "present" =>
              \/ RanBefore(s, row[s].next)'
              \/ \E j \in Instances : runner'[j].pc \in {"catchup", "update"} /\ s \in runner'[j].cur
    BY <2>3, <2>4 DEF RanBefore
  <2>6. \A j \in Instances \ {i} :
          /\ \A c \in runner[j].todo : RanBefore(c.id, c.copy.next)'
          /\ \A s \in runner[j].cur : RanBefore(s, runner[j].copy.next)'
    BY <2>1 DEF RowsAhead, NextRunsAhead, RanBefore
  <2> QED BY <2>5, <2>6 DEF NextRunsAhead
<1>4. CopiesFresh'
  <2> SUFFICES ASSUME disturbed' \subseteq {"failure"} PROVE CopiesAgree'
    BY DEF CopiesFresh
  <2>1. disturbed \subseteq {"failure"}
    OBVIOUS
  <2> QED BY <1>1, <2>1 DEF CopiesFresh, CopiesAgree
<1> QED BY <1>2, <1>3, <1>4

\* A step that writes the row of the schedule in hand.
LEMMA WriteStep ==
  ASSUME ScheduleInv, NEW i \in Instances, NEW s \in runner[i].cur, NEW copy \in Rows,
         UNCHANGED <<tasks, editor, disturbed>>,
         After(i, "loop", runner[i].todo, {}, Absent), Busy(i),
         WriteRow(s, copy), copy.state = "present", copy.next = runner[i].copy.next
  PROVE  NewIsUntouched' /\ RowsAhead' /\ CopiesFresh'
<1> USE DEF ScheduleInv, After
<1>1. s \in Schedules /\ \A u \in runner[i].cur : u = s
  BY RunnerFields DEF WorkIsApart, WorkOf
<1>2. \A u \in Schedules :
        row'[u] = row[u] \/ (u = s /\ row[s].state = "present" /\ row'[u] = copy)
  BY <1>1, WriteRowType
<1>3. NewIsUntouched'
  BY <1>1, <1>2 DEF NewIsUntouched
<1>4. RowsAhead'
  <2> SUFFICES ASSUME disturbed = {} PROVE NextRunsAhead'
    BY DEF RowsAhead
  <2>1. ASSUME NEW u \in Schedules, row'[u].state = "present"
        PROVE  \/ RanBefore(u, row'[u].next)
               \/ \E j \in Instances : runner'[j].pc \in {"catchup", "update"} /\ u \in runner'[j].cur
    <3>1. CASE u = s /\ row'[u] = copy
      BY <3>1 DEF RowsAhead, NextRunsAhead
    <3>2. CASE u # s /\ row'[u] = row[u]
      BY <1>1, <2>1, <3>2 DEF RowsAhead, NextRunsAhead
    <3>3. CASE u = s /\ row'[u] = row[u] /\ row[s].state # "present"
      BY <2>1, <3>3
    <3>4. row[s].state = "present" => row'[s] = copy
      BY DEF WriteRow, TypeOK
    <3> QED BY <1>2, <3>1, <3>2, <3>3, <3>4
  <2>3. /\ \A u \in Schedules : row'[u].state = "present" =>
              \/ RanBefore(u, row[u].next)'
              \/ \E j \in Instances : runner'[j].pc \in {"catchup", "update"} /\ u \in runner'[j].cur
    BY <2>1 DEF RanBefore
  <2>4. \A j \in Instances :
          /\ \A c \in runner'[j].todo : RanBefore(c.id, c.copy.next)'
          /\ \A u \in runner'[j].cur : RanBefore(u, runner[j].copy.next)'
    BY DEF RowsAhead, NextRunsAhead, RanBefore
  <2> QED BY <2>3, <2>4 DEF NextRunsAhead
<1>5. CopiesFresh'
  <2> SUFFICES ASSUME disturbed \subseteq {"failure"} PROVE CopiesAgree'
    BY DEF CopiesFresh
  <2>1. \A j \in Instances \ {i} : runner[j].todo = {} /\ runner[j].cur = {}
    BY OthersHaveNothing
  <2>2. ASSUME NEW c \in runner[i].todo, row'[c.id].state = "present"
        PROVE  row'[c.id].next = c.copy.next
    <3>1. c.id \in Schedules /\ c.id # s
      BY RunnerFields DEF Copies, WorkIsApart, WorkOf
    <3> QED BY <1>2, <2>2, <3>1 DEF CopiesFresh, CopiesAgree
  <2> QED BY <2>1, <2>2 DEF CopiesAgree
<1> QED BY <1>3, <1>4, <1>5

\* A step that takes the next schedule in hand.
LEMMA ReadStep ==
  ASSUME ScheduleInv, NEW i \in Instances, NEW c \in runner[i].todo,
         NEW pc \in {"create", "disable"},
         UNCHANGED <<row, tasks, editor, disturbed>>, runner[i].pc = "loop",
         After(i, pc, runner[i].todo \ {c}, {c.id}, c.copy)
  PROVE  NewIsUntouched' /\ RowsAhead' /\ CopiesFresh'
<1> USE DEF ScheduleInv, After
<1>1. runner[i].cur = {}
  BY DEF WorkIsApart, WorkOf
<1>2. NewIsUntouched'
  BY DEF NewIsUntouched
<1>3. RowsAhead'
  <2> SUFFICES ASSUME disturbed = {} PROVE NextRunsAhead'
    BY DEF RowsAhead
  <2>1. \A u \in Schedules : row'[u].state = "present" =>
          \/ RanBefore(u, row[u].next)'
          \/ \E j \in Instances : runner'[j].pc \in {"catchup", "update"} /\ u \in runner'[j].cur
    BY DEF RowsAhead, NextRunsAhead, RanBefore
  <2>2. \A d \in runner[i].todo : RanBefore(d.id, d.copy.next)'
    BY DEF RowsAhead, NextRunsAhead, RanBefore
  <2>3. \A j \in Instances \ {i} :
          /\ \A d \in runner[j].todo : RanBefore(d.id, d.copy.next)'
          /\ \A u \in runner[j].cur : RanBefore(u, runner[j].copy.next)'
    BY DEF RowsAhead, NextRunsAhead, RanBefore
  <2> QED BY <2>1, <2>2, <2>3 DEF NextRunsAhead
<1>4. CopiesFresh'
  BY DEF CopiesFresh, CopiesAgree
<1> QED BY <1>2, <1>3, <1>4

\* A step that makes the task of the run in hand and moves the copy on, or moves on from
\* a catch-up task that could not be made.
LEMMA TaskStep ==
  ASSUME ScheduleInv, NEW i \in Instances, NEW s \in runner[i].cur,
         NEW pc \in {"catchup", "update"}, NEW copy,
         UNCHANGED <<row, editor, disturbed>>,
         runner[i].pc \in {"create", "catchup"},
         \/ tasks' = tasks \cup {<<s, runner[i].copy.next>>}
         \/ runner[i].pc = "catchup" /\ UNCHANGED tasks,
         copy.state = runner[i].copy.state,
         copy.next = Null \/ (copy.next \in RunTimes /\ copy.next > runner[i].copy.next),
         After(i, pc, runner[i].todo, runner[i].cur, copy)
  PROVE  NewIsUntouched' /\ RowsAhead' /\ CopiesFresh'
<1> USE DEF ScheduleInv, After
<1>1. /\ s \in Schedules /\ \A u \in runner[i].cur : u = s
      /\ \A c \in runner[i].todo : c.id \in Schedules /\ c.id # s
      /\ runner[i].copy.next \in RunTimes
      /\ Busy(i)
  BY RunnerFields DEF WorkIsApart, WorkOf, Copies, Busy
<1>2. \A u \in Schedules \ {s} : \A n : <<u, n>> \in tasks' <=> <<u, n>> \in tasks
  OBVIOUS
<1>3. NewIsUntouched'
  <2>1. row[s].state # "unused"
    BY <1>1 DEF NewIsUntouched
  <2>2. \A u \in Schedules : row'[u].state = "unused" => \A n \in RunTimes : <<u, n>> \notin tasks'
    BY <1>2, <2>1 DEF NewIsUntouched
  <2> QED BY <2>2 DEF NewIsUntouched
<1>4. RowsAhead'
  <2> SUFFICES ASSUME disturbed = {} PROVE NextRunsAhead'
    BY DEF RowsAhead
  <2>1. \A j \in Instances \ {i} : runner[j].todo = {} /\ runner[j].cur = {}
    BY <1>1, OthersHaveNothing
  <2>2. ASSUME NEW u \in Schedules \ {s}, NEW n, RanBefore(u, n) PROVE RanBefore(u, n)'
    BY <1>2, <2>2 DEF RanBefore
  <2>3. \A u \in Schedules : row'[u].state = "present" =>
          \/ RanBefore(u, row[u].next)'
          \/ \E j \in Instances : runner'[j].pc \in {"catchup", "update"} /\ u \in runner'[j].cur
    <3> SUFFICES ASSUME NEW u \in Schedules, row[u].state = "present"
                 PROVE  \/ RanBefore(u, row[u].next)'
                        \/ \E j \in Instances :
                             runner'[j].pc \in {"catchup", "update"} /\ u \in runner'[j].cur
      OBVIOUS
    <3>1. CASE u = s
      BY <3>1
    <3>2. CASE u # s
      <4>1. \/ RanBefore(u, row[u].next)
            \/ \E j \in Instances : runner[j].pc \in {"catchup", "update"} /\ u \in runner[j].cur
        BY DEF RowsAhead, NextRunsAhead
      <4>2. CASE RanBefore(u, row[u].next)
        <5>1. \A n \in RunTimes : <<u, n>> \in tasks' <=> <<u, n>> \in tasks
          BY <1>2, <3>2
        <5> QED BY <4>2, <5>1 DEF RanBefore
      <4> QED BY <1>1, <2>1, <3>2, <4>1, <4>2
    <3> QED BY <3>1, <3>2
  <2>4. \A c \in runner[i].todo : RanBefore(c.id, c.copy.next)'
    <3> SUFFICES ASSUME NEW c \in runner[i].todo PROVE RanBefore(c.id, c.copy.next)'
      OBVIOUS
    <3>1. RanBefore(c.id, c.copy.next) /\ \A n \in RunTimes : <<c.id, n>> \in tasks' <=> <<c.id, n>> \in tasks
      BY <1>1, <1>2 DEF RowsAhead, NextRunsAhead
    <3> QED BY <3>1 DEF RanBefore
  <2>5. RanBefore(s, copy.next)'
    <3>1. RanBefore(s, runner[i].copy.next)
      BY DEF RowsAhead, NextRunsAhead
    <3>2. runner[i].copy.next # Null /\ RunTimes \subseteq Int
      BY <1>1, TimesAssumption DEF RunTimes, Later, Null
    <3>3. ASSUME NEW u \in RunTimes, <<s, u>> \in tasks', copy.next # Null PROVE u < copy.next
      <4>1. <<s, u>> \in tasks => u < runner[i].copy.next
        BY <3>1, <3>2 DEF RanBefore
      <4>2. u = runner[i].copy.next \/ <<s, u>> \in tasks
        BY <3>3
      <4>3. /\ u \in Int /\ runner[i].copy.next \in Int /\ copy.next \in Int
            /\ copy.next > runner[i].copy.next
        BY <1>1, <3>2, <3>3
      <4> QED BY <3>3, <4>1, <4>2, <4>3
    <3> QED BY <3>3 DEF RanBefore
  <2>6. \A j \in Instances :
          /\ \A c \in runner'[j].todo : RanBefore(c.id, c.copy.next)'
          /\ \A u \in runner'[j].cur : RanBefore(u, runner[j].copy.next)'
    <3>1. \A u \in runner'[i].cur : RanBefore(u, runner[i].copy.next)'
      BY <1>1, <2>5 DEF RanBefore
    <3> QED BY <2>1, <2>4, <3>1
  <2> QED BY <2>3, <2>6 DEF NextRunsAhead
<1>5. CopiesFresh'
  <2> SUFFICES ASSUME disturbed \subseteq {"failure"} PROVE CopiesAgree'
    BY DEF CopiesFresh
  <2>1. \A j \in Instances \ {i} : runner[j].todo = {} /\ runner[j].cur = {}
    BY <1>1, OthersHaveNothing
  <2>2. row[s].state = "present" => <<s, row[s].next>> \in tasks'
    BY DEF CopiesFresh, CopiesAgree
  <2> QED BY <1>1, <2>1, <2>2 DEF CopiesFresh, CopiesAgree
<1> QED BY <1>3, <1>4, <1>5

\* The steps of a runner.
LEMMA RunnerKeeps ==
  ASSUME ScheduleInv, NEW i \in Instances,
         RunnerStep(i) \/ StatementFails(i) \/ Shutdown(i) \/ Crash(i)
  PROVE  NewIsUntouched' /\ RowsAhead' /\ CopiesFresh'
<1>0. TypeOK /\ WorkIsApart /\ WorkOf(runner[i])
  BY DEF ScheduleInv, WorkIsApart
<1>1. CASE Acquire(i) \/ NotAcquired(i)
  <2>1. runner[i].pc = "idle" /\ runner[i].cur = {}
    BY <1>0, <1>1 DEF Acquire, NotAcquired, WorkOf
  <2>2. UNCHANGED <<row, tasks, editor>> /\ disturbed \subseteq disturbed'
    BY <1>1 DEF Acquire, NotAcquired
  <2>3. \E pc : After(i, pc, runner[i].todo, {}, runner[i].copy)
    BY <1>0, <1>1, <2>1, RunnerAfter
  <2> QED BY <2>1, <2>2, <2>3, SettledStep
<1>2. CASE ListDueSchedules(i)
  <2>1. runner[i].pc = "list" /\ runner[i].cur = {}
    BY <1>0, <1>2 DEF ListDueSchedules, WorkOf
  <2>2. UNCHANGED <<row, tasks, editor>> /\ disturbed \subseteq disturbed'
    BY <1>2 DEF ListDueSchedules
  <2>3. After(i, "loop", {[id |-> s, copy |-> row[s]] : s \in {u \in Schedules : Due(u)}},
              {}, runner[i].copy)
    BY <1>0, <1>2, <2>1, RunnerAfter
  <2> QED BY <2>1, <2>2, <2>3, SettledStep
<1>3. CASE StatementFails(i)
  <2>1. UNCHANGED <<row, tasks, editor>> /\ disturbed \subseteq disturbed'
    BY <1>3 DEF StatementFails
  <2>2. disturbed' = {} => runner[i].pc \notin {"catchup", "update"}
    BY <1>3 DEF StatementFails
  <2>3. After(i, "loop", runner[i].todo, {}, Absent)
    BY <1>0, <1>3, RunnerAfter
  <2> QED BY <2>1, <2>2, <2>3, SettledStep
<1>4. CASE RenewSchedulerLock(i) \/ Shutdown(i) \/ Crash(i)
  <2>1. UNCHANGED <<row, tasks, editor>> /\ disturbed \subseteq disturbed'
    BY <1>4 DEF RenewSchedulerLock, Shutdown, Crash
  <2>2. disturbed' = {} => runner[i].pc \notin {"catchup", "update"}
    BY <1>4 DEF RenewSchedulerLock, Shutdown, Crash
  <2>3. After(i, "idle", {}, {}, Absent) /\ {} \subseteq runner[i].todo
    BY <1>0, <1>4, RunnerAfter
  <2> QED BY <2>1, <2>2, <2>3, SettledStep
<1>5. ASSUME NEW c \in runner[i].todo, NEW ok \in BOOLEAN, ReadRule(i, c, ok)
      PROVE  NewIsUntouched' /\ RowsAhead' /\ CopiesFresh'
  <2>1. UNCHANGED <<row, tasks, editor, disturbed>> /\ runner[i].pc = "loop"
    BY <1>5 DEF ReadRule
  <2>2. PICK pc \in {"create", "disable"} :
          After(i, pc, runner[i].todo \ {c}, {c.id}, c.copy)
    BY <1>0, <1>5, RunnerAfter
  <2> QED BY <2>1, <2>2, ReadStep
<1>6. ASSUME NEW s \in Schedules, disableSchedule(i, s)
      PROVE  NewIsUntouched' /\ RowsAhead' /\ CopiesFresh'
  <2> DEFINE copy == [runner[i].copy EXCEPT !.enabled = FALSE]
  <2>1. s \in runner[i].cur /\ UNCHANGED <<tasks, editor, disturbed>> /\ Busy(i)
        /\ WriteRow(s, copy)
    BY <1>6 DEF disableSchedule, Busy
  <2>2. runner[i].copy \in Rows /\ runner[i].copy.state = "present"
    BY <1>0, <2>1, RunnerFields DEF ScheduleInv, NewIsUntouched
  <2>3. copy \in Rows /\ copy.state = "present" /\ copy.next = runner[i].copy.next
    BY <2>2 DEF Rows
  <2>4. After(i, "loop", runner[i].todo, {}, Absent)
    BY <1>0, <1>6, RunnerAfter
  <2> HIDE DEF copy
  <2> QED BY <2>1, <2>3, <2>4, WriteStep
<1>7. ASSUME NEW s \in Schedules, UpdateAfterRun(i, s)
      PROVE  NewIsUntouched' /\ RowsAhead' /\ CopiesFresh'
  <2>1. s \in runner[i].cur /\ UNCHANGED <<tasks, editor, disturbed>> /\ Busy(i)
        /\ WriteRow(s, runner[i].copy)
    BY <1>7 DEF UpdateAfterRun, Busy
  <2>2. runner[i].copy \in Rows /\ runner[i].copy.state = "present"
    BY <1>0, <2>1, RunnerFields DEF ScheduleInv, NewIsUntouched
  <2>3. After(i, "loop", runner[i].todo, {}, Absent)
    BY <1>0, <1>7, RunnerAfter
  <2> QED BY <2>1, <2>2, <2>3, WriteStep
<1>8. ASSUME NEW s \in Schedules, CreateTask(i, s)
      PROVE  NewIsUntouched' /\ RowsAhead' /\ CopiesFresh'
  <2> DEFINE pc == AfterRun(i, s).pc
             copy == AfterRun(i, s).copy
             n == runner[i].copy.next
  <2>1. /\ s \in runner[i].cur /\ runner[i].pc = "create"
        /\ UNCHANGED <<row, editor, disturbed>> /\ tasks' = tasks \cup {<<s, n>>}
    BY <1>8 DEF CreateTask
  <2>2. n \in RunTimes /\ n <= runner[i].at /\ runner[i].at \in Minutes
    BY <1>0, <2>1, RunnerFields DEF WorkOf
  <2>3. n \in Minutes
    BY <2>2, TimesAssumption DEF Minutes, RunTimes, Later
  <2>4. nextRun(n) \in RunTimes /\ nextRun(n) > n
    BY <2>2, <2>3, NextRunLater
  <2>5. /\ pc \in {"catchup", "update"} /\ copy.state = runner[i].copy.state
        /\ copy.next = Null \/ (copy.next \in RunTimes /\ copy.next >= nextRun(n))
    BY <1>0, <2>2, AfterRunType
  <2>6. After(i, pc, runner[i].todo, runner[i].cur, copy)
    BY <1>0, <1>8, RunnerAfter
  <2> HIDE DEF pc, copy, n
  <2>7. copy.next = Null \/ (copy.next \in RunTimes /\ copy.next > n)
    <3>1. RunTimes \subseteq Int
      BY TimesAssumption DEF RunTimes, Later
    <3> QED BY <2>2, <2>4, <2>5, <3>1
  <2> QED BY <2>1, <2>5, <2>6, <2>7, TaskStep DEF n
<1>9. ASSUME NEW s \in Schedules, CreateCatchUpTask(i, s)
      PROVE  NewIsUntouched' /\ RowsAhead' /\ CopiesFresh'
  <2> DEFINE n == runner[i].copy.next
             next == Advance(nextRun(n), runner[i].at)
             copy == [runner[i].copy EXCEPT !.next = next]
  <2>1. /\ s \in runner[i].cur /\ runner[i].pc = "catchup"
        /\ UNCHANGED <<row, editor, disturbed>>
        /\ tasks' = tasks \cup {<<s, n>>} \/ UNCHANGED tasks
    BY <1>9 DEF CreateCatchUpTask
  <2>2. n \in RunTimes /\ n <= runner[i].at /\ runner[i].at \in Minutes
    BY <1>0, <2>1, RunnerFields DEF WorkOf
  <2>3. n \in Minutes
    BY <2>2, TimesAssumption DEF Minutes, RunTimes, Later
  <2>4. nextRun(n) \in RunTimes /\ nextRun(n) > n
    BY <2>2, <2>3, NextRunLater
  <2>5. next \in RunTimes /\ next >= nextRun(n)
    BY <2>2, <2>4, AdvanceLater
  <2>6. After(i, "update", runner[i].todo, runner[i].cur, copy)
    BY <1>0, <1>9, RunnerAfter
  <2> HIDE DEF next
  <2>7. copy.state = runner[i].copy.state /\ copy.next = next
    BY <1>0, RunnerFields DEF Rows
  <2> HIDE DEF copy, n
  <2>8. next > n
    <3>1. RunTimes \subseteq Int
      BY TimesAssumption DEF RunTimes, Later
    <3>2. n \in Int /\ next \in Int /\ nextRun(n) \in Int
      BY <2>2, <2>4, <2>5, <3>1
    <3> QED BY <2>4, <2>5, <3>2
  <2> QED BY <2>1, <2>5, <2>6, <2>7, <2>8, TaskStep DEF n
<1> QED BY <1>1, <1>2, <1>3, <1>4, <1>5, <1>6, <1>7, <1>8, <1>9 DEF RunnerStep

\* The steps that are no runner's.
LEMMA OthersKeep ==
  ASSUME ScheduleInv, Tick \/ LockRunsOut \/ AdminRequest
  PROVE  NewIsUntouched' /\ RowsAhead' /\ CopiesFresh'
<1> USE DEF ScheduleInv
<1> DEFINE Used(s) == row[s].state # "unused"
           EditorsKnow == \A e \in editor' : e.copy.state = "present" /\ e.id \in Schedules /\ Used(e.id)
           UsedStay == \A s \in Schedules : Used(s) => Used(s)'
<1>0. /\ UNCHANGED <<runner, tasks>> /\ disturbed \subseteq disturbed'
      /\ row \in [Schedules -> Rows]
      /\ disturbed' \subseteq {"failure"} =>
           \A s \in Schedules :
             \/ row'[s] = row[s]
             \/ row[s] = Absent /\ s \in active
             \/ row[s].state = "present" /\ row'[s].state = "deleted"
      /\ Absent.state = "unused"
  BY OtherSteps DEF TypeOK, Absent
<1>1. \A e \in editor : e.copy.state = "present" /\ e.id \in Schedules /\ Used(e.id) /\ e.copy \in Rows
  BY DEF NewIsUntouched, TypeOK, Copies
<1>2. NewIsUntouched'
  <2>1. EditorsKnow /\ UsedStay
    <3>1. CASE UNCHANGED <<row, editor>>
      BY <1>1, <3>1
    <3>2. ASSUME NEW s \in Schedules, EditRead(s)
          PROVE  EditorsKnow /\ UsedStay
      BY <1>1, <3>2 DEF EditRead
    <3>3. ASSUME NEW s \in Schedules, DeleteSchedule(s)
          PROVE  EditorsKnow /\ UsedStay
      BY <1>0, <1>1, <3>3 DEF DeleteSchedule, Absent
    <3>4. ASSUME NEW s \in Schedules, NEW next \in RunTimes, NEW enabled \in BOOLEAN,
                 CreateSchedule(s, next, enabled)
          PROVE  EditorsKnow /\ UsedStay
      BY <1>0, <1>1, <3>4 DEF CreateSchedule
    <3>5. ASSUME NEW e \in editor, NEW next \in RunTimes \cup {Null}, NEW enabled \in BOOLEAN,
                 EditWrite(e, enabled, next)
          PROVE  EditorsKnow /\ UsedStay
      <4> DEFINE copy == [e.copy EXCEPT !.enabled = enabled, !.next = next]
      <4>1. copy \in Rows /\ copy.state = "present"
        BY <1>1 DEF Rows
      <4>2. WriteRow(e.id, copy) /\ editor' = {}
        BY <3>5 DEF EditWrite
      <4> HIDE DEF copy
      <4>3. \A s \in Schedules : row'[s] = row[s] \/ row'[s] = copy
        BY <1>1, <4>1, <4>2, WriteRowType
      <4> QED BY <4>1, <4>2, <4>3
    <3>6. ASSUME NEW s \in Schedules, SetRuleActive(s)
          PROVE  EditorsKnow /\ UsedStay
      BY <3>1, <3>6 DEF SetRuleActive
    <3>7. Tick \/ LockRunsOut => UNCHANGED <<row, editor>>
      BY DEF Tick, LockRunsOut
    <3> QED BY <3>1, <3>2, <3>3, <3>4, <3>5, <3>6, <3>7 DEF AdminRequest
  <2> QED BY <1>0, <2>1 DEF NewIsUntouched
<1>3. RowsAhead'
  <2> SUFFICES ASSUME disturbed' = {} PROVE NextRunsAhead'
    BY DEF RowsAhead
  <2>1. disturbed = {}
    BY <1>0
  <2>2. ASSUME NEW s \in Schedules, row'[s].state = "present"
        PROVE  \/ RanBefore(s, row'[s].next)
               \/ \E i \in Instances : runner[i].pc \in {"catchup", "update"} /\ s \in runner[i].cur
    <3>1. CASE row'[s] = row[s]
      BY <2>1, <2>2, <3>1 DEF RowsAhead, NextRunsAhead
    <3>2. CASE row[s] = Absent
      BY <1>0, <3>2 DEF NewIsUntouched, RanBefore
    <3> QED BY <1>0, <2>2, <3>1, <3>2
  <2>3. \A i \in Instances :
          /\ \A c \in runner[i].todo : RanBefore(c.id, c.copy.next)
          /\ \A s \in runner[i].cur : RanBefore(s, runner[i].copy.next)
    BY <2>1 DEF RowsAhead, NextRunsAhead
  <2> QED BY <1>0, <2>2, <2>3 DEF NextRunsAhead, RanBefore
<1>4. CopiesFresh'
  <2> SUFFICES ASSUME disturbed' \subseteq {"failure"} PROVE CopiesAgree'
    BY DEF CopiesFresh
  <2>1. disturbed \subseteq {"failure"}
    BY <1>0
  <2>2. ASSUME NEW i \in Instances
        PROVE  /\ \A s \in runner[i].cur : s \in Schedules /\ row[s] # Absent
               /\ \A c \in runner[i].todo : c.id \in Schedules /\ row[c.id] # Absent
    BY <1>0, RunnerFields DEF NewIsUntouched, Copies
  <2>3. ASSUME NEW i \in Instances, NEW s \in Schedules, row[s] # Absent, row'[s].state = "present"
        PROVE  row'[s] = row[s]
    BY <1>0, <2>3
  <2> QED BY <1>0, <2>1, <2>2, <2>3 DEF CopiesFresh, CopiesAgree
<1> QED BY <1>2, <1>3, <1>4

\* ScheduleInv is inductive.
LEMMA ScheduleInvStep == ScheduleInv /\ [Next]_vars => ScheduleInv'
<1> SUFFICES ASSUME ScheduleInv, [Next]_vars PROVE ScheduleInv'
  OBVIOUS
<1>1. TypeOK' /\ WorkIsApart'
  BY TypeAndWork DEF ScheduleInv
<1>2. OneRunner'
  BY OneRunnerStep
<1>3. NewIsUntouched' /\ RowsAhead' /\ CopiesFresh'
  <2>1. CASE UNCHANGED vars
    BY <2>1 DEF vars, ScheduleInv, NewIsUntouched, RowsAhead, NextRunsAhead, RanBefore, CopiesFresh,
       CopiesAgree
  <2> QED BY <2>1, RunnerKeeps, OthersKeep DEF Next
<1> QED BY <1>1, <1>2, <1>3 DEF ScheduleInv

-----------------------------------------------------------------------------
(* The theorems.                                                            *)

\* The run a runner is about to make a task for has none yet.
LEMMA NoSecondTask == ScheduleInv => OneTaskPerRun
<1> SUFFICES ASSUME ScheduleInv, disturbed = {}, NEW i \in Instances
             PROVE  Making(i) \cap tasks = {}
  BY DEF OneTaskPerRun
<1> SUFFICES ASSUME NEW s \in runner[i].cur, runner[i].pc \in {"create", "catchup"},
                    <<s, runner[i].copy.next>> \in tasks
             PROVE  FALSE
  BY DEF Making
<1>1. RanBefore(s, runner[i].copy.next)
  BY DEF ScheduleInv, RowsAhead, NextRunsAhead
<1>2. runner[i].copy.next \in RunTimes /\ RunTimes \subseteq Int
  BY TimesAssumption DEF ScheduleInv, WorkIsApart, WorkOf, RunTimes, Later
<1>3. runner[i].copy.next # Null
  BY <1>2, TimesAssumption DEF RunTimes, Later, Null
<1> DEFINE n == runner[i].copy.next
<1>4. n < n
  BY <1>1, <1>2, <1>3 DEF RanBefore
<1>5. n \in Int
  BY <1>2
<1> HIDE DEF n
<1> QED BY <1>4, <1>5

\* Types hold, and as long as no runner overlaps another, no write is lost and no operator
\* writes a stale copy, no run gets a second task: not from the cron arithmetic, the
\* catch-up task, the jump to the present or the hand-over of the lock.
THEOREM RunsAlwaysSound == Spec => []RunsAreSound
<1>1. ScheduleInv => RunsAreSound
  BY NoSecondTask DEF ScheduleInv, RunsAreSound
<1> QED BY <1>1, ScheduleInvInit, ScheduleInvStep, PTL DEF Spec

\* A row that is due and names another run, or none, after a step has a task for the run
\* it named, unless it is gone or an operator's write or an overlap came in between.
LEMMA LeavingRunHasTask ==
  ASSUME ScheduleInv, [Next]_vars, NEW s \in Schedules,
         disturbed' \subseteq {"failure"}, Due(s), row'[s].state = "present",
         row'[s].next # row[s].next
  PROVE  <<s, row[s].next>> \in tasks
<1> USE DEF ScheduleInv
<1>0. row[s].state = "present" /\ row[s] # Absent /\ row \in [Schedules -> Rows]
  BY DEF Due, Absent, TypeOK
<1>1. ASSUME NEW i \in Instances, RunnerStep(i) \/ StatementFails(i) \/ Shutdown(i) \/ Crash(i)
      PROVE  <<s, row[s].next>> \in tasks
  <2>0. disturbed \subseteq {"failure"}
    BY <1>1, RunnerRest
  <2>1. ASSUME NEW u \in Schedules, disableSchedule(i, u)
        PROVE  <<s, row[s].next>> \in tasks
    <3> DEFINE copy == [runner[i].copy EXCEPT !.enabled = FALSE]
    <3>1. copy \in Rows /\ copy.next = runner[i].copy.next
      BY RunnerFields DEF Rows
    <3>2. u \in runner[i].cur /\ runner[i].pc = "disable" /\ WriteRow(u, copy)
      BY <2>1 DEF disableSchedule
    <3> HIDE DEF copy
    <3>3. s = u /\ row'[s] = copy
      BY <3>1, <3>2, WriteRowType
    <3>4. row[s].next = runner[i].copy.next
      BY <1>0, <2>0, <3>2, <3>3 DEF CopiesFresh, CopiesAgree
    <3> QED BY <3>1, <3>3, <3>4
  <2>2. ASSUME NEW u \in Schedules, UpdateAfterRun(i, u)
        PROVE  <<s, row[s].next>> \in tasks
    <3>1. runner[i].copy \in Rows
      BY RunnerFields
    <3>2. u \in runner[i].cur /\ runner[i].pc = "update" /\ WriteRow(u, runner[i].copy)
      BY <2>2 DEF UpdateAfterRun
    <3>3. s = u
      BY <3>1, <3>2, WriteRowType
    <3> QED BY <1>0, <2>0, <3>2, <3>3 DEF CopiesFresh, CopiesAgree
  <2>3. UNCHANGED row => FALSE
    OBVIOUS
  <2> QED
    BY <1>1, <2>1, <2>2, <2>3 DEF RunnerStep, Acquire, NotAcquired, ListDueSchedules, ReadRule,
       CreateTask, CreateCatchUpTask, StatementFails, RenewSchedulerLock, Shutdown, Crash
<1>2. CASE Tick \/ LockRunsOut \/ AdminRequest
  BY <1>0, <1>2, OtherSteps
<1>3. CASE UNCHANGED vars
  BY <1>3 DEF vars
<1> QED BY <1>1, <1>2, <1>3 DEF Next

\* No crash, shutdown or failed statement loses a run: next_run_at leaves a due run only
\* when its task exists, because the task is made before the row moves on.
THEOREM NoRunEverLost == Spec => NoRunLost
<1>1. ScheduleInv /\ [Next]_vars =>
        [\A s \in Schedules :
           /\ disturbed' \subseteq {"failure"}
           /\ Due(s)
           /\ row'[s].state = "present"
           /\ row'[s].next # row[s].next
           => <<s, row[s].next>> \in tasks]_vars
  BY LeavingRunHasTask
<1> QED BY <1>1, ScheduleInvInit, ScheduleInvStep, PTL DEF Spec, NoRunLost

=============================================================================
