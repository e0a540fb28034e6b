------------------------ MODULE TaskLifecycleProofs ------------------------
(***************************************************************************)
(* Proofs about TaskLifecycle, for every number of tasks, workers, human   *)
(* interventions, result bodies and attempts.                              *)
(***************************************************************************)
EXTENDS TaskLifecycle, TLAPS, FiniteSetTheorems

-----------------------------------------------------------------------------
(* Type correctness.                                                        *)

\* Rows read from the tables have their columns' types.
LEMMA RowTypes ==
  ASSUME TypeOK
  PROVE  /\ \A t \in Tasks : task[t] \in TaskRows
         /\ \A t \in Tasks, n \in AttemptNumbers : attempts[t][n] \in AttemptRows
         /\ \A h \in HumanIds : human[h] \in HumanRows
BY DEF TypeOK

\* A table stays well typed when one well-typed row replaces another.
LEMMA OneRowUpdate ==
  ASSUME TypeOK, NEW t \in Tasks, NEW r \in TaskRows
  PROVE  [task EXCEPT ![t] = r] \in [Tasks -> TaskRows]
BY DEF TypeOK

\* Writing one attempt row keeps the table well typed.
LEMMA OneAttemptUpdate ==
  ASSUME TypeOK, NEW t \in Tasks, NEW n \in AttemptNumbers, NEW r \in AttemptRows
  PROVE  [attempts EXCEPT ![t][n] = r] \in [Tasks -> [AttemptNumbers -> AttemptRows]]
BY DEF TypeOK

\* The same for all attempt rows of a task at once.
LEMMA AttemptsOfTaskUpdate ==
  ASSUME TypeOK, NEW t \in Tasks, NEW f \in [AttemptNumbers -> AttemptRows]
  PROVE  [attempts EXCEPT ![t] = f] \in [Tasks -> [AttemptNumbers -> AttemptRows]]
BY DEF TypeOK

\* Closing interventions keeps the table well typed.
LEMMA CloseInterventionsType ==
  ASSUME TypeOK, NEW S, NEW s \in HumanStatuses
  PROVE  CloseInterventions(S, s) \in [HumanIds -> HumanRows]
<1>1. \A h \in HumanIds : [human[h] EXCEPT !.status = s] \in HumanRows
  BY RowTypes DEF HumanRows
<1> QED
  BY <1>1, RowTypes DEF CloseInterventions

\* What a status update writes is well typed.
LEMMA WriteStatusType ==
  ASSUME TypeOK, NEW w, NEW t \in Tasks, NEW n, NEW s \in ReportedStatuses,
         WriteStatus(w, t, n, s), sweep' \in SweepStates
  PROVE  TypeOK'
<1>1. task' \in [Tasks -> TaskRows]
  <2>1. [task[t] EXCEPT !.status = s,
           !.lease = IF s \in TerminalStatuses THEN "none" ELSE task[t].lease] \in TaskRows
    BY RowTypes DEF TaskRows, ReportedStatuses, TaskStatuses, TerminalStatuses,
       LiveStatuses, HeldStatuses, Leases
  <2> QED BY <2>1, OneRowUpdate DEF WriteStatus
<1>2. attempts' \in [Tasks -> [AttemptNumbers -> AttemptRows]]
  <2>1. AttemptStatusOf(s) \in AttemptStatuses
    BY DEF AttemptStatusOf, ReportedStatuses, AttemptStatuses, AttemptTerminal,
       TerminalStatuses, LiveStatuses, HeldStatuses
  <2>2. \A m \in AttemptNumbers :
          [attempts[t][m] EXCEPT !.status = AttemptStatusOf(s)] \in AttemptRows
    BY <2>1, RowTypes DEF AttemptRows
  <2> QED BY <2>2, RowTypes, AttemptsOfTaskUpdate DEF WriteStatus
<1>3. human' \in [HumanIds -> HumanRows]
  <2>1. "cancelled" \in HumanStatuses BY DEF HumanStatuses
  <2> QED BY <2>1, CloseInterventionsType DEF WriteStatus, TypeOK
<1> QED
  BY <1>1, <1>2, <1>3 DEF TypeOK, WriteStatus

\* What the end of a set of waits writes is well typed.
LEMMA FailWaitingType ==
  ASSUME TypeOK, NEW S, FailWaiting(S)
  PROVE  /\ task' \in [Tasks -> TaskRows]
         /\ attempts' \in [Tasks -> [AttemptNumbers -> AttemptRows]]
<1>1. \A t \in Tasks : [task[t] EXCEPT !.status = "failed", !.lease = "none"] \in TaskRows
  BY RowTypes DEF TaskRows, TaskStatuses, TerminalStatuses, Leases
<1>2. \A t \in Tasks, n \in AttemptNumbers :
        [attempts[t][n] EXCEPT !.status = "failed"] \in AttemptRows
  BY RowTypes DEF AttemptRows, AttemptStatuses, AttemptTerminal
<1> QED
  BY <1>1, <1>2, RowTypes DEF FailWaiting

\* expireHumanInterventions keeps the types, whichever caller runs it.
LEMMA ExpireInterventionsType ==
  ASSUME TypeOK, NEW S, ExpireInterventions(S),
         UNCHANGED <<results, rule, inflight>>, sweep' \in SweepStates
  PROVE  TypeOK'
<1>1. "expired" \in HumanStatuses
  BY DEF HumanStatuses
<1> QED
  BY <1>1, FailWaitingType, CloseInterventionsType DEF ExpireInterventions, TypeOK

\* The empty store is well typed.
LEMMA TypeOKInit == Init => TypeOK
<1> SUFFICES ASSUME Init PROVE TypeOK
  OBVIOUS
<1>1. rule \in [Rules -> [approved : BOOLEAN, version : VersionStatuses]]
  <2>1. \A r \in Rules :
          (IF \E t \in Versioned : RuleOf[t] = r THEN "approved" ELSE "none") \in VersionStatuses
    BY DEF VersionStatuses
  <2> QED BY <2>1 DEF Init
<1> QED
  BY <1>1, NamesAssumption, BoundsAssumption DEF Init, TypeOK, TaskRows, AttemptRows, HumanRows,
     SweepStates, SweepIdle, TaskStatuses, AttemptStatuses, HumanStatuses, Leases, AttemptNumbers

\* Time and the admin API keep the tables well typed.
LEMMA TypeOKAdmin ==
  ASSUME TypeOK, TimePasses \/ AdminRequest
  PROVE  TypeOK'
<1>1. ASSUME NEW t \in Tasks, LeaseRunsOut(t) \/ ScheduledTimeComes(t) \/ RequestCancel(t)
      PROVE  TypeOK'
  <2>1. /\ [task[t] EXCEPT !.lease = "expired"] \in TaskRows
        /\ [task[t] EXCEPT !.due = TRUE] \in TaskRows
        /\ [task[t] EXCEPT !.cancel = TRUE] \in TaskRows
    BY RowTypes DEF TaskRows, Leases
  <2>2. task' \in [Tasks -> TaskRows]
    BY <1>1, <2>1, OneRowUpdate DEF LeaseRunsOut, ScheduledTimeComes, RequestCancel
  <2> QED
    BY <1>1, <2>2 DEF TypeOK, LeaseRunsOut, ScheduledTimeComes, RequestCancel
<1>2. ASSUME NEW h \in HumanIds, DecisionDeadlinePasses(h)
      PROVE  TypeOK'
  <2>1. [human[h] EXCEPT !.overdue = TRUE] \in HumanRows
    BY RowTypes DEF HumanRows
  <2> QED
    BY <1>2, <2>1 DEF TypeOK, DecisionDeadlinePasses
<1>3. ASSUME NEW t \in Tasks, NEW due \in BOOLEAN, CreateTask(t, due)
      PROVE  TypeOK'
  <2>1. [task[t] EXCEPT !.status = "pending", !.due = due] \in TaskRows
    BY RowTypes DEF TaskRows, TaskStatuses
  <2> QED
    BY <1>3, <2>1, OneRowUpdate DEF TypeOK, CreateTask
<1>4. ASSUME NEW r \in Rules, RuleRequest(r)
      PROVE  TypeOK'
  <2>1. UNCHANGED <<tables, inflight, sweep>>
    BY <1>4 DEF RuleRequest, SetRuleApproval, CreateRuleVersion, ApproveRuleVersion,
                RejectRuleVersion
  <2>2. rule' \in [Rules -> [approved : BOOLEAN, version : VersionStatuses]]
    <3>1. ASSUME NEW b \in BOOLEAN, SetRuleApproval(r, b)
          PROVE  rule' \in [Rules -> [approved : BOOLEAN, version : VersionStatuses]]
      <4>1. [rule[r] EXCEPT !.approved = b] \in [approved : BOOLEAN, version : VersionStatuses]
        BY DEF TypeOK
      <4> QED BY <3>1, <4>1 DEF TypeOK, SetRuleApproval
    <3>2. CASE CreateRuleVersion(r) \/ RejectRuleVersion(r)
      BY <3>2, ZenonT(60) DEF TypeOK, CreateRuleVersion, RejectRuleVersion, VersionStatuses
    <3>3. CASE ApproveRuleVersion(r)
      BY <3>3 DEF TypeOK, ApproveRuleVersion, VersionStatuses
    <3> QED BY <1>4, <3>1, <3>2, <3>3 DEF RuleRequest
  <2> QED BY <2>1, <2>2 DEF TypeOK, tables
<1>5. ASSUME NEW t \in Tasks, CancelIdleTask(t)
      PROVE  TypeOK'
  <2>1. [task[t] EXCEPT !.status = "cancelled"] \in TaskRows
    BY RowTypes DEF TaskRows, TaskStatuses, TerminalStatuses
  <2>2. \A n \in AttemptNumbers : [attempts[t][n] EXCEPT !.status = "cancelled"] \in AttemptRows
    BY RowTypes DEF AttemptRows, AttemptStatuses, AttemptTerminal
  <2>3. task' \in [Tasks -> TaskRows]
    BY <1>5, <2>1, OneRowUpdate DEF CancelIdleTask
  <2>4. attempts' \in [Tasks -> [AttemptNumbers -> AttemptRows]]
    BY <1>5, <2>2, RowTypes, AttemptsOfTaskUpdate DEF CancelIdleTask
  <2>5. human' \in [HumanIds -> HumanRows]
    <3>1. "cancelled" \in HumanStatuses BY DEF HumanStatuses
    <3> QED BY <1>5, <3>1, CloseInterventionsType DEF CancelIdleTask
  <2> QED
    BY <1>5, <2>3, <2>4, <2>5 DEF TypeOK, CancelIdleTask
<1>6. ASSUME NEW t \in Tasks, RetryTask(t)
      PROVE  TypeOK'
  <2>1. [task[t] EXCEPT !.status = "pending", !.retry = 0, !.worker = NoWorker, !.lease = "none"]
          \in TaskRows
    BY RowTypes DEF TaskRows, TaskStatuses, Leases
  <2> QED
    BY <1>6, <2>1, OneRowUpdate DEF TypeOK, RetryTask
<1>7. ASSUME NEW h \in HumanIds, NEW d \in {"approved", "rejected"}, DecideHumanIntervention(h, d)
      PROVE  TypeOK'
  <2>1. sweep' \in SweepStates /\ UNCHANGED <<results, rule, inflight>>
    BY <1>7 DEF DecideHumanIntervention, TypeOK
  <2>2. CASE ExpireInterventions({h})
    BY <2>1, <2>2, ExpireInterventionsType
  <2>3. CASE RejectDecision(h)
    <3>1. "rejected" \in HumanStatuses BY DEF HumanStatuses
    <3> QED
      BY <2>1, <2>3, <3>1, FailWaitingType, CloseInterventionsType DEF RejectDecision, TypeOK
  <2>4. CASE ApproveDecision(h)
    <3> DEFINE t == human[h].task
               n == human[h].attempt
    <3>0. t \in Tasks /\ n \in AttemptNumbers
      BY <1>7 DEF DecideHumanIntervention, WaitsOn
    <3>1. [task[t] EXCEPT !.status = "running", !.lease = "live"] \in TaskRows
      BY <3>0, RowTypes, ZenonT(60) DEF TaskRows, TaskStatuses, LiveStatuses, HeldStatuses, Leases
    <3>2. [attempts[t][n] EXCEPT !.status = "running"] \in AttemptRows
      BY <3>0, RowTypes DEF AttemptRows, AttemptStatuses, LiveStatuses, HeldStatuses
    <3>3. attempts' \in [Tasks -> [AttemptNumbers -> AttemptRows]]
      BY <2>4, <3>0, <3>2, OneAttemptUpdate DEF ApproveDecision
    <3>4. task' \in [Tasks -> TaskRows]
      BY <2>4, <3>0, <3>1, OneRowUpdate DEF ApproveDecision
    <3>5. human' \in [HumanIds -> HumanRows]
      <4>1. "approved" \in HumanStatuses BY DEF HumanStatuses
      <4> QED BY <2>4, <4>1, CloseInterventionsType DEF ApproveDecision
    <3> QED BY <2>1, <3>3, <3>4, <3>5 DEF TypeOK
  <2> QED
    BY <1>7, <2>2, <2>3, <2>4 DEF DecideHumanIntervention
<1> QED
  BY <1>1, <1>2, <1>3, <1>4, <1>5, <1>6, <1>7 DEF TimePasses, AdminRequest, CancelTask

\* The worker API keeps the tables well typed.
LEMMA TypeOKWorker ==
  ASSUME TypeOK, WorkerRequest \/ (\E f \in inflight : InsertResult(f))
                   \/ (\E h \in HumanIds : PollDecision(h))
  PROVE  TypeOK'
<1>1. ASSUME NEW w \in Workers, NEW t \in Tasks, SubmitHeartbeat(w, t)
      PROVE  TypeOK'
  <2>1. [task[t] EXCEPT !.lease = "live"] \in TaskRows
    BY RowTypes DEF TaskRows, Leases
  <2>2. task' \in [Tasks -> TaskRows]
    BY <1>1, <2>1, OneRowUpdate DEF SubmitHeartbeat
  <2> QED
    BY <1>1, <2>2 DEF TypeOK, SubmitHeartbeat
<1>2. ASSUME NEW w \in Workers, NEW t \in Tasks, NEW s \in ReportedStatuses,
             SubmitLegacyStatus(w, t, s)
      PROVE  TypeOK'
  BY <1>2, WriteStatusType DEF SubmitLegacyStatus, TypeOK
<1>3. ASSUME NEW w \in Workers, NEW t \in Tasks, NEW n \in AttemptNumbers,
             NEW s \in ReportedStatuses, SubmitAttemptStatus(w, t, n, s)
      PROVE  TypeOK'
  BY <1>3, WriteStatusType DEF SubmitAttemptStatus, TypeOK
<1>4. ASSUME NEW w \in Workers, NEW t \in Tasks, NEW n \in AttemptNumbers,
             NEW p \in Profiles, ClaimTask(w, p, t, n)
      PROVE  TypeOK'
  <2>1. [task[t] EXCEPT !.status = "leased", !.worker = w, !.lease = "live", !.current = n]
          \in TaskRows
    <3>1. "leased" \in TaskStatuses /\ "live" \in Leases
      BY DEF TaskStatuses, LiveStatuses, HeldStatuses, Leases
    <3>2. n \in 0..MaxAttempts
      BY BoundsAssumption DEF AttemptNumbers
    <3>3. task[t] \in TaskRows
      BY RowTypes
    <3> QED BY <3>1, <3>2, <3>3 DEF TaskRows
  <2>2. [worker |-> w, status |-> "leased"] \in AttemptRows
    BY DEF AttemptRows, AttemptStatuses, LiveStatuses, HeldStatuses
  <2>3. task' \in [Tasks -> TaskRows]
    BY <1>4, <2>1, OneRowUpdate DEF ClaimTask
  <2>4. attempts' \in [Tasks -> [AttemptNumbers -> AttemptRows]]
    BY <1>4, <2>2, OneAttemptUpdate DEF ClaimTask
  <2> QED
    BY <1>4, <2>3, <2>4 DEF ClaimTask, TypeOK
<1>5. ASSUME NEW w \in Workers, NEW t \in Tasks, NEW n \in AttemptNumbers,
             NEW sub \in Submissions, CheckResult(w, t, n, sub)
      PROVE  TypeOK'
  BY <1>5 DEF CheckResult, TypeOK, tables, InflightRows
<1>6. ASSUME NEW w \in Workers, NEW t \in Tasks, NEW n \in AttemptNumbers,
             NEW h \in HumanIds, CreateHumanIntervention(w, t, n, h)
      PROVE  TypeOK'
  <2>1. [task[t] EXCEPT !.status = "waiting_for_human", !.lease = "none"] \in TaskRows
    BY RowTypes DEF TaskRows, TaskStatuses, LiveStatuses, Leases
  <2>2. [attempts[t][n] EXCEPT !.status = "waiting_for_human"] \in AttemptRows
    BY RowTypes DEF AttemptRows, AttemptStatuses, LiveStatuses
  <2>3. [task |-> t, attempt |-> n, worker |-> w, status |-> "pending", overdue |-> FALSE]
          \in HumanRows
    BY BoundsAssumption DEF HumanRows, HumanStatuses, AttemptNumbers
  <2>4. human' \in [HumanIds -> HumanRows]
    BY <1>6, <2>3 DEF CreateHumanIntervention, TypeOK
  <2>5. attempts' \in [Tasks -> [AttemptNumbers -> AttemptRows]]
    BY <1>6, <2>2, OneAttemptUpdate DEF CreateHumanIntervention
  <2> QED
    BY <1>6, <2>1, <2>4, <2>5, OneRowUpdate DEF CreateHumanIntervention, TypeOK
<1>7. ASSUME NEW f \in inflight, InsertResult(f)
      PROVE  TypeOK'
  <2>1. f.task \in Tasks /\ f.attempt \in AttemptNumbers /\ f.sub \in Submissions
    BY DEF TypeOK, InflightRows
  <2>2. results' \in [Tasks -> [AttemptNumbers -> SUBSET Submissions]]
    BY <1>7, <2>1 DEF InsertResult, TypeOK
  <2> QED
    BY <1>7, <2>2 DEF InsertResult, TypeOK
<1>8. ASSUME NEW h \in HumanIds, PollDecision(h)
      PROVE  TypeOK'
  BY <1>8, ExpireInterventionsType DEF PollDecision, TypeOK
<1> QED
  BY <1>1, <1>2, <1>3, <1>4, <1>5, <1>6, <1>7, <1>8 DEF WorkerRequest

\* The sweeper and a restart keep the tables and the sweeper's locals well typed.
LEMMA TypeOKSweep ==
  ASSUME TypeOK, Sweep \/ ServerRestart
  PROVE  TypeOK'
<1>1. SweepIdle \in SweepStates
  BY DEF SweepIdle, SweepStates
<1>2. SweepNext \in SweepStates
  BY DEF SweepNext, SweepStates, TypeOK
<1>a. sweep.pc = "act" => sweep.id \in Tasks
  BY DEF SweepStates, TypeOK
<1>3. CASE SweepExpire
  <2>1. sweep' \in SweepStates
    BY <1>3 DEF SweepExpire, SweepStates, TypeOK
  <2> QED
    BY <1>3, <2>1, ExpireInterventionsType DEF SweepExpire
<1>4. CASE SweepList
  <2>1. sweep' \in SweepStates
    BY <1>4 DEF SweepList, SweepStates, TypeOK
  <2> QED
    BY <1>4, <2>1 DEF SweepList, TypeOK, tables
<1>5. ASSUME NEW t \in Tasks, SweepRead(t)
      PROVE  TypeOK'
  <2>1. task[t].worker \in Workers \cup {NoWorker} /\ task[t].retry \in Nat
    BY RowTypes DEF TaskRows
  <2>2. sweep' \in SweepStates
    BY <1>5, <2>1 DEF SweepRead, SweepStates, TypeOK
  <2> QED
    BY <1>5, <2>2 DEF SweepRead, TypeOK, tables
<1>6. CASE SweepDeadLetter
  <2>1. CASE UNCHANGED <<tables, rule, inflight>>
    BY <1>2, <1>6, <2>1 DEF SweepDeadLetter, TypeOK, tables
  <2>2. CASE /\ sweep.id \in Tasks
             /\ WriteStatus(sweep.worker, sweep.id, task[sweep.id].current, "dead_letter")
    <3>1. "dead_letter" \in ReportedStatuses
      BY DEF ReportedStatuses, TerminalStatuses
    <3> QED BY <1>2, <1>6, <2>2, <3>1, WriteStatusType DEF SweepDeadLetter
  <2> QED
    BY <1>a, <1>6, <2>1, <2>2 DEF SweepDeadLetter
<1>7. CASE SweepRelease
  <2>1. CASE UNCHANGED <<tables, rule, inflight>>
    BY <1>2, <1>7, <2>1 DEF SweepRelease, TypeOK, tables
  <2>2. CASE sweep.id \in Tasks /\ ReleaseTask(sweep.id)
    <3> DEFINE t == sweep.id
    <3>1. [task[t] EXCEPT !.status = "pending", !.worker = NoWorker, !.lease = "none",
                          !.retry = task[t].retry + 1] \in TaskRows
      <4>1. "pending" \in TaskStatuses /\ "none" \in Leases
        BY DEF TaskStatuses, Leases
      <4>2. task[t] \in TaskRows
        BY <2>2, RowTypes
      <4>3. task[t].retry + 1 \in Nat
        BY <4>2 DEF TaskRows
      <4> QED BY <4>1, <4>2, <4>3 DEF TaskRows
    <3>2. \A n \in AttemptNumbers :
            [attempts[t][n] EXCEPT !.status = "lease_expired"] \in AttemptRows
      BY <2>2, RowTypes DEF AttemptRows, AttemptStatuses, AttemptTerminal
    <3>3. task' \in [Tasks -> TaskRows]
      BY <2>2, <3>1, OneRowUpdate DEF ReleaseTask
    <3>4. attempts' \in [Tasks -> [AttemptNumbers -> AttemptRows]]
      BY <2>2, <3>2, RowTypes, AttemptsOfTaskUpdate DEF ReleaseTask
    <3> QED
      BY <1>2, <1>7, <2>2, <3>3, <3>4 DEF SweepRelease, ReleaseTask, TypeOK
  <2> QED
    BY <1>a, <1>7, <2>1, <2>2 DEF SweepRelease
<1>8. CASE SweepDone \/ ServerRestart
  BY <1>1, <1>8 DEF SweepDone, ServerRestart, TypeOK, tables
<1> QED
  BY <1>3, <1>4, <1>5, <1>6, <1>7, <1>8 DEF Sweep

\* Every table row and the sweeper's locals keep their types in every behaviour.
THEOREM TypeCorrect == Spec => []TypeOK
<1>1. Init => TypeOK
  BY TypeOKInit
<1>2. TypeOK /\ [Next]_vars => TypeOK'
  <2> SUFFICES ASSUME TypeOK, [Next]_vars PROVE TypeOK'
    OBVIOUS
  <2>1. CASE Next
    BY <2>1, TypeOKAdmin, TypeOKWorker, TypeOKSweep DEF Next
  <2>2. CASE UNCHANGED vars
    BY <2>2 DEF vars, TypeOK
  <2> QED BY <2>1, <2>2
<1> QED
  BY <1>1, <1>2, PTL DEF Spec

-----------------------------------------------------------------------------
(* Agreement of the tables.  OneOpenAttempt, WaitHasDecision and             *)
(* HeldIsSweepable are inductive together, and only together: a status       *)
(* update writes the attempt the task names (OneOpenAttempt says it is the   *)
(* open one), and an intervention closes a wait only if both rows still      *)
(* match it (WaitHasDecision says they do).                                  *)

Agreement == TypeOK /\ OneOpenAttempt /\ WaitHasDecision /\ HeldIsSweepable

\* The empty store is in agreement.
LEMMA AgreementInit == Init => Agreement
<1> SUFFICES ASSUME Init PROVE Agreement
  OBVIOUS
<1>1. TypeOK
  BY TypeOKInit
<1>2. OneOpenAttempt /\ WaitHasDecision /\ HeldIsSweepable
  BY DEF Init, OneOpenAttempt, WaitHasDecision, WaitsOn, HeldIsSweepable, LiveStatuses, HeldStatuses
<1> QED
  BY <1>1, <1>2 DEF Agreement

\* Steps that leave statuses, owners and interventions alone.
LEMMA AgreementQuiet ==
  ASSUME Agreement, TypeOK',
         \/ UNCHANGED tables
         \/ UNCHANGED <<task, attempts, human>>
         \/ \E t \in Tasks : \/ LeaseRunsOut(t) \/ ScheduledTimeComes(t) \/ RequestCancel(t)
                             \/ \E w \in Workers : SubmitHeartbeat(w, t)
         \/ \E h \in HumanIds : DecisionDeadlinePasses(h)
  PROVE  Agreement'
<1>1. CASE UNCHANGED tables \/ UNCHANGED <<task, attempts, human>>
  BY <1>1 DEF Agreement, tables, OneOpenAttempt, WaitHasDecision, WaitsOn, HeldIsSweepable
<1>2. ASSUME NEW t \in Tasks,
             \/ LeaseRunsOut(t) \/ ScheduledTimeComes(t) \/ RequestCancel(t)
             \/ \E w \in Workers : SubmitHeartbeat(w, t)
      PROVE  Agreement'
  <2> USE DEF Agreement
  <2>1. UNCHANGED <<attempts, human>> /\ \A u \in Tasks \ {t} : task'[u] = task[u]
    BY <1>2 DEF LeaseRunsOut, ScheduledTimeComes, RequestCancel, SubmitHeartbeat, TypeOK
  <2>2. /\ task'[t].status = task[t].status /\ task'[t].worker = task[t].worker
        /\ task'[t].current = task[t].current
        /\ task'[t].lease # task[t].lease =>
             task[t].status \notin {"absent", "pending"} /\ task'[t].lease # "none"
    <3>1. CASE LeaseRunsOut(t)
      BY <3>1 DEF LeaseRunsOut, TypeOK, TaskRows, HeldIsSweepable
    <3>2. CASE ScheduledTimeComes(t)
      BY <3>2 DEF ScheduledTimeComes, TypeOK, TaskRows
    <3>3. CASE RequestCancel(t)
      BY <3>3 DEF RequestCancel, TypeOK, TaskRows
    <3>4. ASSUME NEW w \in Workers, SubmitHeartbeat(w, t)
          PROVE  /\ task'[t] = [task[t] EXCEPT !.lease = "live"]
                 /\ task[t].status \notin {"absent", "pending"}
      BY <3>4 DEF SubmitHeartbeat, TypeOK, LiveStatuses, HeldStatuses
    <3> QED BY <1>2, <3>1, <3>2, <3>3, <3>4 DEF TypeOK, TaskRows
  <2>3. OneOpenAttempt'
    BY <2>1, <2>2 DEF OneOpenAttempt, LiveStatuses, HeldStatuses
  <2>4. WaitHasDecision'
    BY <2>1, <2>2 DEF WaitHasDecision, WaitsOn
  <2>5. HeldIsSweepable'
    BY <2>1, <2>2 DEF HeldIsSweepable, LiveStatuses, HeldStatuses
  <2> QED BY <2>3, <2>4, <2>5
<1>3. ASSUME NEW h \in HumanIds, DecisionDeadlinePasses(h)
      PROVE  Agreement'
  <2> USE <1>3 DEF Agreement, DecisionDeadlinePasses, TypeOK, HumanRows
  <2>1. OneOpenAttempt' /\ HeldIsSweepable'
    BY DEF OneOpenAttempt, HeldIsSweepable
  <2>2. WaitHasDecision'
    BY DEF WaitHasDecision, WaitsOn
  <2> QED BY <2>1, <2>2
<1> QED
  BY <1>1, <1>2, <1>3

\* CreateTask and RetryTask queue a task that nothing holds.
LEMMA AgreementQueue ==
  ASSUME Agreement, TypeOK', NEW t \in Tasks,
         (\E due \in BOOLEAN : CreateTask(t, due)) \/ RetryTask(t)
  PROVE  Agreement'
<1> USE DEF Agreement
<1>1. UNCHANGED <<attempts, human>> /\ \A u \in Tasks \ {t} : task'[u] = task[u]
  BY DEF CreateTask, RetryTask, TypeOK
<1>2. /\ task[t].status \notin LiveStatuses
      /\ task'[t].status = "pending" /\ task'[t].current = task[t].current
      /\ task'[t].worker = NoWorker /\ task'[t].lease = "none"
  <2>1. CASE RetryTask(t)
    BY <2>1 DEF RetryTask, TypeOK, TaskRows, LiveStatuses, HeldStatuses
  <2>2. ASSUME NEW due \in BOOLEAN, CreateTask(t, due)
        PROVE  /\ task[t].status \notin LiveStatuses
               /\ task'[t].status = "pending" /\ task'[t].current = task[t].current
               /\ task'[t].worker = NoWorker /\ task'[t].lease = "none"
    BY <2>2, ZenonT(60) DEF CreateTask, TypeOK, TaskRows, HeldIsSweepable, LiveStatuses, HeldStatuses
  <2> QED BY <2>1, <2>2
<1>3. OneOpenAttempt'
  BY <1>1, <1>2 DEF OneOpenAttempt, LiveStatuses, HeldStatuses
<1>4. WaitHasDecision'
  BY <1>1, <1>2 DEF WaitHasDecision, WaitsOn, LiveStatuses
<1>5. HeldIsSweepable'
  BY <1>1, <1>2 DEF HeldIsSweepable, LiveStatuses, HeldStatuses
<1> QED BY <1>3, <1>4, <1>5

\* The fast path of CancelTask closes the task, its attempt and its wait together.
LEMMA AgreementCancel ==
  ASSUME Agreement, TypeOK', NEW t \in Tasks, CancelIdleTask(t)
  PROVE  Agreement'
<1> USE DEF Agreement, CancelIdleTask, TypeOK, TaskRows, AttemptRows
<1>1. OneOpenAttempt'
  BY DEF OneOpenAttempt, LiveStatuses, HeldStatuses
<1>2. WaitHasDecision'
  BY DEF WaitHasDecision, WaitsOn, CloseInterventions, PendingOf, HumanRows
<1>3. HeldIsSweepable'
  BY DEF HeldIsSweepable, LiveStatuses, HeldStatuses
<1> QED BY <1>1, <1>2, <1>3

\* claimTask opens one attempt of a queued task, which has no open one.
LEMMA AgreementClaim ==
  ASSUME Agreement, TypeOK', NEW w \in Workers, NEW t \in Tasks, NEW n \in AttemptNumbers,
         NEW p \in Profiles, ClaimTask(w, p, t, n)
  PROVE  Agreement'
<1> USE DEF Agreement, ClaimTask, Eligible, IsNextAttempt, TypeOK, TaskRows, AttemptRows
<1>1. OneOpenAttempt'
  BY DEF OneOpenAttempt, LiveStatuses, HeldStatuses
<1>2. WaitHasDecision'
  BY DEF WaitHasDecision, WaitsOn, HumanRows
<1>3. HeldIsSweepable'
  BY DEF HeldIsSweepable, LiveStatuses, HeldStatuses
<1> QED BY <1>1, <1>2, <1>3

\* A status update, by a worker or by the sweeper in a worker's name.
LEMMA AgreementStatus ==
  ASSUME Agreement, TypeOK', NEW w \in Workers, NEW t \in Tasks, NEW s \in ReportedStatuses,
         CanUpdateTaskStatus(w, t, s), WriteStatus(w, t, task[t].current, s)
  PROVE  Agreement'
<1> USE DEF Agreement, WriteStatus, CanUpdateTaskStatus, MayCloseHumanWait, AttemptStatusOf,
        ReportedStatuses, TerminalStatuses, TypeOK, TaskRows, AttemptRows
<1>1. OneOpenAttempt'
  BY SMTT(30) DEF OneOpenAttempt, LiveStatuses, HeldStatuses
<1>2. WaitHasDecision'
  BY DEF WaitHasDecision, WaitsOn, CloseInterventions, PendingOf, HumanRows, HeldStatuses
<1>3. HeldIsSweepable'
  BY DEF HeldIsSweepable, LiveStatuses, HeldStatuses
<1> QED BY <1>1, <1>2, <1>3

\* CreateHumanIntervention moves task and attempt into the wait with one new row.
LEMMA AgreementPause ==
  ASSUME Agreement, TypeOK', NEW w \in Workers, NEW t \in Tasks, NEW n \in AttemptNumbers,
         NEW h \in HumanIds, CreateHumanIntervention(w, t, n, h)
  PROVE  Agreement'
<1> USE DEF Agreement, CreateHumanIntervention, PendingOf, TypeOK, TaskRows, AttemptRows
<1>1. OneOpenAttempt'
  BY DEF OneOpenAttempt, LiveStatuses, HeldStatuses
<1>2. WaitHasDecision'
  BY DEF WaitHasDecision, WaitsOn, HumanRows
<1>3. HeldIsSweepable'
  BY DEF HeldIsSweepable, LiveStatuses, HeldStatuses
<1> QED BY <1>1, <1>2, <1>3

\* Any set of pending interventions ends in failure, with whatever status.
LEMMA AgreementFailWaits ==
  ASSUME Agreement, TypeOK', NEW S \in SUBSET HumanIds, NEW s \in HumanStatuses \ {"pending"},
         \A h \in S : human[h].status = "pending",
         human' = CloseInterventions(S, s), FailWaiting(S)
  PROVE  Agreement'
<1> USE DEF Agreement
<1> DEFINE Ended == {human[h].task : h \in S}
<1>1. \A h \in S : WaitsOn(h)
  BY DEF WaitHasDecision
<1>2. /\ \A t \in Tasks \ Ended : task'[t] = task[t]
      /\ \A t \in Tasks \ Ended, n \in AttemptNumbers : attempts'[t][n] = attempts[t][n]
  BY DEF FailWaiting
<1>3. \A t \in Tasks \cap Ended :
        /\ task[t].status = "waiting_for_human"
        /\ task'[t].status = "failed" /\ task'[t].lease = "none"
  <2> SUFFICES ASSUME NEW t \in Tasks, t \in Ended
               PROVE  /\ task[t].status = "waiting_for_human"
                      /\ task'[t].status = "failed" /\ task'[t].lease = "none"
    OBVIOUS
  <2>1. PICK h \in S : human[h].task = t
    OBVIOUS
  <2>2. task'[t] = [task[t] EXCEPT !.status = "failed", !.lease = "none"]
    BY <2>1 DEF FailWaiting
  <2> QED BY <1>1, <2>1, <2>2 DEF WaitsOn, TypeOK, TaskRows
<1>4. \A t \in Tasks \cap Ended, n \in AttemptNumbers : attempts'[t][n].status \notin LiveStatuses
  <2> SUFFICES ASSUME NEW t \in Tasks, t \in Ended, NEW n \in AttemptNumbers
               PROVE  attempts'[t][n].status \notin LiveStatuses
    OBVIOUS
  <2>1. PICK h \in S : human[h].task = t
    OBVIOUS
  <2>2. human[h].attempt = task[t].current
    BY <1>1, <2>1 DEF WaitsOn
  <2>3. CASE n = human[h].attempt
    <3>1. attempts'[t][n] = [attempts[t][n] EXCEPT !.status = "failed"]
      BY <2>1, <2>3 DEF FailWaiting
    <3> QED BY <3>1 DEF TypeOK, AttemptRows, LiveStatuses, HeldStatuses
  <2>4. CASE n # human[h].attempt
    <3>1. attempts[t][n].status \notin LiveStatuses
      BY <2>2, <2>4 DEF OneOpenAttempt
    <3>2. \/ attempts'[t][n] = attempts[t][n]
          \/ attempts'[t][n] = [attempts[t][n] EXCEPT !.status = "failed"]
      BY DEF FailWaiting
    <3> QED BY <3>1, <3>2 DEF TypeOK, AttemptRows, LiveStatuses, HeldStatuses
  <2> QED BY <2>3, <2>4
<1>5. \A h \in HumanIds : IF h \in S THEN human'[h].status = s ELSE human'[h] = human[h]
  BY DEF CloseInterventions, TypeOK, HumanRows
<1>6. OneOpenAttempt'
  BY <1>2, <1>3, <1>4 DEF OneOpenAttempt, LiveStatuses, HeldStatuses
<1>7. WaitHasDecision'
  <2>1. \A h \in HumanIds : human'[h].status = "pending" =>
          /\ h \notin S /\ human'[h] = human[h] /\ human[h].status = "pending" /\ WaitsOn(h)
          /\ human[h].task \notin Ended
    BY <1>5 DEF WaitHasDecision
  <2>2. \A h \in HumanIds : human'[h].status = "pending" => WaitsOn(h)'
    BY <1>2, <2>1 DEF WaitsOn
  <2>3. \A t \in Tasks : task'[t].status = "waiting_for_human" =>
          \E h \in HumanIds : human'[h].status = "pending" /\ human'[h].task = t
    BY <1>2, <1>3, <1>5 DEF WaitHasDecision
  <2> QED BY <2>1, <2>2, <2>3 DEF WaitHasDecision
<1>8. HeldIsSweepable'
  BY <1>2, <1>3 DEF HeldIsSweepable, LiveStatuses, HeldStatuses
<1> QED BY <1>6, <1>7, <1>8

\* An approval resumes task and attempt together and uses the pending row up.
LEMMA AgreementApprove ==
  ASSUME Agreement, TypeOK', NEW h \in HumanIds, human[h].status = "pending", WaitsOn(h),
         ApproveDecision(h)
  PROVE  Agreement'
<1> USE DEF Agreement
<1> DEFINE t == human[h].task
           n == human[h].attempt
<1>0. t \in Tasks /\ n \in AttemptNumbers
  BY DEF WaitsOn
<1>1. /\ \A u \in Tasks \ {t} : task'[u] = task[u] /\ attempts'[u] = attempts[u]
      /\ \A m \in AttemptNumbers \ {n} : attempts'[t][m] = attempts[t][m]
      /\ \A k \in HumanIds \ {h} : human'[k] = human[k]
  BY <1>0 DEF TypeOK, ApproveDecision, CloseInterventions
<1>2. /\ task'[t].status = "running" /\ task'[t].lease = "live"
      /\ task'[t].worker = task[t].worker /\ task'[t].current = n
  BY <1>0 DEF ApproveDecision, TypeOK, TaskRows, WaitsOn
<1>3. /\ attempts'[t][n].status = "running" /\ attempts'[t][n].worker = task[t].worker
      /\ attempts[t][n].status = "waiting_for_human" /\ human'[h].status = "approved"
  BY <1>0 DEF ApproveDecision, TypeOK, AttemptRows, HumanRows, WaitsOn, CloseInterventions
<1>4. OneOpenAttempt'
  BY <1>0, <1>1, <1>2, <1>3, SMTT(30) DEF OneOpenAttempt, WaitsOn, LiveStatuses, HeldStatuses
<1>5. WaitHasDecision'
  BY <1>0, <1>1, <1>2, <1>3 DEF WaitHasDecision, WaitsOn
<1>6. HeldIsSweepable'
  <2>1. task[t].worker \in Workers
    BY <1>0 DEF WaitsOn, HeldIsSweepable, LiveStatuses
  <2> QED BY <1>0, <1>1, <1>2, <2>1 DEF HeldIsSweepable, LiveStatuses, HeldStatuses
<1> QED BY <1>4, <1>5, <1>6

\* ReleaseTask closes the current attempt before it queues the task.
LEMMA AgreementRelease ==
  ASSUME Agreement, TypeOK', NEW t \in Tasks, task[t].status \in HeldStatuses, ReleaseTask(t)
  PROVE  Agreement'
<1> USE DEF Agreement
<1>1. /\ \A u \in Tasks \ {t} : task'[u] = task[u] /\ attempts'[u] = attempts[u]
      /\ human' = human
  BY DEF ReleaseTask, TypeOK
<1>2. /\ task'[t].status = "pending" /\ task'[t].worker = NoWorker
      /\ task'[t].lease = "none" /\ task'[t].current = task[t].current
  BY DEF ReleaseTask, TypeOK, TaskRows
<1>3. \A n \in AttemptNumbers :
        attempts'[t][n].status \in LiveStatuses =>
          n # task[t].current /\ attempts[t][n].status \in LiveStatuses
  BY DEF ReleaseTask, TypeOK, AttemptRows, OneOpenAttempt, LiveStatuses, HeldStatuses
<1>4. OneOpenAttempt'
  BY <1>1, <1>2, <1>3 DEF OneOpenAttempt, LiveStatuses, HeldStatuses
<1>5. WaitHasDecision'
  BY <1>1, <1>2 DEF WaitHasDecision, WaitsOn, HeldStatuses
<1>6. HeldIsSweepable'
  BY <1>1, <1>2 DEF HeldIsSweepable, LiveStatuses, HeldStatuses
<1> QED BY <1>4, <1>5, <1>6

\* The agreement of the tables survives every step.
LEMMA AgreementNext ==
  ASSUME Agreement, [Next]_vars
  PROVE  Agreement'
<1>1. TypeOK'
  BY TypeOKAdmin, TypeOKWorker, TypeOKSweep DEF Agreement, Next, vars, TypeOK
<1>2. CASE UNCHANGED vars
  BY <1>1, <1>2, AgreementQuiet DEF vars, tables
<1>3. CASE TimePasses
  BY <1>1, <1>3, AgreementQuiet DEF TimePasses
<1>4. CASE AdminRequest
  <2>1. ASSUME NEW t \in Tasks, CancelTask(t)
        PROVE  Agreement'
    BY <1>1, <2>1, AgreementCancel, AgreementQuiet DEF CancelTask
  <2>2. ASSUME NEW t \in Tasks, RetryTask(t) \/ \E due \in BOOLEAN : CreateTask(t, due)
        PROVE  Agreement'
    BY <1>1, <2>2, AgreementQueue
  <2>3. ASSUME NEW r \in Rules, RuleRequest(r)
        PROVE  Agreement'
    BY <1>1, <2>3, AgreementQuiet
       DEF RuleRequest, SetRuleApproval, CreateRuleVersion, ApproveRuleVersion, RejectRuleVersion, tables
  <2>4. ASSUME NEW h \in HumanIds, NEW d, DecideHumanIntervention(h, d)
        PROVE  Agreement'
    <3>1. human[h].status = "pending" /\ WaitsOn(h)
      BY <2>4 DEF DecideHumanIntervention
    <3>2. CASE ExpireInterventions({h}) \/ RejectDecision(h)
      <4>1. {"expired", "rejected"} \subseteq HumanStatuses \ {"pending"}
        BY DEF HumanStatuses
      <4> QED
        BY <1>1, <3>1, <3>2, <4>1, AgreementFailWaits DEF ExpireInterventions, RejectDecision
    <3>3. CASE ApproveDecision(h)
      BY <1>1, <3>1, <3>3, AgreementApprove
    <3> QED BY <2>4, <3>2, <3>3 DEF DecideHumanIntervention
  <2> QED BY <1>4, <2>1, <2>2, <2>3, <2>4 DEF AdminRequest
<1>5. CASE WorkerRequest
  <2>1. ASSUME NEW w \in Workers, NEW t \in Tasks, SubmitHeartbeat(w, t)
        PROVE  Agreement'
    BY <1>1, <2>1, AgreementQuiet
  <2>2. ASSUME NEW w \in Workers, NEW t \in Tasks, NEW s \in ReportedStatuses,
               SubmitLegacyStatus(w, t, s)
        PROVE  Agreement'
    BY <1>1, <2>2, AgreementStatus DEF SubmitLegacyStatus
  <2>3. ASSUME NEW w \in Workers, NEW t \in Tasks, NEW n \in AttemptNumbers,
               NEW s \in ReportedStatuses, SubmitAttemptStatus(w, t, n, s)
        PROVE  Agreement'
    <3>1. CanUpdateTaskStatus(w, t, s) /\ n = task[t].current /\ WriteStatus(w, t, n, s)
      BY <2>3 DEF SubmitAttemptStatus, CanUpdateTaskStatus
    <3> QED BY <1>1, <3>1, AgreementStatus
  <2>4. ASSUME NEW w \in Workers, NEW t \in Tasks, NEW n \in AttemptNumbers,
               NEW p \in Profiles, ClaimTask(w, p, t, n)
        PROVE  Agreement'
    BY <1>1, <2>4, AgreementClaim
  <2>5. ASSUME NEW w \in Workers, NEW t \in Tasks, NEW n \in AttemptNumbers,
               NEW sub \in Submissions, CheckResult(w, t, n, sub)
        PROVE  Agreement'
    BY <1>1, <2>5, AgreementQuiet DEF CheckResult
  <2>6. ASSUME NEW w \in Workers, NEW t \in Tasks, NEW n \in AttemptNumbers,
               NEW h \in HumanIds, CreateHumanIntervention(w, t, n, h)
        PROVE  Agreement'
    BY <1>1, <2>6, AgreementPause
  <2> QED BY <1>5, <2>1, <2>2, <2>3, <2>4, <2>5, <2>6 DEF WorkerRequest
<1>6. CASE \E f \in inflight : InsertResult(f)
  BY <1>1, <1>6, AgreementQuiet DEF InsertResult
<1>7. CASE (\E h \in HumanIds : PollDecision(h)) \/ SweepExpire
  <2>1. "expired" \in HumanStatuses \ {"pending"}
    BY DEF HumanStatuses
  <2>2. PICK S \in SUBSET HumanIds : S \subseteq Overdue /\ ExpireInterventions(S)
    BY <1>7 DEF PollDecision, SweepExpire, Overdue
  <2> QED
    BY <1>1, <2>1, <2>2, AgreementFailWaits DEF ExpireInterventions, Overdue
<1>8. CASE SweepDeadLetter
  <2>1. sweep.id \in Tasks /\ sweep.worker \in Workers \cup {NoWorker}
    BY <1>8 DEF SweepDeadLetter, Agreement, TypeOK, SweepStates
  <2>2. "dead_letter" \in ReportedStatuses
    BY DEF ReportedStatuses, TerminalStatuses
  <2> QED
    BY <1>1, <1>8, <2>1, <2>2, AgreementStatus, AgreementQuiet DEF SweepDeadLetter
<1>9. CASE SweepRelease
  <2>1. sweep.id \in Tasks
    BY <1>9 DEF SweepRelease, Agreement, TypeOK, SweepStates
  <2> QED
    BY <1>1, <1>9, <2>1, AgreementRelease, AgreementQuiet DEF SweepRelease
<1>10. CASE SweepList \/ SweepDone \/ ServerRestart \/ \E t \in Tasks : SweepRead(t)
  BY <1>1, <1>10, AgreementQuiet DEF SweepList, SweepDone, ServerRestart, SweepRead
<1> QED
  BY <1>2, <1>3, <1>4, <1>5, <1>6, <1>7, <1>8, <1>9, <1>10 DEF Next, Sweep

\* The three tables agree in every reachable state.
LEMMA AgreementInvariant == Spec => []Agreement
<1>1. Agreement /\ [Next]_vars => Agreement'
  BY AgreementNext
<1> QED
  BY AgreementInit, <1>1, PTL DEF Spec

\* In every behaviour an attempt is open exactly when it is the current attempt of
\* a task that is held or waits, in the same status and by the same worker.
THEOREM OpenAttemptIsUnique == Spec => []OneOpenAttempt
<1>1. Agreement => OneOpenAttempt
  BY DEF Agreement
<1> QED
  BY AgreementInvariant, <1>1, PTL

\* In every behaviour a wait for a human has exactly one pending intervention that
\* can end it, so no sweep is ever aborted by a stray row.
THEOREM WaitsAreDecidable == Spec => []WaitHasDecision
<1>1. Agreement => WaitHasDecision
  BY DEF Agreement
<1> QED
  BY AgreementInvariant, <1>1, PTL

\* In every behaviour a held task has a lease for the sweeper to watch and a queued
\* one has none that would hide it from claimTask.
THEOREM HeldTasksAreSweepable == Spec => []HeldIsSweepable
<1>1. Agreement => HeldIsSweepable
  BY DEF Agreement
<1> QED
  BY AgreementInvariant, <1>1, PTL

-----------------------------------------------------------------------------
(* The retry bound.  The sweeper decides on a count it read in an earlier    *)
(* transaction; the second conjunct of RetriesBounded is what makes the      *)
(* decision still right when it acts.                                        *)

\* No step outside the sweeper raises a retry count.
LEMMA RetryCountsKept ==
  ASSUME TypeOK,
         \/ TimePasses \/ AdminRequest \/ WorkerRequest
         \/ \E f \in inflight : InsertResult(f)
         \/ \E h \in HumanIds : PollDecision(h)
  PROVE  sweep' = sweep /\ \A u \in Tasks : task'[u].retry \in {task[u].retry, 0}
<1> DEFINE Kept == sweep' = sweep /\ \A u \in Tasks : task'[u].retry \in {task[u].retry, 0}
<1> USE DEF TypeOK, TaskRows
<1>1. ASSUME NEW t \in Tasks, LeaseRunsOut(t) \/ ScheduledTimeComes(t) \/ RequestCancel(t)
      PROVE  Kept
  <2>1. CASE LeaseRunsOut(t) BY <2>1 DEF LeaseRunsOut
  <2>2. CASE ScheduledTimeComes(t) BY <2>2 DEF ScheduledTimeComes
  <2>3. CASE RequestCancel(t) BY <2>3 DEF RequestCancel
  <2> QED BY <1>1, <2>1, <2>2, <2>3
<1>2. ASSUME NEW t \in Tasks, CancelIdleTask(t) \/ RetryTask(t)
      PROVE  Kept
  <2>1. CASE CancelIdleTask(t) BY <2>1 DEF CancelIdleTask
  <2>2. CASE RetryTask(t) BY <2>2 DEF RetryTask
  <2> QED BY <1>2, <2>1, <2>2
<1>3. ASSUME NEW t \in Tasks, NEW due \in BOOLEAN, CreateTask(t, due)
      PROVE  Kept
  BY <1>3 DEF CreateTask
<1>4. ASSUME NEW S, FailWaiting(S), sweep' = sweep
      PROVE  Kept
  <2>1. \A u \in Tasks : \/ task'[u] = task[u]
                         \/ task'[u] = [task[u] EXCEPT !.status = "failed", !.lease = "none"]
    BY <1>4 DEF FailWaiting
  <2>2. \A u \in Tasks :
          [task[u] EXCEPT !.status = "failed", !.lease = "none"].retry = task[u].retry
    BY DEF TypeOK, TaskRows
  <2>3. \A u \in Tasks : task'[u].retry = task[u].retry
    BY <2>1, <2>2
  <2> QED BY <1>4, <2>3
<1>5. ASSUME NEW h \in HumanIds, NEW d, DecideHumanIntervention(h, d)
      PROVE  Kept
  <2>1. CASE FailWaiting({h})
    BY <1>4, <1>5, <2>1 DEF DecideHumanIntervention
  <2>2. CASE ApproveDecision(h)
    <3>1. human[h].task \in Tasks
      BY <1>5 DEF DecideHumanIntervention, WaitsOn
    <3> QED BY <1>5, <2>2, <3>1 DEF ApproveDecision, DecideHumanIntervention
  <2> QED
    BY <1>5, <2>1, <2>2 DEF DecideHumanIntervention, ExpireInterventions, RejectDecision
<1>6. ASSUME NEW w \in Workers, NEW t \in Tasks, SubmitHeartbeat(w, t)
      PROVE  Kept
  BY <1>6 DEF SubmitHeartbeat
<1>7. ASSUME NEW w, NEW t \in Tasks, NEW n, NEW s, WriteStatus(w, t, n, s), sweep' = sweep
      PROVE  Kept
  BY <1>7 DEF WriteStatus
<1>8. ASSUME NEW w \in Workers, NEW t \in Tasks, NEW n \in AttemptNumbers, NEW p \in Profiles,
             ClaimTask(w, p, t, n)
      PROVE  Kept
  BY <1>8 DEF ClaimTask
<1>9. ASSUME NEW w \in Workers, NEW t \in Tasks, NEW n \in AttemptNumbers, NEW h \in HumanIds,
             CreateHumanIntervention(w, t, n, h)
      PROVE  Kept
  BY <1>9 DEF CreateHumanIntervention
<1>10. ASSUME UNCHANGED <<task, sweep>>
       PROVE  Kept
  BY <1>10
<1>11. CASE TimePasses
  BY <1>1, <1>10, <1>11 DEF TimePasses, DecisionDeadlinePasses
<1>12. CASE AdminRequest
  BY <1>1, <1>2, <1>3, <1>5, <1>10, <1>12 DEF AdminRequest, CancelTask, RuleRequest, SetRuleApproval, CreateRuleVersion,
         ApproveRuleVersion, RejectRuleVersion, tables
<1>13. CASE WorkerRequest
  BY <1>6, <1>7, <1>8, <1>9, <1>10, <1>13
     DEF WorkerRequest, SubmitLegacyStatus, SubmitAttemptStatus, CheckResult, tables
<1>14. CASE (\E f \in inflight : InsertResult(f)) \/ \E h \in HumanIds : PollDecision(h)
  BY <1>4, <1>10, <1>14 DEF InsertResult, PollDecision, ExpireInterventions
<1> QED
  BY <1>11, <1>12, <1>13, <1>14

\* No step lets retry_count, or the count the sweeper read, pass the limit.
LEMMA RetriesNext ==
  ASSUME TypeOK, RetriesBounded, [Next]_vars
  PROVE  RetriesBounded'
<1>0. /\ \A u \in Tasks : task[u].retry \in Nat
      /\ sweep.pc = "act" => sweep.id \in Tasks /\ sweep.retry \in Nat
  BY DEF TypeOK, TaskRows, SweepStates
<1>1. CASE sweep' = sweep /\ \A u \in Tasks : task'[u].retry \in {task[u].retry, 0}
  BY <1>0, <1>1, BoundsAssumption DEF RetriesBounded
<1>2. CASE SweepExpire
  <2>1. \A u \in Tasks : task'[u].retry = task[u].retry
    BY <1>2 DEF SweepExpire, ExpireInterventions, FailWaiting, TypeOK, TaskRows
  <2>2. sweep'.pc = "list"
    BY <1>2 DEF SweepExpire, TypeOK, SweepStates
  <2> QED BY <2>1, <2>2 DEF RetriesBounded
<1>3. CASE SweepList
  <2>1. sweep'.pc = "loop"
    BY <1>3 DEF SweepList, TypeOK, SweepStates
  <2> QED BY <1>3, <2>1 DEF SweepList, tables, RetriesBounded
<1>4. ASSUME NEW t \in Tasks, SweepRead(t)
      PROVE  RetriesBounded'
  BY <1>0, <1>4 DEF SweepRead, tables, RetriesBounded
<1>5. CASE SweepDone \/ ServerRestart
  BY <1>5 DEF SweepDone, ServerRestart, SweepIdle, tables, RetriesBounded
<1>6. SweepNext.pc = "loop"
  BY DEF SweepNext, TypeOK, SweepStates
<1>7. CASE SweepDeadLetter
  <2>1. \A u \in Tasks : task'[u].retry = task[u].retry
    <3>1. CASE UNCHANGED <<tables, rule, inflight>>
      BY <3>1 DEF tables
    <3>2. ASSUME NEW w, NEW t \in Tasks, NEW n, NEW s, WriteStatus(w, t, n, s)
          PROVE  \A u \in Tasks : task'[u].retry = task[u].retry
      BY <3>2 DEF WriteStatus, TypeOK, TaskRows
    <3> QED BY <1>0, <1>7, <3>1, <3>2 DEF SweepDeadLetter
  <2> QED BY <1>6, <1>7, <2>1 DEF SweepDeadLetter, RetriesBounded
<1>8. CASE SweepRelease
  <2>1. \A u \in Tasks : \/ task'[u].retry = task[u].retry
                         \/ u = sweep.id /\ task'[u].retry = task[u].retry + 1
    <3>1. CASE UNCHANGED <<tables, rule, inflight>>
      BY <3>1 DEF tables
    <3>2. CASE sweep.id \in Tasks /\ ReleaseTask(sweep.id)
      BY <3>2 DEF ReleaseTask, TypeOK, TaskRows
    <3> QED BY <1>0, <1>8, <3>1, <3>2 DEF SweepRelease
  <2>2. task[sweep.id].retry <= sweep.retry /\ sweep.retry < MaxRetries /\ sweep.id \in Tasks
        /\ sweep.retry \in Nat
    BY <1>0, <1>8 DEF SweepRelease, RetriesBounded
  <2>3. \A u \in Tasks : task'[u].retry <= MaxRetries
    BY <1>0, <2>1, <2>2, BoundsAssumption DEF RetriesBounded
  <2> QED BY <1>6, <1>8, <2>3 DEF SweepRelease, RetriesBounded
<1>9. CASE UNCHANGED vars
  BY <1>9 DEF vars, RetriesBounded
<1> QED
  BY <1>1, <1>2, <1>3, <1>4, <1>5, <1>7, <1>8, <1>9, RetryCountsKept DEF Next, Sweep

\* In every behaviour retry_count stays within max_retries, although the sweeper
\* reads it in one transaction and increments it in another.
THEOREM RetriesAreBounded == Spec => []RetriesBounded
<1>1. Init => TypeOK /\ RetriesBounded
  <2>1. Init => RetriesBounded
    BY BoundsAssumption DEF Init, SweepIdle, RetriesBounded
  <2> QED BY <2>1, TypeOKInit
<1>2. TypeOK /\ RetriesBounded /\ [Next]_vars => RetriesBounded'
  BY RetriesNext
<1> QED
  BY <1>1, <1>2, TypeCorrect, PTL DEF Spec

\* The queue keeps moving: no task is held without a lease the sweeper can see expire,
\* and none is put back more often than its retries allow.
THEOREM QueueAlwaysSound == Spec => []QueueIsSound
<1>1. HeldIsSweepable /\ RetriesBounded => QueueIsSound
  BY DEF QueueIsSound
<1> QED BY <1>1, HeldTasksAreSweepable, RetriesAreBounded, PTL

-----------------------------------------------------------------------------
(* The kinds of step, as the remaining theorems tell them apart.            *)

\* No status, owner or attempt changes, and no decision is made.
Quiet ==
  /\ \A u \in Tasks :
       /\ task'[u].status = task[u].status
       /\ task'[u].worker = task[u].worker
       /\ task'[u].current = task[u].current
  /\ attempts' = attempts
  /\ \A h \in HumanIds :
       human'[h] = human[h] \/ (human[h].status = "pending" /\ human'[h].status = "pending")

\* The steps that are not quiet, by what they do to the tables.
QueueStep(t) == RetryTask(t) \/ \E due \in BOOLEAN : CreateTask(t, due)

ClaimStep(w, t, n) == \E p \in Profiles : ClaimTask(w, p, t, n)

StatusStep(w, t, s) ==
  /\ CanUpdateTaskStatus(w, t, s)
  /\ WriteStatus(w, t, task[t].current, s)
  /\ t \in Versioned /\ s = "done" => ResultsComplete(t, task[t].current)

FailStep(S, s) ==
  /\ \A h \in S : human[h].status = "pending" /\ WaitsOn(h)
  /\ human' = CloseInterventions(S, s)
  /\ FailWaiting(S)
  /\ UNCHANGED results

ResumeStep(h) ==
  /\ human[h].status = "pending"
  /\ WaitsOn(h)
  /\ ApproveDecision(h)
  /\ UNCHANGED results

ReleaseStep(t) == task[t].status \in HeldStatuses /\ ReleaseTask(t)

Move ==
  \/ \E t \in Tasks : QueueStep(t) \/ CancelIdleTask(t) \/ ReleaseStep(t)
  \/ \E w \in Workers, t \in Tasks, n \in AttemptNumbers :
       ClaimStep(w, t, n) \/ \E h \in HumanIds : CreateHumanIntervention(w, t, n, h)
  \/ \E w \in Workers, t \in Tasks, s \in ReportedStatuses : StatusStep(w, t, s)
  \/ \E S \in SUBSET HumanIds, s \in HumanStatuses \ {"pending", "unused"} : FailStep(S, s)
  \/ \E h \in HumanIds : ResumeStep(h)

\* A step that is quiet leaves the results alone or stores one.
QuietStep == Quiet /\ (UNCHANGED results \/ \E f \in inflight : InsertResult(f))

\* Every step is quiet or a move.
LEMMA StepKinds ==
  ASSUME Agreement, [Next]_vars
  PROVE  QuietStep \/ Move
<1> USE DEF Agreement
<1>1. CASE UNCHANGED vars
  BY <1>1 DEF vars, QuietStep, Quiet
<1>2. ASSUME NEW t \in Tasks, LeaseRunsOut(t) \/ ScheduledTimeComes(t) \/ RequestCancel(t)
      PROVE  QuietStep
  <2>1. task' \in {[task EXCEPT ![t].lease = "expired"], [task EXCEPT ![t].due = TRUE],
                   [task EXCEPT ![t].cancel = TRUE]}
        /\ UNCHANGED <<attempts, human, results>>
    BY <1>2 DEF LeaseRunsOut, ScheduledTimeComes, RequestCancel
  <2> QED BY <2>1 DEF TypeOK, TaskRows, QuietStep, Quiet
<1>3. ASSUME NEW h \in HumanIds, DecisionDeadlinePasses(h)
      PROVE  QuietStep
  <2>1. /\ UNCHANGED <<task, attempts, results>>
        /\ \A k \in HumanIds \ {h} : human'[k] = human[k]
        /\ human[h].status = "pending" /\ human'[h].status = "pending"
    BY <1>3 DEF DecisionDeadlinePasses, TypeOK, HumanRows
  <2> QED BY <2>1 DEF QuietStep, Quiet
<1>4. ASSUME NEW r \in Rules, RuleRequest(r)
      PROVE  QuietStep
  BY <1>4 DEF RuleRequest, SetRuleApproval, CreateRuleVersion, ApproveRuleVersion,
     RejectRuleVersion, tables, QuietStep, Quiet
<1>5. ASSUME NEW w \in Workers, NEW t \in Tasks, SubmitHeartbeat(w, t)
      PROVE  QuietStep
  BY <1>5 DEF SubmitHeartbeat, TypeOK, TaskRows, QuietStep, Quiet
<1>6. ASSUME NEW w \in Workers, NEW t \in Tasks, NEW n \in AttemptNumbers, NEW sub \in Submissions,
             CheckResult(w, t, n, sub)
      PROVE  QuietStep
  BY <1>6 DEF CheckResult, tables, QuietStep, Quiet
<1>7. ASSUME NEW f \in inflight, InsertResult(f)
      PROVE  QuietStep
  BY <1>7 DEF InsertResult, QuietStep, Quiet
<1>8. CASE SweepList \/ SweepDone \/ ServerRestart \/ \E t \in Tasks : SweepRead(t)
  BY <1>8 DEF SweepList, SweepDone, ServerRestart, SweepRead, tables, QuietStep, Quiet
<1>9. ASSUME NEW h \in HumanIds, NEW d \in {"approved", "rejected"}, DecideHumanIntervention(h, d)
      PROVE  Move
  <2>1. human[h].status = "pending" /\ WaitsOn(h) /\ UNCHANGED results
    BY <1>9 DEF DecideHumanIntervention
  <2>2. CASE ExpireInterventions({h})
    <3>1. FailStep({h}, "expired")
      BY <2>1, <2>2 DEF FailStep, ExpireInterventions
    <3> QED BY <3>1 DEF Move, HumanStatuses
  <2>3. CASE RejectDecision(h)
    <3>1. FailStep({h}, "rejected")
      BY <2>1, <2>3 DEF FailStep, RejectDecision
    <3> QED BY <3>1 DEF Move, HumanStatuses
  <2>4. CASE ApproveDecision(h)
    BY <2>1, <2>4 DEF Move, ResumeStep
  <2> QED BY <1>9, <2>2, <2>3, <2>4 DEF DecideHumanIntervention
<1>10. CASE (\E h \in HumanIds : PollDecision(h)) \/ SweepExpire
  <2>1. PICK S \in SUBSET HumanIds : S \subseteq Overdue /\ ExpireInterventions(S) /\ UNCHANGED results
    BY <1>10 DEF PollDecision, SweepExpire, Overdue
  <2>2. FailStep(S, "expired")
    BY <2>1 DEF FailStep, ExpireInterventions, Overdue
  <2> QED BY <2>2 DEF Move, HumanStatuses
<1>11. ASSUME NEW w \in Workers, NEW t \in Tasks, NEW s \in ReportedStatuses,
              SubmitLegacyStatus(w, t, s)
       PROVE  Move
  BY <1>11 DEF SubmitLegacyStatus, StatusStep, Move
<1>12. ASSUME NEW w \in Workers, NEW t \in Tasks, NEW n \in AttemptNumbers,
              NEW s \in ReportedStatuses, SubmitAttemptStatus(w, t, n, s)
       PROVE  Move
  <2>1. StatusStep(w, t, s)
    BY <1>12 DEF SubmitAttemptStatus, CanUpdateTaskStatus, StatusStep
  <2> QED BY <2>1 DEF Move
<1>13. CASE SweepDeadLetter
  <2>1. sweep.id \in Tasks /\ sweep.worker \in Workers \cup {NoWorker}
    BY <1>13 DEF SweepDeadLetter, TypeOK, SweepStates
  <2>2. "dead_letter" \in ReportedStatuses
    BY DEF ReportedStatuses, TerminalStatuses
  <2>3. CASE UNCHANGED tables
    BY <2>3 DEF tables, QuietStep, Quiet
  <2>4. CASE sweep.worker \in Workers /\ StatusStep(sweep.worker, sweep.id, "dead_letter")
    BY <2>1, <2>2, <2>4 DEF Move
  <2> QED BY <1>13, <2>1, <2>3, <2>4 DEF SweepDeadLetter, StatusStep, tables
<1>14. CASE SweepRelease
  <2>1. sweep.id \in Tasks
    BY <1>14 DEF SweepRelease, TypeOK, SweepStates
  <2>2. CASE UNCHANGED tables
    BY <2>2 DEF tables, QuietStep, Quiet
  <2>3. CASE ReleaseStep(sweep.id)
    BY <2>1, <2>3 DEF Move
  <2> QED BY <1>14, <2>2, <2>3 DEF SweepRelease, ReleaseStep, tables
<1>15. ASSUME NEW t \in Tasks, CancelIdleTask(t) \/ RetryTask(t) \/ \E due \in BOOLEAN : CreateTask(t, due)
       PROVE  Move
  BY <1>15 DEF Move, QueueStep
<1>16. ASSUME NEW w \in Workers, NEW t \in Tasks, NEW n \in AttemptNumbers,
              \/ \E p \in Profiles : ClaimTask(w, p, t, n)
              \/ \E h \in HumanIds : CreateHumanIntervention(w, t, n, h)
       PROVE  Move
  BY <1>16 DEF Move, ClaimStep
<1>17. CASE TimePasses
  BY <1>2, <1>3, <1>17 DEF TimePasses
<1>18. CASE AdminRequest
  BY <1>2, <1>4, <1>9, <1>15, <1>18 DEF AdminRequest, CancelTask
<1>19. CASE WorkerRequest
  BY <1>5, <1>6, <1>11, <1>12, <1>16, <1>19 DEF WorkerRequest
<1>20. CASE Sweep
  BY <1>8, <1>10, <1>13, <1>14, <1>20 DEF Sweep
<1> QED BY <1>1, <1>7, <1>8, <1>10, <1>17, <1>18, <1>19, <1>20 DEF Next

-----------------------------------------------------------------------------
(* What the moves do to the rows.                                           *)

\* Task u and its attempts are as they were.
Stays(u) ==
  /\ task'[u].status = task[u].status
  /\ task'[u].worker = task[u].worker
  /\ task'[u].current = task[u].current
  /\ attempts'[u] = attempts[u]

\* Task t goes to status s, and its open attempt, if it has one, to status o.
Shift(t, s, o) ==
  /\ task'[t].status = s
  /\ task'[t].current = task[t].current
  /\ task'[t].worker \in {task[t].worker, NoWorker}
  /\ \A n \in AttemptNumbers :
       IF attempts[t][n].status \in LiveStatuses THEN attempts'[t][n].status = o
       ELSE attempts'[t][n] = attempts[t][n]

\* The changes of status there are, and what they make of an open attempt.
MayShift(f, s, o) ==
  \/ f \in {"absent", "failed", "dead_letter", "cancelled"} /\ s = "pending" /\ o = "cancelled"
  \/ f = "pending" /\ s = "cancelled" /\ o = "cancelled"
  \/ f \in LiveStatuses /\ s \in LiveStatuses /\ o = s
  \/ f \in LiveStatuses /\ s \in TerminalStatuses /\ o = AttemptStatusOf(s)
  \/ f \in HeldStatuses /\ s = "pending" /\ o = "lease_expired"

\* A worker comes to hold a task that waited for an operator.
Resumed(t) ==
  \E h \in HumanIds :
    human[h].status = "pending" /\ human'[h].status = "approved" /\ human[h].worker = task[t].worker

ShiftMove(t, s, o) ==
  /\ MayShift(task[t].status, s, o)
  /\ Shift(t, s, o)
  /\ \A u \in Tasks \ {t} : Stays(u)
  /\ t \in Versioned /\ s = "done" => ResultsComplete(t, task[t].current)
  /\ s \in HeldStatuses /\ task[t].status \notin HeldStatuses => Resumed(t)

ClaimMove(w, t, n) ==
  /\ ActiveCount(w) < MaxWorkerTasks
  /\ task[t].status = "pending"
  /\ IsNextAttempt(t, n)
  /\ task'[t].status = "leased" /\ task'[t].worker = w /\ task'[t].current = n
  /\ attempts'[t][n].status = "leased"
  /\ \A m \in AttemptNumbers \ {n} : attempts'[t][m] = attempts[t][m]
  /\ \A u \in Tasks \ {t} : Stays(u)

FailMove(T) ==
  /\ \A t \in T : task[t].status = "waiting_for_human" /\ Shift(t, "failed", "failed")
  /\ \A u \in Tasks \ T : Stays(u)

\* Decided interventions are left alone.
DecisionsStay ==
  \A h \in HumanIds : human[h].status \notin {"unused", "pending"} => human'[h] = human[h]

\* What a move does to the rows of tasks and attempts.
RowsMove ==
  \/ \E t \in Tasks, s \in TaskStatuses, o \in AttemptStatuses : ShiftMove(t, s, o)
  \/ \E w \in Workers, t \in Tasks, n \in AttemptNumbers : ClaimMove(w, t, n)
  \/ \E T \in SUBSET Tasks : FailMove(T)

\* The open attempt of a task is the current one, in the status of the task.
LEMMA OpenIsCurrent ==
  ASSUME Agreement, NEW t \in Tasks
  PROVE  /\ task[t].status \notin LiveStatuses =>
              \A n \in AttemptNumbers : attempts[t][n].status \notin LiveStatuses
         /\ task[t].status \in LiveStatuses =>
              /\ task[t].current \in AttemptNumbers
              /\ attempts[t][task[t].current].status = task[t].status
              /\ attempts[t][task[t].current].worker = task[t].worker
              /\ \A n \in AttemptNumbers :
                   attempts[t][n].status \in LiveStatuses <=> n = task[t].current
BY DEF Agreement, OneOpenAttempt

\* Creating or retrying a task queues it; neither touches an attempt.
LEMMA QueueMove ==
  ASSUME Agreement, NEW t \in Tasks, QueueStep(t)
  PROVE  RowsMove /\ DecisionsStay /\ UNCHANGED results
<1>0. TypeOK
  BY DEF Agreement
<1>1. UNCHANGED <<attempts, human, results>> /\ \A u \in Tasks \ {t} : task'[u] = task[u]
  BY <1>0 DEF QueueStep, RetryTask, CreateTask, TypeOK
<1>2. /\ task[t].status \in {"absent", "failed", "dead_letter", "cancelled"}
      /\ task'[t].status = "pending" /\ task'[t].current = task[t].current
      /\ task'[t].worker \in {task[t].worker, NoWorker}
  <2>1. CASE RetryTask(t)
    BY <1>0, <2>1 DEF RetryTask, TypeOK, TaskRows
  <2>2. ASSUME NEW due \in BOOLEAN, CreateTask(t, due)
        PROVE  /\ task[t].status \in {"absent", "failed", "dead_letter", "cancelled"}
               /\ task'[t].status = "pending" /\ task'[t].current = task[t].current
               /\ task'[t].worker \in {task[t].worker, NoWorker}
    BY <1>0, <2>2 DEF CreateTask, TypeOK, TaskRows
  <2> QED BY <2>1, <2>2 DEF QueueStep
<1>3. \A n \in AttemptNumbers : attempts[t][n].status \notin LiveStatuses
  BY <1>2, OpenIsCurrent DEF LiveStatuses, HeldStatuses
<1>4. ShiftMove(t, "pending", "cancelled")
  BY <1>1, <1>2, <1>3 DEF ShiftMove, MayShift, Shift, Stays, HeldStatuses
<1>5. "pending" \in TaskStatuses /\ "cancelled" \in AttemptStatuses
  BY DEF TaskStatuses, AttemptStatuses, AttemptTerminal
<1> QED BY <1>1, <1>4, <1>5 DEF RowsMove, DecisionsStay

\* Cancelling an idle task cancels its open attempt.
LEMMA CancelMove ==
  ASSUME Agreement, NEW t \in Tasks, CancelIdleTask(t)
  PROVE  RowsMove /\ DecisionsStay /\ UNCHANGED results
<1>0. TypeOK
  BY DEF Agreement
<1>1. /\ UNCHANGED results /\ \A u \in Tasks \ {t} : Stays(u)
      /\ task[t].status \in {"pending", "leased", "waiting_for_human"}
      /\ task'[t].status = "cancelled" /\ task'[t].current = task[t].current
      /\ task'[t].worker = task[t].worker
  BY <1>0 DEF CancelIdleTask, TypeOK, TaskRows, Stays
<1>2. \A n \in AttemptNumbers :
        IF attempts[t][n].status \in LiveStatuses THEN attempts'[t][n].status = "cancelled"
        ELSE attempts'[t][n] = attempts[t][n]
  <2> SUFFICES ASSUME NEW n \in AttemptNumbers
               PROVE  IF attempts[t][n].status \in LiveStatuses
                      THEN attempts'[t][n].status = "cancelled"
                      ELSE attempts'[t][n] = attempts[t][n]
    OBVIOUS
  <2>1. attempts'[t][n] =
          IF n = task[t].current /\ attempts[t][n].status \in {"leased", "waiting_for_human"}
          THEN [attempts[t][n] EXCEPT !.status = "cancelled"] ELSE attempts[t][n]
    BY <1>0 DEF CancelIdleTask, TypeOK
  <2>2. attempts[t][n].status \in LiveStatuses <=>
          n = task[t].current /\ attempts[t][n].status \in {"leased", "waiting_for_human"}
    BY <1>1, OpenIsCurrent DEF LiveStatuses, HeldStatuses
  <2>3. [attempts[t][n] EXCEPT !.status = "cancelled"].status = "cancelled"
    BY <1>0 DEF TypeOK, AttemptRows
  <2> QED BY <2>1, <2>2, <2>3
<1>3. ShiftMove(t, "cancelled", "cancelled")
  <2>1. MayShift(task[t].status, "cancelled", "cancelled")
    BY <1>1 DEF MayShift, AttemptStatusOf, LiveStatuses, HeldStatuses, TerminalStatuses
  <2>2. Shift(t, "cancelled", "cancelled")
    BY <1>1, <1>2 DEF Shift
  <2> QED BY <1>1, <2>1, <2>2 DEF ShiftMove, HeldStatuses
<1>4. "cancelled" \in TaskStatuses /\ "cancelled" \in AttemptStatuses
  BY DEF TaskStatuses, TerminalStatuses, AttemptStatuses, AttemptTerminal
<1>5. DecisionsStay
  BY <1>0 DEF DecisionsStay, CancelIdleTask, CloseInterventions, PendingOf, TypeOK
<1> QED BY <1>1, <1>3, <1>4, <1>5 DEF RowsMove

\* Releasing a task gives its open attempt the outcome lease_expired.
LEMMA ReleaseMove ==
  ASSUME Agreement, NEW t \in Tasks, ReleaseStep(t)
  PROVE  RowsMove /\ DecisionsStay /\ UNCHANGED results
<1>0. TypeOK
  BY DEF Agreement
<1>1. /\ UNCHANGED <<human, results>> /\ \A u \in Tasks \ {t} : Stays(u)
      /\ task[t].status \in HeldStatuses
      /\ task'[t].status = "pending" /\ task'[t].current = task[t].current
      /\ task'[t].worker = NoWorker
  BY <1>0 DEF ReleaseStep, ReleaseTask, TypeOK, TaskRows, Stays
<1>2. \A n \in AttemptNumbers :
        IF attempts[t][n].status \in LiveStatuses THEN attempts'[t][n].status = "lease_expired"
        ELSE attempts'[t][n] = attempts[t][n]
  <2> SUFFICES ASSUME NEW n \in AttemptNumbers
               PROVE  IF attempts[t][n].status \in LiveStatuses
                      THEN attempts'[t][n].status = "lease_expired"
                      ELSE attempts'[t][n] = attempts[t][n]
    OBVIOUS
  <2>1. attempts'[t][n] =
          IF n = task[t].current /\ attempts[t][n].status \in HeldStatuses
          THEN [attempts[t][n] EXCEPT !.status = "lease_expired"] ELSE attempts[t][n]
    BY <1>0 DEF ReleaseStep, ReleaseTask, TypeOK
  <2>2. attempts[t][n].status \in LiveStatuses <=>
          n = task[t].current /\ attempts[t][n].status \in HeldStatuses
    BY <1>1, OpenIsCurrent DEF LiveStatuses
  <2>3. [attempts[t][n] EXCEPT !.status = "lease_expired"].status = "lease_expired"
    BY <1>0 DEF TypeOK, AttemptRows
  <2> QED BY <2>1, <2>2, <2>3
<1>3. ShiftMove(t, "pending", "lease_expired")
  BY <1>1, <1>2 DEF ShiftMove, MayShift, Shift, HeldStatuses
<1>4. "pending" \in TaskStatuses /\ "lease_expired" \in AttemptStatuses
  BY DEF TaskStatuses, AttemptStatuses, AttemptTerminal
<1> QED BY <1>1, <1>3, <1>4 DEF RowsMove, DecisionsStay

\* A reported status is written to the task and to its open attempt alike.
LEMMA StatusMove ==
  ASSUME Agreement, NEW w \in Workers, NEW t \in Tasks, NEW s \in ReportedStatuses,
         StatusStep(w, t, s)
  PROVE  RowsMove /\ DecisionsStay /\ UNCHANGED results
<1>0. TypeOK
  BY DEF Agreement
<1>1. /\ UNCHANGED results /\ \A u \in Tasks \ {t} : Stays(u)
      /\ task'[t].status = s /\ task'[t].current = task[t].current
      /\ task'[t].worker = task[t].worker /\ task[t].worker = w
      /\ task[t].status \in LiveStatuses
      /\ s = "running" => task[t].status \in HeldStatuses
  BY <1>0 DEF StatusStep, WriteStatus, CanUpdateTaskStatus, MayCloseHumanWait, TypeOK, TaskRows,
     Stays, LiveStatuses
<1>2. s = "running" \/ s \in TerminalStatuses
  BY DEF ReportedStatuses
<1>3. \A n \in AttemptNumbers :
        IF attempts[t][n].status \in LiveStatuses THEN attempts'[t][n].status = AttemptStatusOf(s)
        ELSE attempts'[t][n] = attempts[t][n]
  <2> SUFFICES ASSUME NEW n \in AttemptNumbers
               PROVE  IF attempts[t][n].status \in LiveStatuses
                      THEN attempts'[t][n].status = AttemptStatusOf(s)
                      ELSE attempts'[t][n] = attempts[t][n]
    OBVIOUS
  <2>1. attempts'[t][n] =
          IF n = task[t].current /\ attempts[t][n].worker = w
          THEN [attempts[t][n] EXCEPT !.status = AttemptStatusOf(s)] ELSE attempts[t][n]
    BY <1>0 DEF StatusStep, WriteStatus, TypeOK
  <2>2. attempts[t][n].status \in LiveStatuses <=>
          n = task[t].current /\ attempts[t][n].worker = w
    BY <1>1, OpenIsCurrent
  <2>3. [attempts[t][n] EXCEPT !.status = AttemptStatusOf(s)].status = AttemptStatusOf(s)
    BY <1>0 DEF TypeOK, AttemptRows
  <2> QED BY <2>1, <2>2, <2>3
<1>4. ShiftMove(t, s, AttemptStatusOf(s))
  <2>1. MayShift(task[t].status, s, AttemptStatusOf(s))
    BY <1>1, <1>2 DEF MayShift, AttemptStatusOf, LiveStatuses, HeldStatuses
  <2>2. Shift(t, s, AttemptStatusOf(s))
    BY <1>1, <1>3 DEF Shift
  <2>3. ~(s \in HeldStatuses /\ task[t].status \notin HeldStatuses)
    BY <1>1, <1>2 DEF HeldStatuses, TerminalStatuses
  <2> QED BY <1>1, <2>1, <2>2, <2>3 DEF ShiftMove, StatusStep
<1>5. s \in TaskStatuses /\ AttemptStatusOf(s) \in AttemptStatuses
  BY <1>2 DEF TaskStatuses, LiveStatuses, HeldStatuses, TerminalStatuses, AttemptStatusOf,
     AttemptStatuses, AttemptTerminal
<1>6. DecisionsStay
  BY <1>0 DEF DecisionsStay, StatusStep, WriteStatus, CloseInterventions, PendingOf, TypeOK
<1> QED BY <1>1, <1>4, <1>5, <1>6 DEF RowsMove

\* Asking for a human moves the task and its open attempt to the wait.
LEMMA PauseMove ==
  ASSUME Agreement, NEW w \in Workers, NEW t \in Tasks, NEW n \in AttemptNumbers,
         NEW h \in HumanIds, CreateHumanIntervention(w, t, n, h)
  PROVE  RowsMove /\ DecisionsStay /\ UNCHANGED results
<1>0. TypeOK
  BY DEF Agreement
<1>1. /\ UNCHANGED results /\ \A u \in Tasks \ {t} : Stays(u)
      /\ task[t].current = n /\ task[t].status \in HeldStatuses
      /\ task'[t].status = "waiting_for_human" /\ task'[t].current = task[t].current
      /\ task'[t].worker = task[t].worker
      /\ attempts'[t][n].status = "waiting_for_human"
      /\ \A m \in AttemptNumbers \ {n} : attempts'[t][m] = attempts[t][m]
  BY <1>0 DEF CreateHumanIntervention, TypeOK, TaskRows, AttemptRows, Stays
<1>2. Shift(t, "waiting_for_human", "waiting_for_human")
  BY <1>1, OpenIsCurrent DEF Shift, LiveStatuses
<1>3. ShiftMove(t, "waiting_for_human", "waiting_for_human")
  BY <1>1, <1>2 DEF ShiftMove, MayShift, LiveStatuses, HeldStatuses
<1>4. "waiting_for_human" \in TaskStatuses /\ "waiting_for_human" \in AttemptStatuses
  BY DEF TaskStatuses, AttemptStatuses, LiveStatuses
<1>5. DecisionsStay
  BY <1>0 DEF DecisionsStay, CreateHumanIntervention, TypeOK
<1> QED BY <1>1, <1>3, <1>4, <1>5 DEF RowsMove

\* An approval resumes the attempt that waited, for the worker that held it.
LEMMA ResumeMove ==
  ASSUME Agreement, NEW h \in HumanIds, ResumeStep(h)
  PROVE  RowsMove /\ DecisionsStay /\ UNCHANGED results
<1> DEFINE t == human[h].task
           n == human[h].attempt
<1>0. TypeOK /\ t \in Tasks /\ n \in AttemptNumbers
  BY DEF Agreement, ResumeStep, WaitsOn
<1>1. /\ UNCHANGED results /\ \A u \in Tasks \ {t} : Stays(u)
      /\ task[t].current = n /\ task[t].status = "waiting_for_human"
      /\ task[t].worker = human[h].worker
  BY <1>0 DEF ResumeStep, WaitsOn, ApproveDecision, TypeOK, Stays
<1>2. /\ task'[t].status = "running" /\ task'[t].current = task[t].current
      /\ task'[t].worker = task[t].worker
  BY <1>0 DEF ResumeStep, ApproveDecision, TypeOK, TaskRows
<1>3. /\ attempts'[t][n].status = "running"
      /\ \A m \in AttemptNumbers \ {n} : attempts'[t][m] = attempts[t][m]
  BY <1>0 DEF ResumeStep, ApproveDecision, TypeOK, AttemptRows
<1>4. human[h].status = "pending" /\ human'[h].status = "approved"
  BY <1>0 DEF ResumeStep, ApproveDecision, CloseInterventions, TypeOK, HumanRows
<1>5. Shift(t, "running", "running")
  BY <1>0, <1>1, <1>2, <1>3, OpenIsCurrent DEF Shift, LiveStatuses
<1>6. ShiftMove(t, "running", "running")
  BY <1>1, <1>4, <1>5 DEF ShiftMove, MayShift, LiveStatuses, HeldStatuses, Resumed
<1>7. "running" \in TaskStatuses /\ "running" \in AttemptStatuses
  BY DEF TaskStatuses, AttemptStatuses, LiveStatuses, HeldStatuses
<1>8. DecisionsStay
  BY <1>0, <1>4 DEF DecisionsStay, ResumeStep, ApproveDecision, CloseInterventions, TypeOK
<1> QED BY <1>0, <1>1, <1>6, <1>7, <1>8 DEF RowsMove

\* A claim opens the next attempt, for a worker below its limit.
LEMMA ClaimRows ==
  ASSUME Agreement, NEW w \in Workers, NEW t \in Tasks, NEW n \in AttemptNumbers,
         ClaimStep(w, t, n)
  PROVE  RowsMove /\ DecisionsStay /\ UNCHANGED results
<1>0. TypeOK
  BY DEF Agreement
<1>1. /\ ActiveCount(w) < MaxWorkerTasks /\ task[t].status = "pending" /\ IsNextAttempt(t, n)
      /\ UNCHANGED <<human, results>>
      /\ attempts' = [attempts EXCEPT ![t][n] = [worker |-> w, status |-> "leased"]]
      /\ task' = [task EXCEPT ![t] =
           [task[t] EXCEPT !.status = "leased", !.worker = w, !.lease = "live", !.current = n]]
  BY DEF ClaimStep, ClaimTask, Eligible
<1>2. /\ task'[t].status = "leased" /\ task'[t].worker = w /\ task'[t].current = n
      /\ attempts'[t][n].status = "leased"
      /\ \A m \in AttemptNumbers \ {n} : attempts'[t][m] = attempts[t][m]
      /\ \A u \in Tasks \ {t} : Stays(u)
  BY <1>0, <1>1 DEF TypeOK, TaskRows, Stays
<1>3. ClaimMove(w, t, n)
  BY <1>1, <1>2 DEF ClaimMove
<1> QED BY <1>1, <1>3 DEF RowsMove, DecisionsStay

\* Expired and rejected interventions fail the tasks that wait on them.
LEMMA FailRows ==
  ASSUME Agreement, NEW S \in SUBSET HumanIds, NEW s \in HumanStatuses \ {"pending", "unused"},
         FailStep(S, s)
  PROVE  RowsMove /\ DecisionsStay /\ UNCHANGED results
<1> DEFINE T == {t \in Tasks : \E h \in S : human[h].task = t}
<1>0. TypeOK
  BY DEF Agreement
<1>1. ASSUME NEW t \in Tasks \ T PROVE Stays(t)
  <2>1. task'[t] = task[t] /\ \A n \in AttemptNumbers : attempts'[t][n] = attempts[t][n]
    BY DEF FailStep, FailWaiting
  <2>2. attempts'[t] = [n \in AttemptNumbers |-> attempts'[t][n]]
        /\ attempts[t] = [n \in AttemptNumbers |-> attempts[t][n]]
    BY <1>0 DEF FailStep, FailWaiting, TypeOK
  <2> QED BY <2>1, <2>2 DEF Stays
<1>2. ASSUME NEW t \in T
      PROVE  task[t].status = "waiting_for_human" /\ Shift(t, "failed", "failed")
  <2>1. PICK h \in S : human[h].task = t
    OBVIOUS
  <2>2. /\ task[t].status = "waiting_for_human" /\ task[t].current = human[h].attempt
    BY <2>1 DEF FailStep, WaitsOn
  <2>3. task'[t] = [task[t] EXCEPT !.status = "failed", !.lease = "none"]
    BY <2>1 DEF FailStep, FailWaiting
  <2>4. task'[t].status = "failed" /\ task'[t].current = task[t].current
        /\ task'[t].worker = task[t].worker
    BY <1>0, <2>3 DEF TypeOK, TaskRows
  <2>5. ASSUME NEW n \in AttemptNumbers
        PROVE  IF attempts[t][n].status \in LiveStatuses THEN attempts'[t][n].status = "failed"
               ELSE attempts'[t][n] = attempts[t][n]
    <3>1. attempts[t][n].status \in LiveStatuses <=> n = task[t].current
      BY <2>2, OpenIsCurrent DEF LiveStatuses
    <3>2. \A k \in S : human[k].task = t => human[k].attempt = task[t].current
      BY DEF FailStep, WaitsOn
    <3>3. attempts'[t][n] = IF n = task[t].current
                            THEN [attempts[t][n] EXCEPT !.status = "failed"] ELSE attempts[t][n]
      BY <2>1, <2>2, <3>2 DEF FailStep, FailWaiting
    <3>4. [attempts[t][n] EXCEPT !.status = "failed"].status = "failed"
      BY <1>0 DEF TypeOK, AttemptRows
    <3> QED BY <3>1, <3>3, <3>4
  <2> QED BY <2>2, <2>4, <2>5 DEF Shift
<1>3. FailMove(T)
  <2> HIDE DEF T
  <2> QED BY <1>1, <1>2 DEF FailMove
<1>4. DecisionsStay
  BY <1>0 DEF DecisionsStay, FailStep, CloseInterventions, TypeOK
<1>5. UNCHANGED results
  BY DEF FailStep
<1> QED BY <1>3, <1>4, <1>5 DEF RowsMove

\* Every move is one of the three.
LEMMA MoveRows ==
  ASSUME Agreement, Move
  PROVE  RowsMove /\ DecisionsStay /\ UNCHANGED results
BY QueueMove, CancelMove, ReleaseMove, StatusMove, PauseMove, ResumeMove, ClaimRows, FailRows
   DEF Move

-----------------------------------------------------------------------------
(* History.                                                                 *)

\* The step that ClosedStaysClosed asks for.
HistoryKept ==
  /\ \A t \in Tasks : task[t].status = "done" => task'[t].status = "done"
  /\ \A t \in Tasks, n \in AttemptNumbers :
       attempts[t][n].status \in AttemptTerminal => attempts'[t][n] = attempts[t][n]
  /\ \A h \in HumanIds :
       human[h].status \notin {"unused", "pending"} => human'[h] = human[h]

\* No step rewrites history.
LEMMA HistoryStep ==
  ASSUME Agreement, [Next]_vars
  PROVE  HistoryKept
<1>1. CASE QuietStep
  BY <1>1 DEF QuietStep, Quiet, HistoryKept
<1>2. CASE Move
  <2>1. RowsMove /\ DecisionsStay
    BY <1>2, MoveRows
  <2>2. \A t \in Tasks, n \in AttemptNumbers :
          attempts[t][n].status \in AttemptTerminal => attempts[t][n].status \notin LiveStatuses \cup {"none"}
    BY DEF AttemptTerminal, LiveStatuses, HeldStatuses
  <2>3. ASSUME NEW t \in Tasks, NEW s \in TaskStatuses, NEW o \in AttemptStatuses, ShiftMove(t, s, o)
        PROVE  HistoryKept
    <3>1. task[t].status # "done"
      BY <2>3 DEF ShiftMove, MayShift, LiveStatuses, HeldStatuses
    <3> QED BY <2>1, <2>2, <2>3, <3>1 DEF ShiftMove, Shift, Stays, DecisionsStay, HistoryKept
  <2>4. ASSUME NEW w \in Workers, NEW t \in Tasks, NEW n \in AttemptNumbers, ClaimMove(w, t, n)
        PROVE  HistoryKept
    BY <2>1, <2>2, <2>4 DEF ClaimMove, IsNextAttempt, Stays, DecisionsStay, HistoryKept
  <2>5. ASSUME NEW T \in SUBSET Tasks, FailMove(T)
        PROVE  HistoryKept
    BY <2>1, <2>2, <2>5 DEF FailMove, Shift, Stays, DecisionsStay, HistoryKept
  <2> QED BY <2>1, <2>3, <2>4, <2>5 DEF RowsMove
<1> QED BY <1>1, <1>2, StepKinds

\* In every behaviour history is never rewritten: closed attempts, decided
\* interventions and done tasks keep what they are, whichever of the store's writers
\* comes late.
THEOREM ClosedNeverReopens == Spec => ClosedStaysClosed
<1>1. Agreement /\ [Next]_vars => HistoryKept
  BY HistoryStep
<1> QED BY AgreementInvariant, <1>1, PTL DEF Spec, ClosedStaysClosed, HistoryKept

-----------------------------------------------------------------------------
(* Refinement of the attempt ledger.                                        *)

\* A step of the store is a step of the ledger, or none.
LEMMA LedgerStep ==
  ASSUME Agreement, [Next]_vars
  PROVE  Ledger!Next \/ UNCHANGED Ledger!ledgerVars
<1> DEFINE Ph(t) == PhaseOf(task[t].status)
           En(t, n) == EntryOf(attempts[t][n].status)
           Same(u) == PhaseOf(task'[u].status) = Ph(u)
                      /\ \A n \in AttemptNumbers : EntryOf(attempts'[u][n].status) = En(u, n)
           Phases == [u \in Tasks |-> Ph(u)]
           Entries == [u \in Tasks |-> [n \in AttemptNumbers |-> En(u, n)]]
           Closing(t, x) == [n \in AttemptNumbers |-> IF En(t, n) = "open" THEN x ELSE En(t, n)]
<1>0. \A t \in Tasks : \A x : Ledger!Closed(t, x) = Closing(t, x)
  BY DEF Ledger!Closed, Ledger!Numbers, AttemptNumbers
<1>1. ASSUME \A u \in Tasks : Same(u)
      PROVE  UNCHANGED Ledger!ledgerVars
  BY <1>1 DEF Ledger!ledgerVars
<1>2. \A u \in Tasks : Stays(u) => Same(u)
  BY DEF Stays
<1>3. /\ PhaseOf("absent") = "absent" /\ PhaseOf("pending") = "queued" /\ PhaseOf("done") = "done"
      /\ \A s \in LiveStatuses : PhaseOf(s) = "held" /\ EntryOf(s) = "open"
      /\ \A s \in TerminalStatuses \ {"done"} : PhaseOf(s) = "closed"
      /\ EntryOf("none") = "none" /\ EntryOf("succeeded") = "succeeded"
      /\ \A s \in AttemptTerminal \ {"succeeded"} : EntryOf(s) = "lost"
  BY DEF PhaseOf, EntryOf, LiveStatuses, HeldStatuses, TerminalStatuses, AttemptTerminal
<1>4. \A s : s \notin LiveStatuses => EntryOf(s) # "open"
  BY DEF EntryOf
<1>5. CASE QuietStep
  BY <1>1, <1>5 DEF QuietStep, Quiet
<1>6. ASSUME NEW t \in Tasks, NEW s \in TaskStatuses, NEW o \in AttemptStatuses, ShiftMove(t, s, o)
      PROVE  Ledger!Next \/ UNCHANGED Ledger!ledgerVars
  <2>1. /\ MayShift(task[t].status, s, o) /\ task'[t].status = s
        /\ \A u \in Tasks \ {t} : Same(u)
        /\ \A n \in AttemptNumbers : En(t, n) = "open" \/ EntryOf(attempts'[t][n].status) = En(t, n)
        /\ \A n \in AttemptNumbers : En(t, n) = "open" => EntryOf(attempts'[t][n].status) = EntryOf(o)
    <3> HIDE DEF Same
    <3>1. \A u \in Tasks \ {t} : Same(u)
      BY <1>2, <1>6 DEF ShiftMove
    <3>2. \A n \in AttemptNumbers : En(t, n) = "open" \/ EntryOf(attempts'[t][n].status) = En(t, n)
      BY <1>3, <1>6 DEF ShiftMove, Shift
    <3>3. \A n \in AttemptNumbers : En(t, n) = "open" => EntryOf(attempts'[t][n].status) = EntryOf(o)
      BY <1>4, <1>6 DEF ShiftMove, Shift
    <3> QED BY <1>6, <3>1, <3>2, <3>3 DEF ShiftMove, Shift
  <2>2. task[t].status \notin LiveStatuses => \A n \in AttemptNumbers : En(t, n) # "open"
    BY <1>4, OpenIsCurrent
  <2>3. ASSUME task[t].status \notin LiveStatuses
        PROVE  UNCHANGED [u \in Tasks |-> [n \in AttemptNumbers |-> En(u, n)]]
    BY <2>1, <2>2, <2>3
  <2>A. Phases' = [Phases EXCEPT ![t] = PhaseOf(s)]
    BY <2>1
  <2>B. Entries' = [Entries EXCEPT ![t] = Closing(t, EntryOf(o))]
    <3>1. \A n \in AttemptNumbers : EntryOf(attempts'[t][n].status) = Closing(t, EntryOf(o))[n]
      BY <2>1
    <3>2. [n \in AttemptNumbers |-> EntryOf(attempts'[t][n].status)] = Closing(t, EntryOf(o))
      BY <3>1
    <3>3. \A u \in Tasks \ {t} :
            [n \in AttemptNumbers |-> EntryOf(attempts'[u][n].status)] = [n \in AttemptNumbers |-> En(u, n)]
      BY <2>1
    <3> HIDE DEF Closing
    <3> QED BY <3>2, <3>3
  <2>4. CASE task[t].status = "absent"
    <3>1. s = "pending"
      BY <2>1, <2>4 DEF MayShift, LiveStatuses, HeldStatuses
    <3>2. Ledger!Submit(t)
      BY <1>3, <2>1, <2>3, <2>4, <3>1, ZenonT(60) DEF Ledger!Submit, LiveStatuses, HeldStatuses
    <3> QED BY <3>2 DEF Ledger!Next
  <2>5. CASE task[t].status \in {"failed", "dead_letter", "cancelled"}
    <3>1. s = "pending" /\ Ph(t) = "closed" /\ task[t].status \notin LiveStatuses
      BY <1>3, <2>1, <2>5 DEF MayShift, LiveStatuses, HeldStatuses, TerminalStatuses
    <3>2. Ledger!Reopen(t)
      BY <1>3, <2>1, <2>3, <3>1, ZenonT(60) DEF Ledger!Reopen
    <3> QED BY <3>2 DEF Ledger!Next
  <2>6. CASE task[t].status = "pending"
    <3>1. s = "cancelled" /\ PhaseOf(s) = "closed" /\ task[t].status \notin LiveStatuses
      BY <1>3, <2>1, <2>6 DEF MayShift, LiveStatuses, HeldStatuses, TerminalStatuses
    <3>2. Ledger!Withdraw(t)
      BY <1>3, <2>1, <2>3, <2>6, <3>1, ZenonT(60) DEF Ledger!Withdraw
    <3> QED BY <3>2 DEF Ledger!Next
  <2>7. CASE task[t].status \in LiveStatuses /\ s \in LiveStatuses
    <3>1. o = s
      BY <2>1, <2>7 DEF MayShift, LiveStatuses, HeldStatuses, TerminalStatuses
    <3>2. Same(t)
      BY <1>3, <2>1, <2>7, <3>1
    <3> QED BY <1>1, <2>1, <3>2
  <2>8. CASE task[t].status \in LiveStatuses /\ s = "done"
    <3>1. o = "succeeded"
      BY <2>1, <2>8 DEF MayShift, AttemptStatusOf, LiveStatuses, HeldStatuses, TerminalStatuses
    <3>2. Phases[t] = "held" /\ Phases' = [Phases EXCEPT ![t] = "done"]
      BY <1>3, <2>8, <2>A, <3>1
    <3>3. Entries' = [Entries EXCEPT ![t] = Ledger!Closed(t, "succeeded")]
      <4> HIDE DEF Entries, Closing
      <4> QED BY <1>0, <1>3, <2>B, <3>1
    <3>4. Ledger!Succeed(t)
      BY <3>2, <3>3 DEF Ledger!Succeed
    <3> QED BY <3>4 DEF Ledger!Next
  <2>9. CASE task[t].status \in LiveStatuses /\ s \in TerminalStatuses \ {"done"}
    <3>1. o \in AttemptTerminal \ {"succeeded"}
      BY <2>1, <2>9 DEF MayShift, AttemptStatusOf, LiveStatuses, HeldStatuses, TerminalStatuses,
         AttemptTerminal
    <3>2. /\ Phases' = [u \in Tasks |-> IF u \in {t} THEN "closed" ELSE Phases[u]]
          /\ Entries' = [u \in Tasks |-> IF u \in {t} THEN Closing(u, "lost") ELSE Entries[u]]
      <4> HIDE DEF Closing, Phases, Entries
      <4>1. Phases = [u \in Tasks |-> Phases[u]] /\ Entries = [u \in Tasks |-> Entries[u]]
        BY DEF Phases, Entries
      <4> QED BY <1>3, <2>9, <2>A, <2>B, <3>1, <4>1
    <3>3. Ledger!Lose({t})
      <4>1. \A u \in {t} : Phases[u] = "held"
        BY <1>3, <2>9
      <4>2. Entries' = [u \in Tasks |-> IF u \in {t} THEN Ledger!Closed(u, "lost") ELSE Entries[u]]
        <5> HIDE DEF Entries, Closing
        <5> QED BY <1>0, <3>2
      <4> QED BY <3>2, <4>1, <4>2 DEF Ledger!Lose
    <3> QED BY <3>3 DEF Ledger!Next
  <2>10. CASE task[t].status \in HeldStatuses /\ s = "pending" /\ o = "lease_expired"
    <3>1. task[t].status \in LiveStatuses /\ o \in AttemptTerminal \ {"succeeded"}
      BY <2>10 DEF LiveStatuses, AttemptTerminal
    <3>2. Phases[t] = "held" /\ Phases' = [Phases EXCEPT ![t] = "queued"]
      BY <1>3, <2>10, <2>A, <3>1
    <3>3. Entries' = [Entries EXCEPT ![t] = Ledger!Closed(t, "lost")]
      <4> HIDE DEF Entries, Closing
      <4> QED BY <1>0, <1>3, <2>B, <3>1
    <3>4. Ledger!Requeue(t)
      BY <3>2, <3>3 DEF Ledger!Requeue
    <3> QED BY <3>4 DEF Ledger!Next
  <2> QED
    BY <2>1, <2>4, <2>5, <2>6, <2>7, <2>8, <2>9, <2>10 DEF MayShift
<1>7. ASSUME NEW w \in Workers, NEW t \in Tasks, NEW n \in AttemptNumbers, ClaimMove(w, t, n)
      PROVE  Ledger!Next \/ UNCHANGED Ledger!ledgerVars
  <2>1. \A u \in Tasks \ {t} : Same(u)
    BY <1>2, <1>7 DEF ClaimMove
  <2>2. /\ Ph(t) = "queued" /\ PhaseOf(task'[t].status) = "held"
        /\ En(t, n) = "none" /\ EntryOf(attempts'[t][n].status) = "open"
        /\ \A m \in AttemptNumbers \ {n} : EntryOf(attempts'[t][m].status) = En(t, m)
    BY <1>3, <1>7 DEF ClaimMove, IsNextAttempt, LiveStatuses, HeldStatuses
  <2>3. \A m \in AttemptNumbers : IF m < n THEN En(t, m) \in {"lost", "succeeded"}
                                  ELSE En(t, m) = "none"
    <3> SUFFICES ASSUME NEW m \in AttemptNumbers
                 PROVE  IF m < n THEN En(t, m) \in {"lost", "succeeded"} ELSE En(t, m) = "none"
      OBVIOUS
    <3>1. attempts[t][m].status \in AttemptStatuses
      BY DEF Agreement, TypeOK, AttemptRows
    <3>2. attempts[t][m].status \notin LiveStatuses
      BY <1>7, OpenIsCurrent DEF ClaimMove, LiveStatuses, HeldStatuses
    <3>3. m < n <=> attempts[t][m].status # "none"
      BY <1>7 DEF ClaimMove, IsNextAttempt
    <3> QED BY <1>3, <3>1, <3>2, <3>3 DEF AttemptStatuses
  <2>4. Phases' = [Phases EXCEPT ![t] = "held"]
    BY <2>1, <2>2
  <2>5. Entries' = [Entries EXCEPT ![t][n] = "open"]
    BY <2>1, <2>2
  <2>6. Ledger!Open(t, n)
    BY <2>2, <2>3, <2>4, <2>5 DEF Ledger!Open, Ledger!Numbers, AttemptNumbers
  <2> QED BY <2>6 DEF Ledger!Next, Ledger!Numbers, AttemptNumbers
<1>8. ASSUME NEW T \in SUBSET Tasks, FailMove(T)
      PROVE  Ledger!Next \/ UNCHANGED Ledger!ledgerVars
  <2>1. \A u \in Tasks \ T : Same(u)
    BY <1>2, <1>8 DEF FailMove
  <2>2. CASE T = {}
    BY <1>1, <2>1, <2>2
  <2>3. CASE T # {}
    <3>1. \A t \in T : Ph(t) = "held" /\ PhaseOf(task'[t].status) = "closed"
      BY <1>3, <1>8 DEF FailMove, Shift, LiveStatuses, TerminalStatuses
    <3>2. \A t \in T, n \in AttemptNumbers :
            EntryOf(attempts'[t][n].status) = IF En(t, n) = "open" THEN "lost" ELSE En(t, n)
      BY <1>3, <1>4, <1>8 DEF FailMove, Shift, AttemptTerminal
    <3>3. Phases' = [u \in Tasks |-> IF u \in T THEN "closed" ELSE Phases[u]]
      BY <2>1, <3>1
    <3>4. Entries' = [u \in Tasks |-> IF u \in T THEN Closing(u, "lost") ELSE Entries[u]]
      BY <2>1, <3>2
    <3>5. Ledger!Lose(T)
      <4>1. \A u \in T : Phases[u] = "held"
        BY <3>1
      <4>2. Entries' = [u \in Tasks |-> IF u \in T THEN Ledger!Closed(u, "lost") ELSE Entries[u]]
        <5> HIDE DEF Entries, Closing
        <5> QED BY <1>0, <3>4
      <4> QED BY <2>3, <3>3, <4>1, <4>2 DEF Ledger!Lose
    <3> QED BY <3>5 DEF Ledger!Next
  <2> QED BY <2>2, <2>3
<1>9. CASE Move
  BY <1>6, <1>7, <1>8, <1>9, MoveRows DEF RowsMove
<1> QED BY <1>5, <1>9, StepKinds

\* The attempts and statuses of every behaviour are a behaviour of the attempt ledger.
THEOREM StoreImplementsLedger == Spec => ImplementsLedger
<1>1. Init => Ledger!Init
  <2>1. PhaseOf("absent") = "absent" /\ EntryOf("none") = "none"
    BY DEF PhaseOf, EntryOf, LiveStatuses, HeldStatuses
  <2> QED BY <2>1 DEF Init, Ledger!Init, Ledger!Numbers, AttemptNumbers
<1>2. Agreement /\ [Next]_vars => [Ledger!Next]_Ledger!ledgerVars
  BY LedgerStep
<1> QED BY AgreementInvariant, <1>1, <1>2, PTL DEF Spec, ImplementsLedger, Ledger!Spec

-----------------------------------------------------------------------------
(* What a done task has stored.                                             *)

\* No attempt ever has two summaries, and a done versioned task has a valid batch and
\* a summary for its current attempt.
DoneInv ==
  /\ \A t \in Tasks, n \in AttemptNumbers : \A r, q \in results[t][n] :
       r.kind = "summary" /\ q.kind = "summary" => r = q
  /\ \A t \in Versioned : task[t].status = "done" =>
       /\ task[t].current \in AttemptNumbers
       /\ \E r \in results[t][task[t].current] : r.kind = "batch" /\ r.valid
       /\ \E r \in results[t][task[t].current] : r.kind = "summary"

\* Every step keeps what done tasks have stored.
LEMMA DoneInvStep ==
  ASSUME Agreement, DoneInv, [Next]_vars
  PROVE  DoneInv'
<1> USE TaskDataAssumption DEF DoneInv
<1>1. CASE QuietStep /\ UNCHANGED results
  BY <1>1 DEF QuietStep, Quiet
<1>2. ASSUME Quiet, NEW f \in inflight, InsertResult(f)
      PROVE  DoneInv'
  <2>1. f.task \in Tasks /\ f.attempt \in AttemptNumbers
    BY DEF Agreement, TypeOK, InflightRows
  <2>2. CASE results' = results
    BY <1>2, <2>2 DEF Quiet
  <2>3. CASE /\ ~ResultConflicts(f.task, f.attempt, f.sub)
             /\ results' = [results EXCEPT ![f.task][f.attempt] = @ \cup {f.sub}]
    <3>1. \A t \in Tasks, n \in AttemptNumbers :
            results'[t][n] = IF t = f.task /\ n = f.attempt THEN results[t][n] \cup {f.sub}
                             ELSE results[t][n]
      BY <2>1, <2>3, ZenonT(60) DEF Agreement, TypeOK
    <3>2. ASSUME NEW t \in Tasks, NEW n \in AttemptNumbers,
                 NEW r \in results'[t][n], NEW q \in results'[t][n],
                 r.kind = "summary", q.kind = "summary"
          PROVE  r = q
      BY <2>3, <3>1, <3>2 DEF ResultConflicts
    <3>3. ASSUME NEW t \in Versioned, task'[t].status = "done"
          PROVE  /\ task'[t].current \in AttemptNumbers
                 /\ \E r \in results'[t][task'[t].current] : r.kind = "batch" /\ r.valid
                 /\ \E r \in results'[t][task'[t].current] : r.kind = "summary"
      <4>1. task[t].status = "done" /\ task'[t].current = task[t].current
        BY <1>2, <3>3 DEF Quiet
      <4> DEFINE n == task[t].current
      <4>2. t \in Tasks /\ n \in AttemptNumbers
        BY <4>1
      <4>3. \A r \in results[t][n] : r \in results'[t][n]
        <5> HIDE DEF n, DoneInv
        <5>1. results'[t][n] = IF t = f.task /\ n = f.attempt THEN results[t][n] \cup {f.sub}
                               ELSE results[t][n]
          BY <3>1, <4>2
        <5> QED BY <5>1
      <4> QED BY <4>1, <4>2, <4>3
    <3> QED BY <3>2, <3>3
  <2> QED BY <1>2, <2>2, <2>3 DEF InsertResult
<1>3. CASE Move
  <2>1. RowsMove /\ UNCHANGED results
    BY <1>3, MoveRows
  <2>2. ASSUME NEW t \in Versioned, Stays(t), task'[t].status = "done"
        PROVE  task[t].status = "done" /\ task'[t].current = task[t].current
    BY <2>2 DEF Stays
  <2>3. ASSUME NEW t \in Tasks, NEW s \in TaskStatuses, NEW o \in AttemptStatuses, ShiftMove(t, s, o)
        PROVE  DoneInv'
    <3>1. CASE s # "done"
      BY <2>1, <2>2, <2>3, <3>1 DEF ShiftMove, Shift
    <3>2. CASE s = "done"
      <4>1. task[t].status \in LiveStatuses
        BY <2>3, <3>2 DEF ShiftMove, MayShift, LiveStatuses, HeldStatuses
      <4>2. task'[t].current = task[t].current /\ task[t].current \in AttemptNumbers
        BY <2>3, <4>1, OpenIsCurrent DEF ShiftMove, Shift
      <4>3. t \in Versioned => ResultsComplete(t, task[t].current)
        BY <2>3, <3>2 DEF ShiftMove
      <4> QED BY <2>1, <2>2, <2>3, <4>2, <4>3 DEF ShiftMove, ResultsComplete
    <3> QED BY <3>1, <3>2
  <2>4. ASSUME NEW w \in Workers, NEW t \in Tasks, NEW n \in AttemptNumbers, ClaimMove(w, t, n)
        PROVE  DoneInv'
    BY <2>1, <2>2, <2>4 DEF ClaimMove
  <2>5. ASSUME NEW T \in SUBSET Tasks, FailMove(T)
        PROVE  DoneInv'
    BY <2>1, <2>2, <2>5 DEF FailMove, Shift
  <2> QED BY <2>1, <2>3, <2>4, <2>5 DEF RowsMove
<1> QED BY <1>1, <1>2, <1>3, StepKinds DEF QuietStep

\* In every behaviour a done versioned task has a valid batch and exactly one summary
\* stored for the attempt that finished it, although submissions are checked in one
\* transaction and stored in a later one.
THEOREM DoneAlwaysHasResults == Spec => []DoneHasResults
<1>1. Init => DoneInv
  BY TaskDataAssumption DEF Init, DoneInv
<1>2. Agreement /\ DoneInv /\ [Next]_vars => DoneInv'
  BY DoneInvStep
<1>3. DoneInv => DoneHasResults
  <2> SUFFICES ASSUME DoneInv, NEW t \in Versioned, task[t].status = "done"
               PROVE  /\ \E r \in results[t][task[t].current] : r.kind = "batch" /\ r.valid
                      /\ Cardinality({r \in results[t][task[t].current] : r.kind = "summary"}) = 1
    BY DEF DoneHasResults
  <2>1. t \in Tasks /\ task[t].current \in AttemptNumbers
    BY TaskDataAssumption DEF DoneInv
  <2>2. PICK r \in results[t][task[t].current] : r.kind = "summary"
    BY DEF DoneInv
  <2>3. {q \in results[t][task[t].current] : q.kind = "summary"} = {r}
    BY <2>1, <2>2 DEF DoneInv
  <2>4. Cardinality({r}) = 1
    BY FS_Singleton
  <2> QED BY <2>3, <2>4 DEF DoneInv
<1> QED BY AgreementInvariant, <1>1, <1>2, <1>3, PTL DEF Spec

-----------------------------------------------------------------------------
(* The concurrency limit.                                                   *)

\* The tasks that count against the limit of worker w.
HeldBy(w) == {u \in Tasks : task[u].worker = w /\ task[u].status \in HeldStatuses}

\* The step that LimitPassedOnlyByApproval asks for.
LimitKept ==
  \A w \in Workers :
    ActiveCount(w)' > MaxWorkerTasks /\ ActiveCount(w)' > ActiveCount(w) =>
      \E h \in HumanIds :
        /\ human[h].status = "pending" /\ human'[h].status = "approved"
        /\ human[h].worker = w

\* A worker that gains no task counts no more than before, and one task more counts
\* at most one.
LEMMA ActiveCounts ==
  ASSUME NEW w \in Workers
  PROVE  /\ ActiveCount(w) \in Nat /\ ActiveCount(w)' \in Nat
         /\ HeldBy(w)' \subseteq HeldBy(w) => ActiveCount(w)' <= ActiveCount(w)
         /\ \A t : HeldBy(w)' \subseteq HeldBy(w) \cup {t} => ActiveCount(w)' <= ActiveCount(w) + 1
<1>1. ActiveCount(w) = Cardinality(HeldBy(w)) /\ ActiveCount(w)' = Cardinality(HeldBy(w)')
  BY DEF ActiveCount, HeldBy
<1>2. IsFiniteSet(HeldBy(w)) /\ IsFiniteSet(HeldBy(w)')
  <2>1. HeldBy(w) \subseteq Tasks /\ HeldBy(w)' \subseteq Tasks
    BY DEF HeldBy
  <2> QED BY <2>1, BoundsAssumption, FS_Subset
<1>3. Cardinality(HeldBy(w)) \in Nat /\ Cardinality(HeldBy(w)') \in Nat
  BY <1>2, FS_CardinalityType
<1>4. HeldBy(w)' \subseteq HeldBy(w) => Cardinality(HeldBy(w)') <= Cardinality(HeldBy(w))
  BY <1>2, FS_Subset
<1>5. ASSUME NEW t, HeldBy(w)' \subseteq HeldBy(w) \cup {t}
      PROVE  Cardinality(HeldBy(w)') <= Cardinality(HeldBy(w)) + 1
  <2>1. /\ IsFiniteSet(HeldBy(w) \cup {t})
        /\ Cardinality(HeldBy(w) \cup {t}) \in {Cardinality(HeldBy(w)), Cardinality(HeldBy(w)) + 1}
    BY <1>2, FS_AddElement
  <2>2. Cardinality(HeldBy(w)') <= Cardinality(HeldBy(w) \cup {t})
    BY <1>5, <2>1, FS_Subset
  <2> QED BY <1>3, <2>1, <2>2
<1> QED BY <1>1, <1>3, <1>4, <1>5

\* A step that takes a worker past its limit is an approval.
LEMMA LimitStep ==
  ASSUME Agreement, [Next]_vars
  PROVE  LimitKept
<1> SUFFICES ASSUME NEW w \in Workers,
                    ActiveCount(w)' > MaxWorkerTasks, ActiveCount(w)' > ActiveCount(w)
             PROVE  \E h \in HumanIds : /\ human[h].status = "pending" /\ human'[h].status = "approved"
                                        /\ human[h].worker = w
  BY DEF LimitKept
<1>1. w # NoWorker /\ MaxWorkerTasks \in Nat
  BY NamesAssumption, BoundsAssumption
<1>2. PICK t \in Tasks : t \in HeldBy(w)' /\ t \notin HeldBy(w)
  <2>1. ~(HeldBy(w)' \subseteq HeldBy(w))
    BY ActiveCounts
  <2> QED BY <2>1 DEF HeldBy
<1>3. /\ task'[t].worker = w /\ task'[t].status \in HeldStatuses
      /\ ~(task[t].worker = w /\ task[t].status \in HeldStatuses)
  BY <1>2 DEF HeldBy
<1>4. ~Stays(t) /\ ~QuietStep
  BY <1>3 DEF Stays, QuietStep, Quiet
<1>5. RowsMove
  BY <1>4, StepKinds, MoveRows
<1>6. ASSUME NEW u \in Tasks, NEW s \in TaskStatuses, NEW o \in AttemptStatuses, ShiftMove(u, s, o)
      PROVE  \E h \in HumanIds : /\ human[h].status = "pending" /\ human'[h].status = "approved"
                                 /\ human[h].worker = w
  <2>1. t = u
    BY <1>4, <1>6 DEF ShiftMove
  <2>2. task[t].worker = w /\ s \in HeldStatuses
    BY <1>1, <1>3, <1>6, <2>1 DEF ShiftMove, Shift
  <2>3. Resumed(t)
    BY <1>3, <1>6, <2>1, <2>2 DEF ShiftMove
  <2> QED BY <2>2, <2>3 DEF Resumed
<1>7. ASSUME NEW v \in Workers, NEW u \in Tasks, NEW n \in AttemptNumbers, ClaimMove(v, u, n)
      PROVE  FALSE
  <2>1. t = u /\ v = w
    BY <1>3, <1>4, <1>7 DEF ClaimMove
  <2>2. HeldBy(w)' \subseteq HeldBy(w) \cup {t}
    BY <1>7, <2>1 DEF ClaimMove, HeldBy, Stays
  <2>3. ActiveCount(w)' <= ActiveCount(w) + 1 /\ ActiveCount(w) \in Nat /\ ActiveCount(w)' \in Nat
    BY <2>2, ActiveCounts
  <2>4. ActiveCount(w) < MaxWorkerTasks
    BY <1>7, <2>1 DEF ClaimMove
  <2> QED BY <1>1, <2>3, <2>4
<1>8. ASSUME NEW T \in SUBSET Tasks, FailMove(T)
      PROVE  FALSE
  BY <1>3, <1>4, <1>8 DEF FailMove, Shift, HeldStatuses
<1> QED BY <1>5, <1>6, <1>7, <1>8 DEF RowsMove

\* In every behaviour, for any number of workers and tasks and any limit, a worker
\* passes its limit only when an operator approves the resume of one of its tasks.
THEOREM LimitOnlyByApproval == Spec => LimitPassedOnlyByApproval
<1>1. Agreement /\ [Next]_vars => LimitKept
  BY LimitStep
<1> QED BY AgreementInvariant, <1>1, PTL DEF Spec, LimitPassedOnlyByApproval, LimitKept

=============================================================================
