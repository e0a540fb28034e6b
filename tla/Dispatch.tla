------------------------------ MODULE Dispatch ------------------------------
(***************************************************************************)
(* The userscript runtime: background dispatchers claim a task, open a tab *)
(* at the rule's entry with the descriptor in its hash, wait for a         *)
(* terminal status and close the tab (dispatcher-entry.ts); in the tab the *)
(* executor boots in every realm, from the hash or from sessionStorage,    *)
(* runs the rule from the last checkpoint and reports (userscript-entry.ts, *)
(* transport.ts).                                                          *)
(*                                                                         *)
(* The server is what these calls see of it: TaskLifecycle has the rest.   *)
(* A rule sends rows, all different, and navigates; a reload or a foreign  *)
(* page may take the realm at any time, the session stays with the tab.    *)
(***************************************************************************)
EXTENDS Naturals, Sequences, FiniteSets

CONSTANTS Dispatchers,     \* worker ids
          DispatchRules,   \* rules: sequences of "send" and "nav"
          MaxAttempts,     \* the task's attempts
          MaxReloads,      \* bound: realms lost
          MaxFaults        \* bound: calls that fail, leases that lapse

ASSUME DispatchAssumption == /\ DispatchRules \subseteq Seq({"send", "nav"})
                             /\ MaxAttempts \in Nat \ {0}
                             /\ MaxReloads \in Nat /\ MaxFaults \in Nat

VARIABLES recipe,    \* the steps of the rule
          lineage,   \* taskRequiresAttemptLineage: a status needs the attempt
          task,      \* at the server: status, owner, current attempt, cancel
          results,   \* stored: attempt, sequence, kind and content
          dsp,       \* each dispatcher's loop
          tabs,      \* the tab of an attempt: hash and sessionStorage
          realms,    \* what runs in it
          reloads, faults,
          refused    \* ghost: conflicts the current attempt met

dispatchVars == <<recipe, lineage, task, results, dsp, tabs, realms, reloads, faults, refused>>

Attempts == 1 .. MaxAttempts
Ended == {"done", "failed", "cancelled", "dead_letter"}
NoSession == [status |-> "none", done |-> 0]
NoTab == [open |-> FALSE, hash |-> FALSE, session |-> NoSession]
NoRealm == [pc |-> "off", step |-> 0, seq |-> 0, abort |-> FALSE, outcome |-> "none"]
Booting == [NoRealm EXCEPT !.pc = "boot"]

---------------------------------------------------------------------------
(* The server's side of the calls.                                          *)

Current(n) == task.attempt = n /\ task.status = "held"

Same(n, seq, kind) == {r \in results : r.attempt = n /\ r.seq = seq /\ r.kind = kind}

\* InsertResultIdempotent: an exact repeat is acknowledged, a reused key refused.
Accepts(n, seq, kind, what) ==
    IF Same(n, seq, kind) # {}
    THEN \A r \in Same(n, seq, kind) : r.what = what
    ELSE Current(n) /\ (kind = "summary" =>
                          ~ \E r \in results : r.attempt = n /\ r.kind = "summary")

StoreResult(n, seq, kind, what) ==
    results' = results \cup {[attempt |-> n, seq |-> seq, kind |-> kind, what |-> what]}

\* UpdateTaskStatusForAttempt.
ResultsComplete(n) ==
    /\ \E r \in results : r.attempt = n /\ r.kind = "batch"
    /\ \E r \in results : r.attempt = n /\ r.kind = "summary"
StatusAfter(n, s) ==
    IF Current(n) /\ (s = "done" => ResultsComplete(n))
    THEN [task EXCEPT !.status = s] ELSE task

\* ClaimTask.
ServerClaim(d) ==
    /\ task.status = "pending"
    /\ task' = [task EXCEPT !.status = "held", !.owner = d, !.attempt = @ + 1]

\* Heartbeats of a running realm keep the lease, unless the tab is frozen.
Beating(n) == tabs[n].open /\ realms[n].pc \in {"run", "sent", "report"}
LeaseLapses ==
    /\ task.status = "held"
    /\ IF Beating(task.attempt) THEN faults < MaxFaults /\ faults' = faults + 1
                                ELSE UNCHANGED faults
    /\ task' = [task EXCEPT !.status = IF @ = "held" /\ task.attempt < MaxAttempts
                                       THEN "pending" ELSE "dead_letter"]
    /\ UNCHANGED <<recipe, lineage, results, dsp, tabs, realms, reloads, refused>>

RequestCancel ==
    /\ task.status = "held" /\ ~task.cancel
    /\ task' = [task EXCEPT !.cancel = TRUE]
    /\ UNCHANGED <<recipe, lineage, results, dsp, tabs, realms, reloads, faults, refused>>

---------------------------------------------------------------------------
DispatchInit ==
    /\ recipe \in DispatchRules /\ lineage \in BOOLEAN
    /\ task = [status |-> "pending", owner |-> "none", attempt |-> 0, cancel |-> FALSE]
    /\ results = {}
    /\ dsp = [d \in Dispatchers |-> [pc |-> "idle", attempt |-> 0]]
    /\ tabs = [n \in Attempts |-> NoTab]
    /\ realms = [n \in Attempts |-> NoRealm]
    /\ reloads = 0 /\ faults = 0 /\ refused = {}

(* The dispatcher: runDispatcherLoop and dispatchTask.                       *)

Claim(d) ==
    /\ dsp[d].pc = "idle"
    /\ ServerClaim(d)
    /\ dsp' = [dsp EXCEPT ![d] = [pc |-> "claimed", attempt |-> task.attempt + 1]]
    /\ UNCHANGED <<recipe, lineage, results, tabs, realms, reloads, faults, refused>>

\* encodeDescriptor, GM_openInTab, heartbeatOnce.
OpenTab(d) ==
    /\ dsp[d].pc = "claimed"
    /\ dsp' = [dsp EXCEPT ![d].pc = "wait"]
    /\ tabs' = [tabs EXCEPT ![dsp[d].attempt] = [open |-> TRUE, hash |-> TRUE, session |-> NoSession]]
    /\ realms' = [realms EXCEPT ![dsp[d].attempt] = Booting]
    /\ UNCHANGED <<recipe, lineage, task, results, reloads, faults, refused>>

\* No rule, an entry outside its domain, no tab: sendStatus names no attempt, so
\* the server refuses it where the lineage is required.
GiveUp(d) ==
    /\ dsp[d].pc = "claimed" /\ faults < MaxFaults /\ faults' = faults + 1
    /\ dsp' = [dsp EXCEPT ![d] = [pc |-> "idle", attempt |-> 0]]
    /\ task' = IF ~lineage /\ task.owner = d /\ task.status = "held"
               THEN [task EXCEPT !.status = "failed"] ELSE task
    /\ UNCHANGED <<recipe, lineage, results, tabs, realms, reloads, refused>>

CloseDispatchedTab(d) ==
    /\ tabs' = [tabs EXCEPT ![dsp[d].attempt] = NoTab]
    /\ realms' = [realms EXCEPT ![dsp[d].attempt] = NoRealm]

\* waitTerminal sees one of three statuses; dead_letter is not among them.
SeesTerminal(d) ==
    /\ dsp[d].pc = "wait" /\ task.status \in {"done", "failed", "cancelled"}
    /\ CloseDispatchedTab(d)
    /\ dsp' = [dsp EXCEPT ![d] = [pc |-> "idle", attempt |-> 0]]
    /\ UNCHANGED <<recipe, lineage, task, results, reloads, faults, refused>>

\* TASK_COMPLETION_TIMEOUT_MS.
WaitCap(d) ==
    /\ dsp[d].pc = "wait" /\ task.status \notin {"done", "failed", "cancelled"}
    /\ CloseDispatchedTab(d)
    /\ dsp' = [dsp EXCEPT ![d] = [pc |-> "idle", attempt |-> 0]]
    /\ UNCHANGED <<recipe, lineage, task, results, reloads, faults, refused>>

---------------------------------------------------------------------------
(* The executor in the tab of attempt n.                                     *)

SetRealm(n, r) == realms' = [realms EXCEPT ![n] = r]
SetSession(n, s) == tabs' = [tabs EXCEPT ![n].session = s]

\* A slip: the step a lost realm was in is taken for completed.
ResumeStepSkips(session) ==
    IF session.status = "running" /\ session.done + 1 < Len(recipe) THEN session.done + 2 ELSE session.done + 1

\* nextPendingPath.
ResumeStep(session) == session.done + 1

\* createTransport: every realm counts from the start.
FirstSequence(n) == 0

\* boot: the descriptor comes from the hash or, while it runs, the session; a
\* task that ended in this tab is cleared and not run again.
HasTask(n) == tabs[n].hash \/ tabs[n].session.status = "running"
Boot(n) ==
    /\ tabs[n].open /\ realms[n].pc = "boot"
    /\ IF HasTask(n) /\ tabs[n].session.status \in {"none", "running"}
       THEN /\ SetRealm(n, [realms[n] EXCEPT !.pc = "run", !.step = ResumeStep(tabs[n].session),
                                             !.seq = FirstSequence(n)])
            /\ SetSession(n, [tabs[n].session EXCEPT !.status = "running"])
       ELSE SetRealm(n, NoRealm) /\ SetSession(n, NoSession)
    /\ UNCHANGED <<recipe, lineage, task, results, dsp, reloads, faults, refused>>

\* The rule cannot be fetched, or this host is not in its domain.
BootRefuses(n) ==
    /\ tabs[n].open /\ realms[n].pc = "boot" /\ HasTask(n)
    /\ tabs[n].session.status \in {"none", "running"}
    /\ faults < MaxFaults /\ faults' = faults + 1
    /\ task' = StatusAfter(n, "failed")
    /\ SetSession(n, NoSession) /\ SetRealm(n, NoRealm)
    /\ UNCHANGED <<recipe, lineage, results, dsp, reloads, refused>>

Ready(n, pc) == tabs[n].open /\ realms[n].pc = pc
Step(n) == recipe[realms[n].step]
More(n) == realms[n].step <= Len(recipe)

\* The end of runRule: the session says so before anything is reported.
Finish(n, outcome, status) ==
    /\ SetRealm(n, [realms[n] EXCEPT !.pc = "report", !.outcome = outcome])
    /\ SetSession(n, [tabs[n].session EXCEPT !.status = status])

\* sendResult of a row; what is refused is not sent again.
SendResult(n) ==
    /\ Ready(n, "run") /\ ~realms[n].abort /\ More(n) /\ Step(n) = "send"
    /\ LET seq == realms[n].seq + 1 IN
         IF Accepts(n, seq, "batch", realms[n].step)
         THEN /\ StoreResult(n, seq, "batch", realms[n].step)
              /\ SetRealm(n, [realms[n] EXCEPT !.pc = "sent", !.seq = seq])
              /\ UNCHANGED <<tabs, refused>>
         ELSE /\ Finish(n, "failure", "failed")
              /\ refused' = IF Current(n) THEN refused \cup {n} ELSE refused
              /\ UNCHANGED results
    /\ UNCHANGED <<recipe, lineage, task, dsp, reloads, faults>>

\* Three failures in a row: the row may have been stored all the same.
SendFails(n) ==
    /\ Ready(n, "run") /\ ~realms[n].abort /\ More(n) /\ Step(n) = "send"
    /\ faults < MaxFaults /\ faults' = faults + 1
    /\ LET seq == realms[n].seq + 1 IN
         \/ Accepts(n, seq, "batch", realms[n].step) /\ StoreResult(n, seq, "batch", realms[n].step)
         \/ UNCHANGED results
    /\ Finish(n, "failure", "failed")
    /\ UNCHANGED <<recipe, lineage, task, dsp, reloads, refused>>

\* onCheckpoint after the step.
Checkpoint(n) ==
    /\ Ready(n, "sent")
    /\ SetSession(n, [tabs[n].session EXCEPT !.done = realms[n].step])
    /\ SetRealm(n, [realms[n] EXCEPT !.pc = "run", !.step = @ + 1])
    /\ UNCHANGED <<recipe, lineage, task, results, dsp, reloads, faults, refused>>

\* A step that navigates is checkpointed before it acts; the hash is gone after.
Navigate(n) ==
    /\ Ready(n, "run") /\ ~realms[n].abort /\ More(n) /\ Step(n) = "nav"
    /\ tabs' = [tabs EXCEPT ![n].hash = FALSE, ![n].session.done = realms[n].step]
    /\ SetRealm(n, Booting)
    /\ UNCHANGED <<recipe, lineage, task, results, dsp, reloads, faults, refused>>

RunRuleEnds(n) ==
    /\ Ready(n, "run")
    /\ \/ realms[n].abort /\ Finish(n, "cancelled", "failed")
       \/ ~realms[n].abort /\ ~More(n) /\ Finish(n, "success", "done")
    /\ UNCHANGED <<recipe, lineage, task, results, dsp, reloads, faults, refused>>

\* The heartbeat answers with the request to cancel.
Heartbeat(n) ==
    /\ Ready(n, "run") /\ Current(n) /\ task.cancel /\ ~realms[n].abort
    /\ SetRealm(n, [realms[n] EXCEPT !.abort = TRUE])
    /\ UNCHANGED <<recipe, lineage, task, results, dsp, tabs, reloads, faults, refused>>

\* sendFinalSummary; when it fails the attempt is reported failed.
SendFinalSummary(n) ==
    /\ Ready(n, "report")
    /\ LET seq == realms[n].seq + 1 IN
         IF Accepts(n, seq, "summary", 0)
         THEN /\ StoreResult(n, seq, "summary", 0)
              /\ SetRealm(n, [realms[n] EXCEPT !.pc = "status"])
              /\ UNCHANGED <<task, refused>>
         ELSE /\ task' = StatusAfter(n, "failed")
              /\ SetRealm(n, NoRealm)
              /\ refused' = IF Current(n) THEN refused \cup {n} ELSE refused
              /\ UNCHANGED results
    /\ UNCHANGED <<recipe, lineage, dsp, tabs, reloads, faults>>

\* sendStatus: 'cancelled' is taken for an internal state and not sent.
SendStatus(n) ==
    /\ Ready(n, "status")
    /\ task' = CASE realms[n].outcome = "success" -> StatusAfter(n, "done")
                 [] realms[n].outcome = "failure" -> StatusAfter(n, "failed")
                 [] OTHER -> task
    /\ SetRealm(n, NoRealm)
    /\ UNCHANGED <<recipe, lineage, results, dsp, tabs, reloads, faults, refused>>

SendStatusFails(n) ==
    /\ Ready(n, "status") /\ faults < MaxFaults /\ faults' = faults + 1
    /\ SetRealm(n, NoRealm)
    /\ UNCHANGED <<recipe, lineage, task, results, dsp, tabs, reloads, refused>>

\* The page reloads itself.
Reload(n) ==
    /\ tabs[n].open /\ realms[n].pc # "boot" /\ reloads < MaxReloads
    /\ reloads' = reloads + 1
    /\ SetRealm(n, Booting)
    /\ UNCHANGED <<recipe, lineage, task, results, dsp, tabs, faults, refused>>

---------------------------------------------------------------------------
Dispatching(d) == Claim(d) \/ OpenTab(d) \/ SeesTerminal(d) \/ WaitCap(d)
Executing(n) == Boot(n) \/ SendResult(n) \/ Checkpoint(n) \/ Navigate(n) \/ RunRuleEnds(n)
                \/ SendFinalSummary(n) \/ SendStatus(n)

DispatchNext ==
    \/ LeaseLapses \/ RequestCancel
    \/ \E d \in Dispatchers : Dispatching(d) \/ GiveUp(d)
    \/ \E n \in Attempts :
         \/ Executing(n) \/ BootRefuses(n) \/ SendFails(n) \/ Heartbeat(n)
         \/ SendStatusFails(n) \/ Reload(n)

\* The loop and its polls come round, timers and requests answer, and the
\* server's sweeper runs.
DispatchFairness ==
    /\ \A d \in Dispatchers : WF_dispatchVars(Dispatching(d))
    /\ \A n \in Attempts : WF_dispatchVars(Executing(n))
    /\ WF_dispatchVars(LeaseLapses)
DispatchSpec == DispatchInit /\ [][DispatchNext]_dispatchVars /\ DispatchFairness

---------------------------------------------------------------------------
DispatchTypeOK ==
    /\ task.status \in {"pending", "held"} \cup Ended /\ task.attempt \in 0 .. MaxAttempts
    /\ \A r \in results : r.attempt \in Attempts /\ r.seq \in 1 .. Len(recipe) + 1
                          /\ r.kind \in {"batch", "summary"} /\ r.what \in 0 .. Len(recipe)
    /\ \A n \in Attempts : realms[n].step \in 0 .. Len(recipe) + 1

\* A task the server shows as done has every row of its rule among the results
\* of the attempt that was reported, though a reload may have taken the
\* executor between a send and its checkpoint.
DoneHasEveryRow ==
    task.status = "done" =>
        \A i \in DOMAIN recipe : recipe[i] = "send" =>
            \E r \in results : r.attempt = task.attempt /\ r.kind = "batch" /\ r.what = i

\* No row is stored twice for an attempt: the step that a resumed realm repeats
\* reuses the number of the first time, or one the server refuses.
RowStoredOnce ==
    \A r, s \in results : r.attempt = s.attempt /\ r.kind = "batch" /\ s.kind = "batch"
                          /\ r.what = s.what => r = s

\* A dispatcher that looks for work has no tab left open of what it did before.
NoTabLeft ==
    \A n \in Attempts : tabs[n].open =>
        \E d \in Dispatchers : dsp[d].pc = "wait" /\ dsp[d].attempt = n

\* The server refuses no result of the attempt that holds the task: what a
\* navigation interrupts is resumed, not run into a conflict.
ResumeNeverConflicts == refused = {}

\* What a dispatched tab leaves at the server and in the browser: types hold, done
\* has every row, once, and no tab stays behind.
DispatchIsExact ==
  /\ DispatchTypeOK
  /\ DoneHasEveryRow
  /\ RowStoredOnce
  /\ NoTabLeft

=============================================================================
