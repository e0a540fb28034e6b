----------------------------- MODULE StepGuards -----------------------------
(***************************************************************************)
(* The steps a rule puts around a risky operation                          *)
(* (src/scriptcat-engine/actions/index.ts): `circuitBreaker`, as a gate    *)
(* before the operation and as a report after it, `checkQuota`,            *)
(* `requestHuman` and `solveCaptcha`.  Each actor is one branch of a rule  *)
(* that repeats gate, quota, operation, report.  The breakers live on the  *)
(* window of a tab and are gone when it navigates; the quota lives in the  *)
(* localStorage all tabs of the site share.  Time is a clock that ticks;   *)
(* the handlers read it once and, but for the wait of a quota, decide      *)
(* without an await, so each decision is one step.                         *)
(***************************************************************************)
EXTENDS Naturals, Sequences, FiniteSets

CONSTANTS Actors,        \* the branches of rules at work
          TabOf,         \* the tab each one works in
          WindowMs,      \* the span in which failures of an operation add up
          CooldownMs,    \* how long an open breaker refuses
          FailureThreshold,     \* the failures that open it
          Limit,         \* the operations a quota allows in QuotaMs
          QuotaMs,
          Policies,      \* what `onExceeded` may say
          Counters,      \* what an older version may have left on the window
          MaxTime,       \* bound: the clock
          MaxRounds      \* bound: the rounds that are let through

\* What the fields of the steps are for: a span of some length, at least one failure.
ASSUME GuardsAssumption ==
  /\ IsFiniteSet(Actors) /\ Counters \subseteq Nat
  /\ WindowMs \in Nat \ {0} /\ CooldownMs \in Nat /\ FailureThreshold \in Nat \ {0}
  /\ Limit \in Nat /\ QuotaMs \in Nat
  /\ Policies \subseteq {"wait", "fail", "skip"}
  /\ MaxTime \in Nat \ {0} /\ MaxRounds \in Nat

VARIABLES breakers,  \* per tab: what window.__ocCircuitBreakers holds
          quota,     \* the counter in localStorage
          branch,    \* per actor: where it is, and when it was let through
          policy,    \* the rule's onExceeded
          clock,
          ghost      \* what the steps reported, opened and admitted so far

guardVars == <<breakers, quota, branch, policy, clock, ghost>>

Tabs == {TabOf[a] : a \in Actors}

CircuitBreakerState ==
  [failures : Seq(1..MaxTime), open : BOOLEAN, openedAt : 0..MaxTime,
   halfOpen : BOOLEAN, probeStartedAt : 0..MaxTime]

ClosedBreaker == [failures |-> <<>>, open |-> FALSE, openedAt |-> 0,
           halfOpen |-> FALSE, probeStartedAt |-> 0]

\* What the window holds before its first gate: nothing, or the counter of
\* failures an older version kept.
Unread(n) == [counter |-> n, lastFailure |-> 1]
IsCounter(stored) == "counter" \in DOMAIN stored

Smaller(x, y) == IF x < y THEN x ELSE y

NormalizeCircuitBreakerState(stored, now) ==
  IF IsCounter(stored)
  THEN [ClosedBreaker EXCEPT !.failures =
          [i \in 1..Smaller(stored.counter, FailureThreshold) |->
             IF stored.lastFailure = 0 THEN now ELSE stored.lastFailure]]
  ELSE stored

\* Those of a list of failures that are still in the window.
Within(failures, now) ==
  LET kept[k \in 0..Len(failures)] ==
        IF k = 0 THEN <<>>
        ELSE IF now - failures[k] < WindowMs THEN Append(kept[k - 1], failures[k])
        ELSE kept[k - 1]
  IN  kept[Len(failures)]

Pruned(st, now) == [st EXCEPT !.failures = Within(@, now)]

Opened(st, now) ==
  [failures |-> st.failures, open |-> TRUE, openedAt |-> now,
   halfOpen |-> FALSE, probeStartedAt |-> 0]

\* What a circuitBreaker step leaves on the window and whether it lets the
\* rule go on.  `how` is "gate", "failed" (record: true) or "worked"
\* (record: false).
Probe(st, how, now) ==
  IF how = "failed"
  THEN [state |-> Opened([st EXCEPT !.failures = <<now>>], now), pass |-> FALSE]
  ELSE [state |-> [failures |-> <<>>, open |-> FALSE, openedAt |-> 0,
                   halfOpen |-> TRUE, probeStartedAt |-> now],
        pass |-> TRUE]

\* A slip: a failed probe is counted like any other failure.
HalfOpenCounts(st, how, now) ==
  [state |-> IF how = "failed"
             THEN [ClosedBreaker EXCEPT !.failures = <<now>>] ELSE ClosedBreaker,
   pass |-> TRUE]

HalfOpen(st, how, now) ==
  IF how = "failed"
  THEN [state |-> Opened([st EXCEPT !.failures = <<now>>], now), pass |-> FALSE]
  ELSE [state |-> ClosedBreaker, pass |-> TRUE]

Cooling(st, now) == now - st.openedAt < CooldownMs

HandleCircuitBreaker(stored, how, now) ==
  LET st   == Pruned(NormalizeCircuitBreakerState(stored, now), now)
      more == [st EXCEPT !.failures = Append(@, now)]
  IN  CASE st.open /\ Cooling(st, now) ->
             [state |-> st, pass |-> FALSE]
        [] st.open /\ ~Cooling(st, now) -> Probe(st, how, now)
        [] ~st.open /\ st.halfOpen -> HalfOpen(st, how, now)
        [] OTHER ->
             IF how # "failed" THEN [state |-> st, pass |-> TRUE]
             ELSE IF Len(more.failures) >= FailureThreshold
                  THEN [state |-> Opened(more, now), pass |-> FALSE]
                  ELSE [state |-> more, pass |-> TRUE]

NoQuota == [count |-> 0, resetAt |-> 0]

\* The counter once a window that is over is forgotten.
Renewed(q, now) ==
  IF q.resetAt # 0 /\ now > q.resetAt
  THEN [count |-> 0, resetAt |-> now + QuotaMs] ELSE q

\* One more, and the window it is counted in.
Counted(q, now) ==
  [count |-> q.count + 1,
   resetAt |-> IF q.resetAt = 0 THEN now + QuotaMs ELSE q.resetAt]

BranchAt(a, pc) == branch[a].pc = pc

FreshBranch(pc) == [pc |-> pc, since |-> 0]

\* A branch that was refused: the step's error policy repeats the round or
\* ends the run.
Thrown(a) == \E pc \in {"gate", "over"} : branch' = [branch EXCEPT ![a] = FreshBranch(pc)]

\* The breaker before the operation.
Gate(a) ==
  /\ BranchAt(a, "gate")
  /\ ghost.rounds < MaxRounds
  /\ LET tab == TabOf[a]
         out == HandleCircuitBreaker(breakers[tab], "gate", clock)
     IN  /\ breakers' = [breakers EXCEPT ![tab] = out.state]
         /\ IF out.pass
            THEN branch' = [branch EXCEPT ![a] = [pc |-> "quota", since |-> clock]]
                 /\ ghost' = [ghost EXCEPT !.rounds = @ + 1]
            ELSE Thrown(a) /\ UNCHANGED ghost
  /\ UNCHANGED <<quota, policy, clock>>

\* The quota: within it the branch goes on and is counted; past it the step
\* waits for the window to end, throws, or does nothing.
CheckQuota(a) ==
  /\ BranchAt(a, "quota")
  /\ LET q == Renewed(quota, clock) IN
     \/ /\ q.count + 1 <= Limit
        /\ quota' = Counted(q, clock)
        /\ branch' = [branch EXCEPT ![a].pc = "op"]
        /\ ghost' = [ghost EXCEPT !.admitted = Append(@, clock)]
     \/ /\ q.count + 1 > Limit
        /\ CASE policy = "fail" -> Thrown(a)
             [] policy = "skip" -> branch' = [branch EXCEPT ![a].pc = "op"]
             [] policy = "wait" ->
                  branch' = [branch EXCEPT ![a] =
                    [pc |-> "waiting", since |-> branch[a].since, kept |-> Counted(q, clock),
                     until |-> IF q.resetAt > clock THEN q.resetAt ELSE clock + 1]]
        /\ UNCHANGED <<quota, ghost>>
  /\ UNCHANGED <<breakers, policy, clock>>

\* The sleep is over: the branch writes the counter it read before it, one higher,
\* and goes on.
QuotaWaited(a) ==
  /\ BranchAt(a, "waiting")
  /\ clock >= branch[a].until
  /\ quota' = branch[a].kept
  /\ branch' = [branch EXCEPT ![a] = [pc |-> "op", since |-> branch[a].since]]
  /\ UNCHANGED <<breakers, policy, clock, ghost>>

Tripped(stored) == ~IsCounter(stored) /\ (stored.open \/ stored.halfOpen)

\* A breaker that is half-open, or would be at the next gate.
Probing(stored, now) == Tripped(stored) /\ (stored.halfOpen \/ ~Cooling(stored, now))

Trips(out) == out.state.open /\ out.state.openedAt = clock

\* The report: what the breaker makes of it, and what the ghost remembers.
Reported(a, how) ==
  LET tab == TabOf[a]
      out == HandleCircuitBreaker(breakers[tab], how, clock)
  IN  /\ breakers' = [breakers EXCEPT ![tab] = out.state]
      /\ ghost' = [ghost EXCEPT
                     !.reports[tab] = IF how = "failed" THEN Append(@, clock) ELSE @,
                     !.opened[tab] = IF Trips(out) THEN clock ELSE @,
                     !.again[tab] = IF Trips(out) THEN Tripped(breakers[tab]) ELSE @,
                     !.probed[tab] =
                       IF how = "failed" /\ Probing(breakers[tab], clock) THEN clock ELSE @]
      /\ IF out.pass THEN branch' = [branch EXCEPT ![a] = FreshBranch("gate")] ELSE Thrown(a)

\* The operation worked; the rule reports it, or has no step that does.
OperationWorks(a) ==
  /\ BranchAt(a, "op")
  /\ \/ Reported(a, "worked")
     \/ /\ branch' = [branch EXCEPT ![a] = FreshBranch("gate")]
        /\ UNCHANGED <<breakers, ghost>>
  /\ UNCHANGED <<quota, policy, clock>>

OperationFails(a) ==
  /\ BranchAt(a, "op")
  /\ Reported(a, "failed")
  /\ UNCHANGED <<quota, policy, clock>>

\* The operation meets a captcha: without a provider the step throws, with
\* fallbackToHuman it asks.
SolveCaptcha(a) ==
  /\ BranchAt(a, "op")
  /\ \/ branch' = [branch EXCEPT ![a].pc = "human"]
     \/ Thrown(a)
  /\ UNCHANGED <<breakers, quota, policy, clock, ghost>>

\* The operator's answer: the steps after an approval run and the operation
\* goes on; a transport that cannot ask, an answer that is not an approval,
\* a timeout and a failed step all throw.
HandleRequestHuman(a) ==
  /\ BranchAt(a, "human")
  /\ \/ branch' = [branch EXCEPT ![a].pc = "op"]
     \/ Thrown(a)
  /\ UNCHANGED <<breakers, quota, policy, clock, ghost>>

\* The tab navigates: its window and the breakers on it are gone, and the
\* branches in it start their round again.
Navigates(tab) ==
  /\ \E a \in Actors : TabOf[a] = tab /\ BranchAt(a, "op")
  /\ breakers' = [breakers EXCEPT ![tab] = ClosedBreaker]
  /\ branch' = [a \in Actors |->
                  IF TabOf[a] = tab /\ ~BranchAt(a, "over")
                  THEN FreshBranch("gate") ELSE branch[a]]
  /\ ghost' = [ghost EXCEPT !.reports[tab] = <<>>, !.opened[tab] = 0,
                            !.again[tab] = FALSE, !.probed[tab] = 0]
  /\ UNCHANGED <<quota, policy, clock>>

ClockTicks ==
  /\ clock < MaxTime
  /\ clock' = clock + 1
  /\ UNCHANGED <<breakers, quota, branch, policy, ghost>>

GuardsRest ==
  /\ breakers = [t \in Tabs |-> ClosedBreaker]
  /\ quota = NoQuota
  /\ branch = [a \in Actors |-> FreshBranch("over")]
  /\ policy = "fail" /\ clock = MaxTime
  /\ ghost = [reports |-> [t \in Tabs |-> <<>>], opened |-> [t \in Tabs |-> 0],
              again |-> [t \in Tabs |-> FALSE],
              probed |-> [t \in Tabs |-> 0], admitted |-> <<>>, rounds |-> 0]

GuardsInit ==
  /\ \E n \in Counters :
       /\ breakers = [t \in Tabs |-> IF n = 0 THEN ClosedBreaker ELSE Unread(n)]
       /\ ghost = [reports |-> [t \in Tabs |-> [i \in 1..n |-> 1]],
                   opened |-> [t \in Tabs |-> 0],
                   again |-> [t \in Tabs |-> FALSE],
                   probed |-> [t \in Tabs |-> 0], admitted |-> <<>>, rounds |-> 0]
  /\ quota = NoQuota
  /\ branch = [a \in Actors |-> FreshBranch("gate")]
  /\ policy \in Policies
  /\ clock = 1

GuardsNext ==
  \/ \E a \in Actors : \/ Gate(a)
                       \/ CheckQuota(a)
                       \/ QuotaWaited(a)
                       \/ OperationWorks(a)
                       \/ OperationFails(a)
                       \/ SolveCaptcha(a)
                       \/ HandleRequestHuman(a)
  \/ \E tab \in Tabs : Navigates(tab)
  \/ ClockTicks

GuardWait(a) == QuotaWaited(a) \/ HandleRequestHuman(a)
GuardsFairness == WF_guardVars(ClockTicks) /\ \A a \in Actors : WF_guardVars(GuardWait(a))

GuardsSpec == GuardsInit /\ [][GuardsNext]_guardVars /\ GuardsFairness
-----------------------------------------------------------------------------
\* Types, and that a breaker is never open and half-open at once.
GuardsTypeOK ==
  /\ \A t \in Tabs :
       \/ IsCounter(breakers[t])
       \/ breakers[t] \in CircuitBreakerState
          /\ ~(breakers[t].open /\ breakers[t].halfOpen)
          /\ (breakers[t].open \/ Len(breakers[t].failures) < FailureThreshold + Cardinality(Actors))
  /\ quota.count \in Nat /\ (policy # "wait" => quota.count <= Limit)
  /\ clock \in 1..MaxTime /\ policy \in Policies

\* Failures reported in the last WindowMs up to time t.
Recent(seq, t) == Cardinality({i \in DOMAIN seq : seq[i] <= t /\ t - seq[i] < WindowMs})

\* A breaker opens for a cause: when it opened, FailureThreshold failures had been
\* reported within WindowMs, or it had not closed since it opened before (a
\* failure after the cooldown is a failed probe, whoever reports it).  The
\* code's state keeps only the pruned list; the ghost keeps every report.
OpensForCause ==
  \A t \in Tabs :
    ghost.opened[t] # 0 =>
      \/ Recent(ghost.reports[t], ghost.opened[t]) >= FailureThreshold
      \/ ghost.again[t]

\* An open breaker admits nobody: an operation under way was let through
\* before the breaker of its tab last opened, or after its cooldown.
RefusedWhileOpen ==
  \A a \in Actors :
    BranchAt(a, "op") => LET o == ghost.opened[TabOf[a]] IN
      o = 0 \/ branch[a].since <= o \/ branch[a].since >= o + CooldownMs

\* A failure reported while a breaker is half-open, or past its cooldown, reopens it
\* at once for a full cooldown, however few failures the window holds.  (One that
\* comes when another failure has reopened it already changes nothing.)
ProbeFailureReopens ==
  \A t \in Tabs :
    (ghost.probed[t] # 0 /\ clock < ghost.probed[t] + CooldownMs) => breakers[t].open

\* The quota is kept across tabs: with `fail`, 2 * Limit operations that
\* follow each other never fall within QuotaMs (a full window may end and the
\* next one begin, but neither holds more than Limit).
QuotaKept ==
  policy = "fail" =>
    \A i \in DOMAIN ghost.admitted :
      LET j == i + 2 * Limit - 1 IN
      j \in DOMAIN ghost.admitted => ghost.admitted[j] - ghost.admitted[i] > QuotaMs

\* The gates that tabs share: types hold, a breaker opens for a cause, refuses
\* while open, reopens on a failed probe, and the quota is kept.
GuardsHold ==
  /\ GuardsTypeOK
  /\ OpensForCause
  /\ RefusedWhileOpen
  /\ ProbeFailureReopens
  /\ QuotaKept

=============================================================================
