------------------------------ MODULE LLMBudget ------------------------------
(***************************************************************************)
(* Completions under an enforced LLM policy: what Orchestrator does between *)
(* a request and the provider's answer, and the budget ledger that admits,  *)
(* marks and settles every physical call (tables llm_budget_reservations    *)
(* and dsl_workflows).                                                      *)
(*                                                                          *)
(* A ledger operation is one BEGIN IMMEDIATE transaction, hence one step; a *)
(* completion goes through several, other completions run between them, the *)
(* process may stop at any point, and any of them may fail: before it has   *)
(* had an effect, or after it, when the outcome of COMMIT is lost.          *)
(***************************************************************************)
EXTENDS Integers, FiniteSets, Functions

CONSTANTS
  Calls,            \* completions the server is asked for
  Operations,       \* dispatch identities without their ordinal
  OperationOf,      \* the operation of each call; two calls of one are a repeat
  Workspaces,       \* workspaces with a configured budget
  WorkspaceOf,      \* workspace of each operation
  Workflows,        \* DSL workflows
  NoWorkflow,       \* workflow of an operation that is not a DSL one
  WorkflowOf,       \* workflow of each operation
  Routes,           \* configured routes: {"primary"} or {"primary", "fallback"}
  RateUnit,         \* tokens a rate prices
  Rates,            \* of each route: USD nanos per RateUnit
  Caps,             \* of each route: token ceilings of one call
  Usages,           \* names of the usage a provider may report with its answer
  UsageOf,          \* the tokens reported, by name
  GlobalRequest,    \* GlobalMaxRequestUSD
  GlobalDaily,      \* GlobalDailyBudgetUSD
  WorkspaceRequest, \* MaxRequestUSD of each workspace
  WorkspaceDaily,   \* DailyBudgetUSD of each workspace
  Envelope,         \* budget_usd_nanos of each workflow
  CallMaxRetries,   \* LLMCallMaxRetries
  MaxDay            \* bound: the last day of a run

Days == 0..MaxDay

ASSUME ShapeAssumption ==
  /\ IsFiniteSet(Operations)
  /\ OperationOf \in [Calls -> Operations]
  /\ WorkspaceOf \in [Operations -> Workspaces]
  /\ WorkflowOf \in [Operations -> Workflows \cup {NoWorkflow}]
  /\ NoWorkflow \notin Workflows
  /\ Routes \in SUBSET {"primary", "fallback"}
  /\ "primary" \in Routes
  /\ Usages \cap {"missing", "violation", "unavailable", "failed", "none"} = {}

ASSUME PriceAssumption ==
  /\ RateUnit \in Nat \ {0}
  /\ Rates \in [Routes -> [input : Nat, cached : Nat, output : Nat]]
  /\ Caps \in [Routes -> [input : Nat \ {0}, output : Nat \ {0}]]
  /\ UsageOf \in [Usages -> [uncached : Nat, cached : Nat, output : Nat, reported : BOOLEAN]]
  /\ \A u \in Usages : UsageOf[u].cached > 0 => UsageOf[u].reported

ASSUME LimitsAssumption ==
  /\ GlobalRequest \in Nat /\ GlobalDaily \in Nat
  /\ WorkspaceRequest \in [Workspaces -> Nat]
  /\ WorkspaceDaily \in [Workspaces -> Nat]
  /\ Envelope \in [Workflows -> Nat]
  /\ CallMaxRetries \in Nat
  /\ MaxDay \in Nat

-----------------------------------------------------------------------------
(* Prices, in USD nanos.                                                    *)

\* ceil(tokens * rate / RateUnit).  An int64 overflow makes a route unpriceable, and
\* no call of it is admitted.
CategoryCost(tokens, rate) ==
  (tokens * rate) \div RateUnit + (IF (tokens * rate) % RateUnit = 0 THEN 0 ELSE 1)

HigherInputRate(r) ==
  IF Rates[r].cached > Rates[r].input THEN Rates[r].cached ELSE Rates[r].input

\* A slip: no headroom for the two input categories rounding apart.
ReservationWithoutHeadroom(r) ==
  CategoryCost(Caps[r].input, HigherInputRate(r)) + CategoryCost(Caps[r].output, Rates[r].output)

\* The worst case of one call on a route.
Reservation(r) ==
  CategoryCost(Caps[r].input, HigherInputRate(r)) + CategoryCost(Caps[r].output, Rates[r].output) + 1

SettledCost(r, u) ==
  CategoryCost(u.output, Rates[r].output) +
  (IF u.reported
   THEN CategoryCost(u.uncached, Rates[r].input) + CategoryCost(u.cached, Rates[r].cached)
   ELSE CategoryCost(u.uncached + u.cached, HigherInputRate(r)))

ValidateUsage(r, u) ==
  /\ u.uncached + u.cached <= Caps[r].input
  /\ u.output <= Caps[r].output

-----------------------------------------------------------------------------
Open == {"reserved", "possibly_dispatched"}
Dispatched == {"possibly_dispatched", "settled", "usage_uncertain"}
Terminal == {"released", "settled", "usage_uncertain"}
EntryStates == {"none"} \cup Open \cup Terminal

Identities == Operations \X Routes

\* What a provider call may come to besides an answer with usage: an answer without
\* usage, an answer whose usage contradicts the price vocabulary, a failure that
\* permits the fallback, any other failure.
Faults == {"missing", "violation", "unavailable", "failed"}

NoAnswer == "none"

Steps == {"new", "reserve", "check", "mark", "release", "send", "settle", "spend", "done"}

VARIABLES
  day,     \* the ledger clock's UTC day
  entry,   \* llm_budget_reservations by identity: state, budget_day, settled amount
  spent,   \* dsl_workflows.spent_usd_nanos
  closed,  \* routes closed in process memory
  call,    \* the completions: step, route, retries used and the provider's answer
  sends    \* requests that reached the network, by identity

vars == <<day, entry, spent, closed, call, sends>>

\* Type invariant: the ledger's rows, the envelopes and the calls hold values of
\* their types, and nothing is sent for an identity beyond the retries of one call.
TypeOK ==
  /\ day \in Days
  /\ entry \in [Identities -> [state : EntryStates, day : Days, settled : Nat]]
  /\ spent \in [Workflows -> Nat]
  /\ closed \in SUBSET Routes
  /\ call \in [Calls -> [pc : Steps, route : Routes, tries : 0..CallMaxRetries,
                         answer : Usages \cup Faults \cup {NoAnswer}]]
  /\ sends \in [Identities -> 0..(CallMaxRetries + 1)]

Init ==
  /\ day = 0
  /\ entry = [i \in Identities |-> [state |-> "none", day |-> 0, settled |-> 0]]
  /\ spent = [f \in Workflows |-> 0]
  /\ closed = {}
  /\ call = [c \in Calls |-> [pc |-> "new", route |-> "primary", tries |-> 0, answer |-> NoAnswer]]
  /\ sends = [i \in Identities |-> 0]

Id(c) == <<OperationOf[c], call[c].route>>
Workspace(i) == WorkspaceOf[i[1]]
Workflow(i) == WorkflowOf[i[1]]

\* Call c goes on at step s.
Goto(c, s) == call' = [call EXCEPT ![c].pc = s]

-----------------------------------------------------------------------------
(* The ledger.                                                              *)

\* What each entry takes from the caps of its day.
Counted ==
  [i \in Identities |->
     CASE entry[i].state \in Open -> Reservation(i[2])
       [] entry[i].state \in {"settled", "usage_uncertain"} -> entry[i].settled
       [] OTHER -> 0]

CountedOn(d) == [i \in Identities |-> IF entry[i].day = d THEN Counted[i] ELSE 0]

CountedForDay(d, S) == SumFunctionOnSet(CountedOn(d), S)

OfWorkspace(w) == {i \in Identities : Workspace(i) = w}
OfWorkflow(f) == {i \in Identities : Workflow(i) = f}

CheckRequestCaps(i) ==
  /\ Reservation(i[2]) <= GlobalRequest
  /\ Reservation(i[2]) <= WorkspaceRequest[Workspace(i)]

\* A slip: the day is only asked whether its budget is used up already.
CheckDailyCapsBefore(i) ==
  /\ CountedForDay(day, Identities) < GlobalDaily
  /\ CountedForDay(day, OfWorkspace(Workspace(i))) < WorkspaceDaily[Workspace(i)]

CheckDailyCaps(i) ==
  /\ CountedForDay(day, Identities) + Reservation(i[2]) <= GlobalDaily
  /\ CountedForDay(day, OfWorkspace(Workspace(i))) + Reservation(i[2])
       <= WorkspaceDaily[Workspace(i)]

\* Reserve accepts: the request caps, an identity never seen, the daily caps.
Admits(i) ==
  /\ CheckRequestCaps(i)
  /\ entry[i].state = "none"
  /\ CheckDailyCaps(i)

InsertEntry(i) == entry' = [entry EXCEPT ![i] = [state |-> "reserved", day |-> day, settled |-> 0]]

\* The UPDATEs, which leave an entry in any other state alone.
MarkEntry(i) ==
  entry' = IF entry[i].state = "reserved"
           THEN [entry EXCEPT ![i].state = "possibly_dispatched"] ELSE entry

ReleaseEntry(i) ==
  entry' = IF entry[i].state = "reserved" THEN [entry EXCEPT ![i].state = "released"] ELSE entry

SettleEntry(i, s, amount) ==
  entry' = IF entry[i].state = "possibly_dispatched" /\ amount <= Reservation(i[2])
           THEN [entry EXCEPT ![i] = [entry[i] EXCEPT !.state = s, !.settled = amount]]
           ELSE entry

\* A slip: everything open is released.
ReconciledAllReleased(e) ==
  [i \in Identities |-> IF e[i].state \in Open THEN [e[i] EXCEPT !.state = "released"] ELSE e[i]]

\* Recover: what never left is released, what may have left is charged in full.
Reconciled(e) ==
  [i \in Identities |->
     CASE e[i].state = "reserved" -> [e[i] EXCEPT !.state = "released"]
       [] e[i].state = "possibly_dispatched" ->
            [e[i] EXCEPT !.state = "usage_uncertain", !.settled = Reservation(i[2])]
       [] OTHER -> e[i]]

-----------------------------------------------------------------------------
(* A completion: completeEnforced and dispatchAdmitted.                     *)

\* The cache answers.
CacheHit(c) ==
  /\ call[c].pc = "new"
  /\ "primary" \notin closed
  /\ Goto(c, "done")
  /\ UNCHANGED <<day, entry, spent, closed, sends>>

CacheMiss(c) ==
  /\ call[c].pc = "new"
  /\ "primary" \notin closed
  /\ Goto(c, "reserve")
  /\ UNCHANGED <<day, entry, spent, closed, sends>>

\* RouteReady: a closed route is an error that permits no fallback.
RouteClosed(c) ==
  /\ call[c].pc \in {"new", "reserve"}
  /\ call[c].route \in closed
  /\ Goto(c, "done")
  /\ UNCHANGED <<day, entry, spent, closed, sends>>

Reserve(c) ==
  /\ call[c].pc = "reserve"
  /\ call[c].route \notin closed
  /\ Admits(Id(c))
  /\ InsertEntry(Id(c))
  /\ Goto(c, "check")
  /\ UNCHANGED <<day, spent, closed, sends>>

\* Denied, a duplicate, or no answer from the ledger: in every case no call is made.
\* When COMMIT was executed and its answer lost, the entry is there all the same.
ReserveRefused(c, committed) ==
  /\ call[c].pc = "reserve"
  /\ call[c].route \notin closed
  /\ IF committed THEN Admits(Id(c)) /\ InsertEntry(Id(c)) ELSE UNCHANGED entry
  /\ Goto(c, "done")
  /\ UNCHANGED <<day, spent, closed, sends>>

\* CheckAndReserveWorkflowBudget, which reads and reserves nothing.
CheckEnvelope(c) ==
  LET f == Workflow(Id(c))
  IN /\ call[c].pc = "check"
     /\ f # NoWorkflow => spent[f] + Reservation(call[c].route) <= Envelope[f]
     /\ Goto(c, "mark")
     /\ UNCHANGED <<day, entry, spent, closed, sends>>

\* The envelope is used up, or could not be read.
EnvelopeRefuses(c) ==
  /\ call[c].pc = "check"
  /\ Workflow(Id(c)) # NoWorkflow
  /\ Goto(c, "release")
  /\ UNCHANGED <<day, entry, spent, closed, sends>>

MarkPossiblyDispatched(c) ==
  /\ call[c].pc = "mark"
  /\ entry[Id(c)].state \in Open
  /\ MarkEntry(Id(c))
  /\ Goto(c, "send")
  /\ UNCHANGED <<day, spent, closed, sends>>

\* The entry is not open any more, or the ledger did not answer; the marker may have
\* been written all the same.
MarkFails(c, committed) ==
  /\ call[c].pc = "mark"
  /\ IF committed THEN MarkEntry(Id(c)) ELSE UNCHANGED entry
  /\ Goto(c, "release")
  /\ UNCHANGED <<day, spent, closed, sends>>

\* Release, on a context of its own; a failure is logged.
Release(c, committed) ==
  /\ call[c].pc = "release"
  /\ IF committed THEN ReleaseEntry(Id(c)) ELSE UNCHANGED entry
  /\ Goto(c, "done")
  /\ UNCHANGED <<day, spent, closed, sends>>

\* completeProviderWithRetry: one request to the provider.  Every failure is tried
\* again while retries are left, except that of recording the exchange.
Send(c, answer) ==
  LET retry == /\ answer \in {"unavailable", "failed"}
               /\ call[c].tries < CallMaxRetries
  IN /\ call[c].pc = "send"
     /\ sends' = [sends EXCEPT ![Id(c)] = @ + 1]
     /\ \/ retry /\ call' = [call EXCEPT ![c].tries = @ + 1]
        \/ /\ ~retry \/ answer = "failed"
           /\ call' = [call EXCEPT ![c] = [call[c] EXCEPT !.pc = "settle", !.answer = answer]]
     /\ UNCHANGED <<day, entry, spent, closed>>

Trusted(c) == call[c].answer \in Usages /\ ValidateUsage(call[c].route, UsageOf[call[c].answer])

\* What a call is charged.
Charge(c) ==
  IF Trusted(c) THEN SettledCost(call[c].route, UsageOf[call[c].answer]) ELSE Reservation(call[c].route)

\* settleAdmitted: trusted usage settles at its cost, anything else in full, and a
\* broken usage contract closes the route.  A failure is logged, and the entry stays.
Settle(c, committed) ==
  /\ call[c].pc = "settle"
  /\ IF committed
     THEN SettleEntry(Id(c), IF Trusted(c) THEN "settled" ELSE "usage_uncertain", Charge(c))
     ELSE UNCHANGED entry
  /\ closed' = IF call[c].answer = "violation" \/ (call[c].answer \in Usages /\ ~Trusted(c))
               THEN closed \cup {call[c].route} ELSE closed
  /\ Goto(c, "spend")
  /\ UNCHANGED <<day, spent, sends>>

\* A primary that was unavailable is followed by the fallback, if the caller allows
\* it (Complete does, CompleteOnce does not).
AfterSpend(c, fallback) ==
  IF fallback
  THEN /\ call[c].answer = "unavailable" /\ call[c].route = "primary" /\ "fallback" \in Routes
       /\ call' = [call EXCEPT ![c] = [pc |-> "reserve", route |-> "fallback", tries |-> 0,
                                       answer |-> NoAnswer]]
  ELSE call' = [call EXCEPT ![c] = [call[c] EXCEPT !.pc = "done", !.tries = 0, !.answer = NoAnswer]]

AddWorkflowSpend(c, fallback) ==
  LET f == Workflow(Id(c))
  IN /\ call[c].pc = "spend"
     /\ f # NoWorkflow
     /\ spent' = [spent EXCEPT ![f] = @ + Charge(c)]
     /\ AfterSpend(c, fallback)
     /\ UNCHANGED <<day, entry, closed, sends>>

\* There is no envelope, or the update failed and is logged.
SkipWorkflowSpend(c, fallback) ==
  /\ call[c].pc = "spend"
  /\ AfterSpend(c, fallback)
  /\ UNCHANGED <<day, entry, spent, closed, sends>>

-----------------------------------------------------------------------------
(* Midnight UTC, and processes that start.                                  *)

NewDay ==
  /\ day < MaxDay
  /\ day' = day + 1
  /\ UNCHANGED <<entry, spent, closed, call, sends>>

\* activateBudgetLedger of another process on the same database.
Recover ==
  /\ \E i \in Identities : entry[i].state \in Open
  /\ entry' = Reconciled(entry)
  /\ UNCHANGED <<day, spent, closed, call, sends>>

\* The process stops, and the next one reconciles before it serves anything.
Restart ==
  /\ \E c \in Calls : call[c].pc \notin {"new", "done"}
  /\ call' = [c \in Calls |-> IF call[c].pc = "new" THEN call[c]
       ELSE [call[c] EXCEPT !.pc = "done", !.tries = 0, !.answer = NoAnswer]]
  /\ entry' = Reconciled(entry)
  /\ closed' = {}
  /\ UNCHANGED <<day, spent, sends>>

Complete(c) ==
  \/ CacheHit(c) \/ CacheMiss(c) \/ RouteClosed(c)
  \/ Reserve(c) \/ CheckEnvelope(c) \/ EnvelopeRefuses(c) \/ MarkPossiblyDispatched(c)
  \/ \E committed \in BOOLEAN :
       ReserveRefused(c, committed) \/ MarkFails(c, committed)
         \/ Release(c, committed) \/ Settle(c, committed)
  \/ \E answer \in Usages \cup Faults : Send(c, answer)
  \/ \E fallback \in BOOLEAN : AddWorkflowSpend(c, fallback) \/ SkipWorkflowSpend(c, fallback)

Next == NewDay \/ Recover \/ Restart \/ \E c \in Calls : Complete(c)

Spec == Init /\ [][Next]_vars

-----------------------------------------------------------------------------
(* Correctness.                                                             *)

\* No day's entries ever take more than the global cap and that of their workspace,
\* however admissions, settlements, reconciliation and midnight interleave.
DailyCapsKept ==
  \A d \in Days :
    /\ CountedForDay(d, Identities) <= GlobalDaily
    /\ \A w \in Workspaces : CountedForDay(d, OfWorkspace(w)) <= WorkspaceDaily[w]

\* Whatever may have reached the provider keeps counting: an identity for which a
\* request was sent is marked, settled or uncertain, never reserved or given back,
\* through lost commits, a restart, and another process reconciling meanwhile.
SentIsCounted ==
  \A i \in Identities : sends[i] > 0 => entry[i].state \in Dispatched

\* Every request sent for an identity was sent by the one call that may still send:
\* a repeat of an operation never sends again what was or may have been sent.
NoRedispatch ==
  \A c \in Calls :
    /\ call[c].pc = "send" => sends[Id(c)] = call[c].tries
    /\ call[c].pc \in {"check", "mark"} => sends[Id(c)] = 0

\* A workflow is never charged what the ledger does not count for its calls, even if
\* the ledger refused the settlement or somebody else made it first.
SpendIsLedgered ==
  \A f \in Workflows : spent[f] <= SumFunctionOnSet(Counted, OfWorkflow(f))

\* Usage within a route's caps never costs more than its reservation: SettleTrusted
\* never has to refuse a trusted answer.
TrustedCostFits ==
  \A c \in Calls :
    call[c].pc = "settle" /\ Trusted(c) => Charge(c) <= Reservation(call[c].route)

\* The ledger's amounts: types hold, every day's caps are kept, and no workflow is
\* charged what the ledger does not count.
LedgerIsSound ==
  /\ TypeOK
  /\ DailyCapsKept
  /\ SpendIsLedgered

\* Requests and rows agree: what may have been sent stays counted and is not sent
\* again, whatever was lost or restarted.
DispatchIsAccounted ==
  /\ SentIsCounted
  /\ NoRedispatch

=============================================================================
