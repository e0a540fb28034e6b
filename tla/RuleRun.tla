------------------------------- MODULE RuleRun -------------------------------
(***************************************************************************)
(* One run of a rule in a Chromium page of the worker host: the page       *)
(* driver (worker-host/page-driver.ts), the runtime it injects             *)
(* (worker-page/entry.ts) and the rule executor inside it                  *)
(* (scriptcat-engine/executor.ts, executor-utils.ts, step-path.ts).        *)
(*                                                                         *)
(* A JavaScript realm dies whenever the page navigates.  What survives is  *)
(* the light state in sessionStorage (`session') and the context the host  *)
(* was told of (`host.checkpoint'), which travels as a message of its own. *)
(* The runtime injected into the next page resumes after the step named    *)
(* by `session'.  Steps form a tree; a path names a position in it.        *)
(***************************************************************************)
EXTENDS Integers, Sequences

CONSTANTS
  Rules,        \* the rules a task may carry
  StepKind,     \* what a step is: "leaf", a container, or a signal
  WhileLoops,   \* loops that ask the page before each iteration
  Navigating,   \* steps for which actionMayNavigate holds
  Target,       \* the page an explicit navigate goes to, or NoPage
  OnError,      \* step.onError of a leaf
  MaxAttempts,  \* retry.maxAttempts of a leaf
  Pages,        \* pages a navigation can end on
  Entry,        \* the page of rule.entry
  HostOf,       \* origin of a page
  InDomain,     \* pages whose host rule.domain covers
  NoPage,
  SamePage,     \* Target of a reload
  HopLimit,     \* navigationHopLimit
  MaxWire,      \* bound: bridge calls in flight
  MaxNavs       \* bound: navigations in a behaviour

Kinds == {"leaf", "break", "continue", "exit", "if", "loop", "switch", "group"}
HookPhases == {"beforeAll", "afterAll", "onError", "cleanup"}

\* The steps of a rule; a container has the lists of its branches, cases or body.
Containers == {"if", "loop", "switch", "group"}
StepsOf(r) == {s \in DOMAIN StepKind : StepKind[s] \in Containers => s \in DOMAIN r.body}
Selectors(s, D) ==
  CASE StepKind[s] = "if" -> D = {0, 1}
    [] StepKind[s] = "switch" -> -1 \in D /\ D \subseteq {-1} \cup Nat
    [] OTHER -> D = {0}
WellFormed(r) ==
  /\ r.hooks \subseteq HookPhases
  /\ r.top \in Seq(StepsOf(r))
  /\ \A s \in DOMAIN r.body \cap StepsOf(r) :
       /\ Selectors(s, DOMAIN r.body[s])
       /\ \A c \in DOMAIN r.body[s] : r.body[s][c] \in Seq(StepsOf(r))
  /\ \A s \in StepsOf(r) : StepKind[s] = "loop" => r.count[s] \in Nat

ASSUME RuleRunAssumption ==
  /\ Entry \in InDomain /\ InDomain \subseteq Pages /\ NoPage \notin Pages
  /\ \A p \in InDomain, q \in Pages : HostOf[p] = HostOf[q] => q \in InDomain
  /\ \A r \in Rules : WellFormed(r)
  /\ SamePage \notin Pages \cup {NoPage}
  /\ HopLimit \in Nat /\ MaxNavs \in Nat /\ MaxWire \in Nat \ {0}
  /\ \A s \in DOMAIN StepKind : StepKind[s] \in Kinds

VARIABLES
  rule,      \* the rule of the task
  pc,        \* where the executor of the current realm is; "none": no run in this page
  stack,     \* the runSteps calls in progress, outermost first
  attempt,   \* attempts of the leaf that runs
  outcome,   \* status and fatalError of runRule
  ctx,       \* leaves whose output is in ctx.extracted
  aborted,   \* activeAbort of the realm was aborted
  resumeAt,  \* resumeStepPath of this call of runRule
  page,      \* location.href
  session,   \* WorkerRunState in sessionStorage, or NoSession
  wire,      \* bridge calls on their way to the host
  host,      \* the page driver's state
  navs,      \* navigations so far
  lateHook,  \* history: a hook after the main steps has written a checkpoint ("written"),
             \* and a page has resumed from it ("rerun")
  outputs,   \* history: paths of the leaves that left output in the context
  completed  \* history: paths of the leaves that were completed or left the page

realm == <<pc, stack, attempt, outcome, ctx, aborted, resumeAt>>
history == <<rule, lateHook, outputs, completed>>
vars == <<rule, lateHook, pc, stack, attempt, outcome, ctx, aborted, resumeAt, page, session, wire,
          host, navs, outputs, completed>>

\* rule.steps, the steps of a container for each value of its selector, the iterations
\* of a loop (count, items.length, at most maxIterations) and the declared hooks.
Top == rule.top
Body == rule.body
LoopCount == rule.count
Hooks == rule.hooks

NoSession == [path |-> <<>>, url |-> NoPage, policy |-> "none", status |-> "none"]
NoCheckpoint == [type |-> "none", realm |-> 0, path |-> <<>>, ctx |-> {}]
Statuses == {"success", "failure", "cancelled"}

-----------------------------------------------------------------------------
(* Step paths.                                                              *)

Frame(kind, sel, i) == [kind |-> kind, sel |-> sel, idx |-> i]

KindRank(k) == CASE k = "top" -> 0 [] k = "if" -> 1 [] k = "loop" -> 2
                 [] k = "switch" -> 3 [] k = "group" -> 4

\* compareFrame and frameTuple: kind, then branch, iteration or case, then child.
FrameLess(a, b) ==
  \/ KindRank(a.kind) < KindRank(b.kind)
  \/ a.kind = b.kind /\ (a.sel < b.sel \/ (a.sel = b.sel /\ a.idx < b.idx))

\* comparePath(a, b) < 0.
PathLess(a, b) ==
  \E n \in 1..Len(b) :
    /\ \A m \in 1..(n - 1) : m <= Len(a) /\ a[m] = b[m]
    /\ n > Len(a) \/ FrameLess(a[n], b[n])

NextPendingPath(p) ==
  IF p = <<>> THEN <<Frame("top", 0, 0)>> ELSE [p EXCEPT ![Len(p)].idx = @ + 1]

PrevPendingPath(p) ==
  IF p = <<>> THEN <<>> ELSE [p EXCEPT ![Len(p)].idx = @ - 1]

-----------------------------------------------------------------------------
(* runSteps: the calls in progress.                                         *)

\* A runSteps call on a list of steps: it starts at the child the resume path names.
RunStepsFrom(list, owner, kind, sel, resume) ==
  [list |-> list, owner |-> owner, kind |-> kind, sel |-> sel, pending |-> resume,
   idx |-> IF resume # <<>> /\ resume[1].idx > 0 THEN resume[1].idx ELSE 0]

Cur == stack[Len(stack)]
CurStep == Cur.list[Cur.idx + 1]
HasStep == stack # <<>> /\ Cur.idx < Len(Cur.list)
CurPath == [j \in 1..Len(stack) |-> Frame(stack[j].kind, stack[j].sel, stack[j].idx)]
Outer == SubSeq(stack, 1, Len(stack) - 1)

IsResumeTarget == Cur.pending # <<>> /\ Cur.pending[1].idx = Cur.idx

\* dispatchOptions.resumePath: the deeper frames for the step the path names, else
\* the path this call was given.
DispatchResume ==
  IF IsResumeTarget /\ Len(Cur.pending) > 1 THEN Tail(Cur.pending) ELSE Cur.pending

\* The step at the cursor of st is done: the resume target is consumed, the cursor moves.
Advance(st) ==
  LET c == st[Len(st)] IN
  [st EXCEPT ![Len(st)] =
     [c EXCEPT !.idx = @ + 1,
               !.pending = IF @ # <<>> /\ @[1].idx = c.idx THEN <<>> ELSE @]]

-----------------------------------------------------------------------------
(* Checkpoints: entry.ts writes sessionStorage and tells the host.          *)

\* A slip: sessionStorage is only written after a step.
SaveStateAfterOnly(p, url, policy) ==
  IF policy = "same-origin" THEN session
  ELSE [path |-> p, url |-> url, policy |-> policy, status |-> "running"]

SaveState(p, url, policy) == [path |-> p, url |-> url, policy |-> policy, status |-> "running"]

\* onCheckpoint: the state of the run and the context at this moment.
OnCheckpoint(p, url, policy, data) ==
  /\ Len(wire) < MaxWire
  /\ session' = SaveState(p, url, policy)
  /\ wire' = Append(wire, [type |-> "checkpoint", realm |-> navs, path |-> p, ctx |-> data])

\* checkpoint(path, 'before-navigation'): where the page is expected to be afterwards.
CheckpointBefore(s) ==
  IF Target[s] = NoPage THEN OnCheckpoint(CurPath, page, "same-origin", ctx)
  ELSE OnCheckpoint(CurPath, IF Target[s] = SamePage THEN page ELSE Target[s], "expected-path", ctx)

\* checkpoint(path, 'after-step') for the step at the cursor of st.
CheckpointAfter(path, data) == OnCheckpoint(path, page, "expected-path", data)

\* Checkpoint written by a hook phase.
CheckpointHook == OnCheckpoint(resumeAt, page, "expected-path", ctx)

-----------------------------------------------------------------------------
(* runRule: status, fatalError, signals.                                    *)

MarkFatalError == [status |-> "failure", fatal |-> TRUE]
ApplyAbort(o) == [o EXCEPT !.status = "cancelled"]

\* applyExit: a success does not clear an earlier fatal error.
ApplyExit(o, st) ==
  CASE st = "failure" -> MarkFatalError
    [] st = "cancelled" -> [o EXCEPT !.status = "cancelled"]
    [] st = "success" -> IF o.fatal THEN o ELSE [o EXCEPT !.status = "success"]

\* The main steps are over: every call is left and the hooks follow.
EndMain(o) == /\ outcome' = o /\ pc' = "afterAll" /\ stack' = <<>> /\ attempt' = 0

\* __ocWorkerActive is set.
Running == pc \notin {"none", "ended"}
Alive == Running /\ ~host.settled
InMain == Alive /\ pc = "main"

BeforeAll ==
  /\ Alive /\ pc = "beforeAll"
  /\ IF "beforeAll" \in Hooks /\ resumeAt = <<>>
     THEN /\ \/ ~aborted /\ outcome' = outcome /\ pc' = "main"
             \/ ~aborted /\ outcome' = MarkFatalError /\ pc' = "finish"
             \/ ~aborted /\ pc' = "afterAll" /\ \E s \in Statuses : outcome' = ApplyExit(outcome, s)
             \/ aborted /\ outcome' = ApplyAbort(outcome) /\ pc' = "afterAll"
          /\ CheckpointHook
     ELSE pc' = "main" /\ UNCHANGED <<outcome, session, wire>>
  /\ stack' = IF pc' = "main" THEN <<RunStepsFrom(Top, "rule", "top", 0, resumeAt)>> ELSE <<>>
  /\ UNCHANGED <<attempt, ctx, aborted, resumeAt, page, host, navs, history>>

\* checkAborted before a step.
StepAborted ==
  /\ InMain /\ HasStep /\ aborted
  /\ EndMain(ApplyAbort(outcome))
  /\ UNCHANGED <<ctx, aborted, resumeAt, page, session, wire, host, navs, history>>

\* The body of runSteps for a leaf: a step that may navigate is recorded first.
StepStart ==
  /\ InMain /\ HasStep /\ ~aborted /\ StepKind[CurStep] = "leaf"
  /\ pc' = "leaf" /\ attempt' = 0
  /\ IF CurStep \in Navigating THEN CheckpointBefore(CurStep) ELSE UNCHANGED <<session, wire>>
  /\ UNCHANGED <<stack, outcome, ctx, aborted, resumeAt, page, host, navs, history>>

\* A container without frames to restore runs from its first child.
EnterIf ==
  /\ InMain /\ HasStep /\ ~aborted /\ StepKind[CurStep] = "if"
  /\ LET r == DispatchResume IN
     \E branch \in IF r # <<>> /\ r[1].kind = "if" THEN {r[1].sel} ELSE {0, 1} :
       stack' = Append(stack, RunStepsFrom(Body[CurStep][branch], CurStep, "if", branch, r))
  /\ UNCHANGED <<pc, attempt, outcome, ctx, aborted, resumeAt, page, session, wire, host, navs, history>>

\* A case that is not there is the default.
CaseSteps(s, c) == Body[s][IF c \in DOMAIN Body[s] THEN c ELSE -1]

\* switch takes a case, or the default (-1), or the one it was in.
EnterSwitch ==
  /\ InMain /\ HasStep /\ ~aborted /\ StepKind[CurStep] = "switch"
  /\ LET r == DispatchResume IN
     \E c \in IF r # <<>> /\ r[1].kind = "switch" THEN {r[1].sel} ELSE DOMAIN Body[CurStep] :
       stack' = Append(stack, RunStepsFrom(CaseSteps(CurStep, c), CurStep, "switch", c, r))
  /\ UNCHANGED <<pc, attempt, outcome, ctx, aborted, resumeAt, page, session, wire, host, navs, history>>

EnterGroup ==
  /\ InMain /\ HasStep /\ ~aborted /\ StepKind[CurStep] = "group"
  /\ stack' = Append(stack, RunStepsFrom(Body[CurStep][0], CurStep, "group", 0, DispatchResume))
  /\ UNCHANGED <<pc, attempt, outcome, ctx, aborted, resumeAt, page, session, wire, host, navs, history>>

\* runSteps call for iteration i: only the iteration the path names is given the path.
Iteration(s, i, resume) ==
  RunStepsFrom(Body[s][0], s, "loop", i,
               IF resume # <<>> /\ resume[1].kind = "loop" /\ resume[1].sel = i THEN resume ELSE <<>>)

\* The first iteration that is not skipped; a loop without one is passed over.
EnterLoop ==
  /\ InMain /\ HasStep /\ ~aborted /\ StepKind[CurStep] = "loop"
  /\ LET r == DispatchResume
         i == IF r # <<>> /\ r[1].kind = "loop" THEN r[1].sel ELSE 0
     IN \/ /\ i < LoopCount[CurStep]
           /\ stack' = Append(stack, Iteration(CurStep, i, r))
           /\ UNCHANGED <<session, wire>>
        \/ /\ i >= LoopCount[CurStep] \/ CurStep \in WhileLoops
           /\ stack' = Advance(stack) /\ CheckpointAfter(CurPath, ctx)
  /\ UNCHANGED <<pc, attempt, outcome, ctx, aborted, resumeAt, page, host, navs, history>>

\* Container step at the cursor of st finished: onStepComplete of the enclosing call.
ContainerDone(st) ==
  /\ stack' = Advance(st)
  /\ CheckpointAfter([j \in 1..Len(st) |-> Frame(st[j].kind, st[j].sel, st[j].idx)], ctx)

\* Iteration of the loop frame on top of st is over; the next one may find the abort.
NextIteration(st) ==
  LET f == st[Len(st)]
      outer == SubSeq(st, 1, Len(st) - 1)
  IN \/ /\ f.sel + 1 < LoopCount[f.owner]
        /\ IF aborted THEN EndMain(ApplyAbort(outcome))
           ELSE /\ stack' = Append(outer, Iteration(f.owner, f.sel + 1, <<>>))
                /\ UNCHANGED <<pc, attempt, outcome>>
        /\ UNCHANGED <<session, wire>>
     \/ /\ f.sel + 1 >= LoopCount[f.owner] \/ (f.owner \in WhileLoops /\ ~aborted)
        /\ ContainerDone(outer)
        /\ UNCHANGED <<pc, attempt, outcome>>

\* A runSteps call has run its list: the rule is done, a loop goes on, a container ends.
StepsEnd ==
  /\ InMain /\ stack # <<>> /\ ~HasStep
  /\ IF Len(stack) = 1 THEN EndMain(outcome) /\ UNCHANGED <<session, wire>>
     ELSE IF Cur.kind = "loop" THEN NextIteration(stack)
     ELSE ContainerDone(Outer) /\ UNCHANGED <<pc, attempt, outcome>>
  /\ UNCHANGED <<ctx, aborted, resumeAt, page, host, navs, history>>

\* break and continue travel to the innermost loop; outside a loop they fail the rule.
Signal ==
  /\ InMain /\ HasStep /\ ~aborted /\ StepKind[CurStep] \in {"break", "continue"}
  /\ LET loops == {j \in 1..Len(stack) : stack[j].kind = "loop"} IN
     IF loops = {} THEN EndMain(MarkFatalError) /\ UNCHANGED <<session, wire>>
     ELSE LET j == CHOOSE k \in loops : \A l \in loops : l <= k IN
          IF StepKind[CurStep] = "continue" THEN NextIteration(SubSeq(stack, 1, j))
          ELSE ContainerDone(SubSeq(stack, 1, j - 1)) /\ UNCHANGED <<pc, attempt, outcome>>
  /\ UNCHANGED <<ctx, aborted, resumeAt, page, host, navs, history>>

Exit ==
  /\ InMain /\ HasStep /\ ~aborted /\ StepKind[CurStep] = "exit"
  /\ \E s \in Statuses : EndMain(ApplyExit(outcome, s))
  /\ UNCHANGED <<ctx, aborted, resumeAt, page, session, wire, host, navs, history>>

-----------------------------------------------------------------------------
(* runStep: one leaf, its retries and its error policy.                     *)

\* The step is done: onStepComplete with what it left in the context.
LeafDone(data) ==
  /\ ctx' = data /\ pc' = "main" /\ attempt' = 0
  /\ stack' = Advance(stack)
  /\ completed' = completed \cup {CurPath}
  /\ CheckpointAfter(CurPath, data)
  /\ UNCHANGED <<outcome>>

\* Actions that may navigate write nothing into the context.
OutputOf(p) == IF CurStep \in Navigating THEN {} ELSE {p}

LeafSucceeds ==
  /\ Alive /\ pc = "leaf"
  /\ outputs' = outputs \cup OutputOf(CurPath)
  /\ LeafDone(ctx \cup OutputOf(CurPath))
  /\ UNCHANGED <<rule, lateHook, aborted, resumeAt, page, host, navs>>

\* step.condition does not hold.
LeafSkipped ==
  /\ Alive /\ pc = "leaf" /\ attempt = 0
  /\ LeafDone(ctx)
  /\ UNCHANGED <<rule, lateHook, outputs, aborted, resumeAt, page, host, navs>>

\* A recoverable error with attempts left.
LeafRetries ==
  /\ Alive /\ pc = "leaf" /\ attempt < MaxAttempts[CurStep]
  /\ attempt' = attempt + 1
  /\ UNCHANGED <<pc, stack, outcome, ctx, aborted, resumeAt, page, session, wire, host, navs, history>>

\* onStepFailure: the failed navigation is the pending step again.
RollBack ==
  session' = IF CurStep \in Navigating /\ session # NoSession
             THEN [session EXCEPT !.path = PrevPendingPath(CurPath)] ELSE session

\* The last error of a leaf: continue, ask an operator, or stop the rule.
LeafFails ==
  /\ Alive /\ pc = "leaf"
  /\ \/ OnError[CurStep] \in {"continue", "requestHuman"} /\ LeafDone(ctx)
     \/ /\ OnError[CurStep] = "requestHuman"
        /\ EndMain(MarkFatalError)
        /\ UNCHANGED <<ctx, session, wire, completed>>
     \/ /\ OnError[CurStep] = "stop"
        /\ EndMain(MarkFatalError)
        /\ RollBack
        /\ UNCHANGED <<ctx, wire, completed>>
  /\ UNCHANGED <<rule, lateHook, aborted, resumeAt, page, host, navs, outputs>>

-----------------------------------------------------------------------------
(* The hooks after the main steps and the end of the run.                   *)

HookOrder == [afterAll |-> "onError", onError |-> "cleanup", cleanup |-> "finish"]

\* A hook fails, exits or is aborted without changing what follows it.
RunHook ==
  /\ Alive /\ pc \in {"afterAll", "onError", "cleanup"}
  /\ pc' = HookOrder[pc]
  /\ IF pc \in Hooks /\ (pc # "onError" \/ outcome.fatal)
     THEN /\ \/ outcome' = outcome /\ ~aborted
             \/ \E s \in Statuses : outcome' = ApplyExit(outcome, s) /\ ~aborted
             \/ aborted /\ outcome' = ApplyAbort(outcome)
          /\ CheckpointHook /\ lateHook' = IF lateHook = "no" THEN "written" ELSE lateHook
     ELSE UNCHANGED <<outcome, session, wire, lateHook>>
  /\ UNCHANGED <<rule, stack, attempt, ctx, aborted, resumeAt, page, host, navs, outputs, completed>>

\* Output validation, the drain of buffered results and the closing calls; a bridge
\* call that fails or times out ends the run as a failure.
Finish ==
  /\ Alive /\ pc = "finish"
  /\ pc' = "report"
  /\ outcome' \in {outcome, MarkFatalError}
  /\ UNCHANGED <<stack, attempt, ctx, aborted, resumeAt, page, session, wire, host, navs, history>>

\* postComplete, then clearWorkerState.
Report ==
  /\ Alive /\ pc = "report"
  /\ pc' = "ended" /\ Len(wire) < MaxWire
  /\ wire' = Append(wire, [type |-> "complete", realm |-> navs, status |-> outcome.status, ctx |-> ctx])
  /\ session' = NoSession
  /\ UNCHANGED <<stack, attempt, outcome, ctx, aborted, resumeAt, page, host, navs, history>>

-----------------------------------------------------------------------------
(* Navigation: the realm dies, the host resumes the run in the next one.    *)

RealmGone == /\ pc' = "none" /\ stack' = <<>> /\ attempt' = 0 /\ aborted' = FALSE
             /\ ctx' = {} /\ resumeAt' = <<>>
             /\ outcome' = [status |-> "success", fatal |-> FALSE]

\* The page commits a navigation to p; the last calls of the old realm may get lost.
Navigate(p) ==
  /\ navs < MaxNavs /\ navs' = navs + 1
  /\ host.armed /\ ~host.settled
  /\ RealmGone
  /\ page' = p
  /\ \E n \in 0..Len(wire) : wire' = SubSeq(wire, 1, n)
  /\ host' = [host EXCEPT !.queue = Append(@, p)]
  /\ UNCHANGED session

\* The effect of the running leaf is a navigation.
LeafNavigates(p) ==
  /\ Alive /\ pc = "leaf" /\ CurStep \in Navigating
  /\ completed' = completed \cup {CurPath}
  /\ Navigate(p)
  /\ UNCHANGED <<rule, lateHook, outputs>>

\* The page goes somewhere by itself, a late redirect of an earlier click included.
SiteNavigates(p) == Navigate(p) /\ UNCHANGED history

\* A redirect of the entry page, perhaps after the driver has looked where it landed.
EntryRedirect(p) ==
  /\ ~host.armed /\ ~host.settled
  /\ navs < MaxNavs /\ navs' = navs + 1
  /\ page' = p
  /\ UNCHANGED <<realm, session, wire, host, history>>

\* pushState, replaceState or a fragment: the realm stays, the URL and the event come.
SameDocument(p) ==
  /\ navs < MaxNavs /\ navs' = navs + 1
  /\ host.armed /\ ~host.settled
  /\ p # page /\ HostOf[p] = HostOf[page]
  /\ page' = p
  /\ host' = [host EXCEPT !.queue = Append(@, p)]
  /\ UNCHANGED <<realm, session, wire, history>>

\* validateResume, and the check that the host has a context at all.
ValidateResume(prior, at, cp) ==
  /\ prior.status = "running"
  /\ IF prior.policy = "same-origin" THEN HostOf[at] = HostOf[prior.url] ELSE at = prior.url
  /\ cp.type # "none"
  /\ ~PathLess(cp.path, prior.path)

\* hostMatchesDomain(location.hostname) in the page.
DomainCheck(p) == p \in InDomain

\* preflightRule: no navigation in a loop that cannot be entered again, no literal
\* target outside the domain.
PreflightRule ==
  /\ \A s \in Navigating : Target[s] \in InDomain \cup {NoPage, SamePage}
  /\ \A w \in WhileLoops \cap DOMAIN Body : \A i \in 1..Len(Body[w][0]) : Body[w][0][i] \notin Navigating

\* A slip: a refusal is not reported.
RefuseSilently == UNCHANGED <<realm, session, wire>>

\* A refusal is reported as the end of the run.
Refuse == /\ Len(wire) < MaxWire
          /\ wire' = Append(wire, [type |-> "complete", realm |-> navs, status |-> "failure", ctx |-> {}])
          /\ UNCHANGED <<realm, session>>

\* runWithPayload in a fresh realm.
RunWithPayload(isResume) ==
  IF \/ isResume /\ ~ValidateResume(session, page, host.checkpoint)
     \/ ~PreflightRule \/ ~DomainCheck(page)
  THEN Refuse
  ELSE /\ pc' = "beforeAll" /\ stack' = <<>> /\ attempt' = 0 /\ aborted' = FALSE
       /\ outcome' = [status |-> "success", fatal |-> FALSE]
       /\ resumeAt' = IF isResume THEN NextPendingPath(session.path) ELSE <<>>
       /\ ctx' = IF isResume THEN host.checkpoint.ctx ELSE {}
       /\ session' = IF isResume THEN session ELSE SaveState(<<>>, page, "expected-path")
       /\ UNCHANGED wire

-----------------------------------------------------------------------------
(* The page driver.                                                         *)

FinishOnce(h, st, data) ==
  IF h.settled THEN h ELSE [h EXCEPT !.settled = TRUE, !.result = st, !.data = data]

\* goto, the check of where it landed, the injection and __ocWorkerBoot; each may fail.
Boot ==
  /\ ~host.armed /\ ~host.settled
  /\ \/ RunWithPayload(FALSE) /\ host' = [host EXCEPT !.armed = TRUE]
     \/ host' = FinishOnce(host, "failure", {}) /\ UNCHANGED <<realm, session, wire>>
  /\ UNCHANGED <<page, navs, history>>

\* checkpointContext: a dying realm's checkpoint does not replace a newer one.
TakeCheckpoint(h, m) ==
  IF h.checkpoint.type = "none" \/ ~PathLess(m.path, h.checkpoint.path)
  THEN [h EXCEPT !.checkpoint = m] ELSE h

\* bridgeHandler: once the run is settled no call changes anything.
Deliver(i) ==
  /\ ~host.settled
  /\ \A j \in 1..(i - 1) : wire[j].realm # wire[i].realm
  /\ wire' = SubSeq(wire, 1, i - 1) \o SubSeq(wire, i + 1, Len(wire))
  /\ host' = IF wire[i].type = "complete" THEN FinishOnce(host, wire[i].status, wire[i].ctx)
             ELSE TakeCheckpoint(host, wire[i])
  /\ UNCHANGED <<realm, page, session, navs, history>>

\* handleNavigation up to the decision: an active realm means the same document, the
\* URL that is judged is the one of the event.
HandleNavigation ==
  /\ host.queue # <<>> /\ ~host.settled /\ ~host.resuming
  /\ LET url == Head(host.queue)
         rest == [host EXCEPT !.queue = Tail(@)]
     IN host' = IF Running THEN rest
                ELSE IF host.hops + 1 > HopLimit \/ url \notin InDomain
                THEN FinishOnce([rest EXCEPT !.hops = @ + 1], "failure", {})
                ELSE [rest EXCEPT !.hops = @ + 1, !.resuming = TRUE]
  /\ UNCHANGED <<realm, page, session, wire, navs, history>>

\* Injection and __ocWorkerResume in whatever document the page shows by then.
ResumeInPage ==
  /\ host.resuming /\ ~host.settled
  /\ host' = [host EXCEPT !.resuming = FALSE]
  /\ RunWithPayload(TRUE)
  /\ lateHook' = IF lateHook = "written" /\ pc' = "beforeAll" THEN "rerun" ELSE lateHook
  /\ UNCHANGED <<page, navs, rule, outputs, completed>>

\* onAbort: the run in the page is told, then the grace period starts.
AbortTask ==
  /\ ~host.settled /\ host.abort = "no"
  /\ host' = [host EXCEPT !.abort = "grace"]
  /\ aborted' = Running
  /\ UNCHANGED <<pc, stack, attempt, outcome, ctx, resumeAt, page, session, wire, navs, history>>

AbortGraceEnds ==
  /\ host.abort = "grace" /\ ~host.settled
  /\ host' = FinishOnce([host EXCEPT !.abort = "over"], "cancelled", {})
  /\ UNCHANGED <<realm, page, session, wire, navs, history>>

\* The page crashes or is closed, a load or an injection fails.
PageLost ==
  /\ host.armed /\ ~host.settled
  /\ host' = FinishOnce(host, "failure", {})
  /\ UNCHANGED <<realm, page, session, wire, navs, history>>

\* The run is settled and the page is closed.
Closed == host.settled /\ UNCHANGED vars

-----------------------------------------------------------------------------
Init ==
  /\ rule \in Rules /\ lateHook = "no"
  /\ pc = "none" /\ stack = <<>> /\ attempt = 0 /\ ctx = {} /\ aborted = FALSE /\ resumeAt = <<>>
  /\ outcome = [status |-> "success", fatal |-> FALSE]
  /\ page = Entry /\ session = NoSession /\ wire = <<>> /\ navs = 0
  /\ host = [armed |-> FALSE, settled |-> FALSE, result |-> "none", data |-> {}, hops |-> 0,
             checkpoint |-> NoCheckpoint, queue |-> <<>>, resuming |-> FALSE, abort |-> "no"]
  /\ outputs = {} /\ completed = {}

Executor ==
  \/ BeforeAll \/ StepAborted \/ StepStart
  \/ EnterIf \/ EnterSwitch \/ EnterGroup \/ EnterLoop \/ StepsEnd \/ Signal \/ Exit
  \/ LeafSucceeds \/ LeafSkipped \/ LeafRetries \/ LeafFails
  \/ RunHook \/ Finish \/ Report

Driver ==
  \/ Boot \/ HandleNavigation \/ ResumeInPage \/ AbortGraceEnds
  \/ \E i \in 1..Len(wire) : Deliver(i)

Next ==
  \/ Executor \/ Driver \/ AbortTask \/ PageLost \/ Closed
  \/ \E p \in Pages : LeafNavigates(p) \/ SiteNavigates(p) \/ EntryRedirect(p) \/ SameDocument(p)

Spec == Init /\ [][Next]_vars

\* Promises resolve, timers fire and bridge calls of a live page arrive.
RuleRunFairness == WF_vars(Executor) /\ WF_vars(Driver)
FairSpec == Spec /\ RuleRunFairness

-----------------------------------------------------------------------------
Paths == Seq([kind : {"top", "if", "loop", "switch", "group"}, sel : Int, idx : Int])

\* The variables keep their shapes; a leaf runs inside a runSteps call.
TypeOK ==
  /\ pc \in {"none", "beforeAll", "main", "leaf", "afterAll", "onError", "cleanup", "finish",
             "report", "ended"}
  /\ (pc = "leaf" => HasStep) /\ attempt \in Nat /\ aborted \in BOOLEAN
  /\ outcome \in [status : Statuses, fatal : BOOLEAN]
  /\ page \in Pages /\ resumeAt \in Paths /\ session.path \in Paths
  /\ ctx \subseteq outputs /\ outputs \subseteq completed /\ completed \subseteq Paths
  /\ host.result \in Statuses \cup {"none"} /\ host.hops \in 0..(HopLimit + 1)

\* A step that was completed, or that left the page, is not executed again in a later
\* page: step-path.ts resumes "without ... re-running prior siblings/iterations".
\* Excepted is a page that navigates after a hook of the end of the run has written
\* the path the run had started from.
CompletedStepsStayDone == pc = "leaf" /\ lateHook = "no" => CurPath \notin completed

\* A run that reports success returns the output of every leaf outside a container that
\* produced one, in whichever page it ran: a context older than the light state is refused.
\* Excepted is again a run that was resumed from where a hook of its end has put it back:
\* its context need not be of the end, and a step may be skipped the second time.
SuccessHasTopOutput ==
  host.result = "success" /\ lateHook # "rerun" => \A p \in outputs : Len(p) = 1 => p \in host.data

\* The executor only ever runs in a page whose host rule.domain covers, although the
\* page driver judges the URL of the event and injects into the page of the moment.
RunsOnlyInDomain == Running => page \in InDomain

\* A rule run over several pages: types hold, what was done stays done, a success
\* has the outputs of every page, and no page outside the domain runs anything.
RunSurvivesPages ==
  /\ TypeOK
  /\ CompletedStepsStayDone
  /\ SuccessHasTopOutput
  /\ RunsOnlyInDomain

=============================================================================
