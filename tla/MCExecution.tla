----------------------------- MODULE MCExecution -----------------------------
(***************************************************************************)
(* Small instances of what runs a rule: the executor and its page driver    *)
(* (RuleRun), the handlers of the actions (Actions), the breaker and quota  *)
(* steps (StepGuards) and the worker's task loop with its transport         *)
(* (WorkerTask).  A behaviour is a behaviour of one of the four parts, the  *)
(* others being at rest.                                                    *)
(***************************************************************************)
EXTENDS RuleRun, Actions, StepGuards, WorkerTask, TLC

CONSTANTS click, go, again, read, ask, grp, lp, wl, sw, brk, cont, stop,
          home, next, away

VARIABLE part    \* the part that is at work

-----------------------------------------------------------------------------
(* Rules for the executor.                                                  *)

AllSteps == {click, go, again, read, ask, grp, lp, wl, sw, brk, cont, stop}
KindOf == [s \in AllSteps |->
  CASE s = grp -> "group" [] s \in {lp, wl} -> "loop" [] s = ask -> "if" [] s = sw -> "switch"
    [] s = brk -> "break" [] s = cont -> "continue" [] s = stop -> "exit" [] OTHER -> "leaf"]

Twice == [s \in {lp, wl} |-> 2]
Rule(top, body, hooks) == [top |-> top, body |-> body, count |-> Twice, hooks |-> hooks]
One(children) == (0 :> children)

\* A read, then a loop over a click and a read.
LoopRule == Rule(<<read, lp>>, (lp :> One(<<click>>)), {"beforeAll"})
\* A navigation to a known page and a branch with a click in it.
BranchRule == Rule(<<go, ask>>, (ask :> (One(<<click, read>>) @@ (1 :> <<>>))), {})
\* A reload, then a switch: a case, or the default, which exits.
SwitchRule == Rule(<<again, sw>>, (sw :> (One(<<read>>) @@ (-1 :> <<stop>>))), {"cleanup"})
\* A loop that is left by break, a group with a continue inside a loop.
SignalRule == Rule(<<wl, lp>>, (wl :> One(<<read, brk>>)) @@ (lp :> One(<<grp, read>>))
                                @@ (grp :> One(<<cont>>)), {"afterAll", "onError"})
\* break outside a loop.
StrayRule == Rule(<<grp>>, (grp :> One(<<read, brk>>)), {"onError"})

\* A read between hooks, which put a page that navigates at the end back to the start.
HookRule == Rule(<<read>>, <<>>, {"beforeAll", "cleanup"})

SmallRules == {LoopRule, BranchRule, SwitchRule, SignalRule, StrayRule, HookRule}

Targets == [s \in AllSteps |-> IF s = go THEN next ELSE IF s = again THEN SamePage ELSE NoPage]
Policy == [s \in AllSteps |-> IF s = read THEN "requestHuman" ELSE IF s = again THEN "continue" ELSE "stop"]
Attempts == [s \in AllSteps |-> IF s = again THEN 1 ELSE 0]
Origin == [p \in {home, next, away} |-> IF p \in {home, next} THEN "h" ELSE "o"]

\* No run was booted in the page, or it is over.
RuleRunRest ==
  /\ rule = StrayRule /\ lateHook = "no"
  /\ pc = "none" /\ stack = <<>> /\ attempt = 0 /\ ctx = {} /\ aborted = FALSE /\ resumeAt = <<>>
  /\ outcome = [status |-> "success", fatal |-> FALSE]
  /\ page = Entry /\ session = NoSession /\ wire = <<>> /\ navs = 0
  /\ host = [armed |-> FALSE, settled |-> TRUE, result |-> "none", data |-> {}, hops |-> 0,
             checkpoint |-> NoCheckpoint, queue |-> <<>>, resuming |-> FALSE, abort |-> "no"]
  /\ outputs = {} /\ completed = {}

-----------------------------------------------------------------------------
(* Rules for the handlers: every kind of action alone, and the pairs that   *)
(* share a field, a mouse button or the keyboard.                           *)

SingleKinds ==
  {"click", "select", "hover", "check", "pressKey", "keyCombination", "doubleClick", "rightClick",
   "middleClick", "hoverClick", "moveMouse", "pressAndHold", "dragBy", "slide", "selectRadio",
   "uploadFile", "focus", "blur", "tab", "waitFor", "waitForText", "waitForTimeout",
   "waitForElementHidden", "waitForUrl", "waitForElementVisible", "waitForFunction", "readPause",
   "scrollToBottom", "scrollBy", "scrollTo", "pageDown", "setStyle", "removeElement", "navigate",
   "reload", "goBack", "extract", "extractText", "extractTable", "evaluate", "validateData",
   "sendHtml", "sendLog", "checkpoint", "abort"}
SomeActionRules ==
  {<<k>> : k \in SingleKinds} \cup
  {<<"type", "clear">>, <<"paste", "type">>, <<"typeAndSelect", "sendResult">>,
   <<"dragAndDrop", "pressKey">>, <<"clear", "paste">>}

\* The rule is over.
ActionsRest ==
  /\ steps = <<"click">> /\ at = 1 /\ tries = 1 /\ cur = NoAttempt /\ strays = {}
  /\ el = [there |-> TRUE, shown |-> FALSE, enabled |-> TRUE]
  /\ toggles = MaxToggles /\ menu = FALSE /\ moved = FALSE /\ low = FALSE
  /\ field = <<>> /\ ticked = FALSE /\ held = 0 /\ keys = 0 /\ rows = 0
  /\ verdict = "failed" /\ strayed = FALSE

-----------------------------------------------------------------------------
\* Two branches share a tab.
OneTab == [a \in Actors |-> 1]

\* The worker has no task.
WorkerRest ==
  /\ phase = "idle" /\ result = "none" /\ produced = 0
  /\ buffer = <<>> /\ retry = <<>> /\ chain = <<>>
  /\ posts = [c \in Callers |-> NoPost]
  /\ seqno = 0 /\ pending = NoEnvelope /\ taskAborted = TRUE /\ faults = 0
  /\ server = [results |-> <<>>, status |-> "ended"]
  /\ dropped = {}

-----------------------------------------------------------------------------
ExecutionInit ==
  \/ part = "rule"   /\ Init        /\ ActionsRest /\ GuardsRest /\ WorkerRest
  \/ part = "action" /\ RuleRunRest /\ ActionsInit /\ GuardsRest /\ WorkerRest
  \/ part = "guard"  /\ RuleRunRest /\ ActionsRest /\ GuardsInit /\ WorkerRest
  \/ part = "worker" /\ RuleRunRest /\ ActionsRest /\ GuardsRest /\ WorkerInit

executionVars == <<part, vars, actionVars, guardVars, workerVars>>
OfRule   == part = "rule"   /\ UNCHANGED <<part, actionVars, guardVars, workerVars>>
OfAction == part = "action" /\ UNCHANGED <<part, vars, guardVars, workerVars>>
OfGuard  == part = "guard"  /\ UNCHANGED <<part, vars, actionVars, workerVars>>
OfWorker == part = "worker" /\ UNCHANGED <<part, vars, actionVars, guardVars>>

ExecutionNext ==
  \/ OfRule   /\ Next
  \/ OfAction /\ ActionsNext
  \/ OfGuard  /\ GuardsNext
  \/ OfWorker /\ WorkerNext

\* The fairness of the four parts. part never changes, so fairness of a disjunction
\* of which each part has one disjunct is fairness of that disjunct.
ExecutionSpec ==
  /\ ExecutionInit /\ [][ExecutionNext]_executionVars
  /\ WF_executionVars((OfRule /\ Executor) \/ (OfAction /\ ActionsProgress)
                      \/ (OfGuard /\ ClockTicks) \/ (OfWorker /\ Run))
  /\ WF_executionVars((OfRule /\ Driver) \/ (OfAction /\ HardTimeout)
                      \/ (OfGuard /\ GuardWait("a")) \/ (OfWorker /\ Flushing))
  /\ WF_executionVars((OfGuard /\ GuardWait("b")) \/ (OfWorker /\ Answers))

\* What was begun comes to an end, whatever navigates, gets lost or is aborted meanwhile:
\* the page driver settles a run that was booted; a rule of actions gets its verdict,
\* though a stepped scroll chases a growing page for ever and a wait may be for what
\* never comes; a step that waits for an operator, or for a quota within the modelled
\* time, goes on; and the worker returns from its task to claim the next one.
WorkSettles ==
  (\/ part = "rule"   /\ host.armed
   \/ part = "action" /\ verdict = "running"
   \/ part = "guard"  /\ branch["a"].pc \in {"human", "waiting"}
   \/ part = "worker" /\ phase # "idle")
  ~>
  (\/ part = "rule"   /\ host.settled
   \/ part = "action" /\ verdict # "running"
   \/ part = "guard"  /\ \/ branch["a"].pc \notin {"human", "waiting"}
                         \/ branch["a"].pc = "waiting" /\ clock = MaxTime
   \/ part = "worker" /\ phase = "idle")
=============================================================================
