--------------------------- MODULE ReplaySession ---------------------------
(***************************************************************************)
(* The replay of a provisional rule: the wizard page                       *)
(* (extension/src/intent/intent-page.ts) asks for it, the service worker   *)
(* (extension/src/background.ts) keeps the session, the runner             *)
(* (extension/src/intent/replay-runner.ts) executes the rule in a tab of   *)
(* its own, and the server keeps one attempt per replay.                   *)
(*                                                                         *)
(* The n-th START_REPLAY makes task n and tab n.  A rule is a number of    *)
(* steps; some navigate, the others put a value into the context.  The     *)
(* service worker's handlers are cut at their awaits (jobs) and it may die *)
(* between any two steps: memory, jobs and listeners are gone,             *)
(* chrome.storage.session, tabs and alarms are not.  Time is left out: an  *)
(* armed alarm may find its session expired at any moment.                 *)
(***************************************************************************)
EXTENDS Integers, Sequences, FiniteSets

CONSTANTS
  LastStep,        \* steps of the rule
  Navigates,   \* the steps that may leave the page
  HopLimit,    \* REPLAY_HOP_LIMIT
  HopCredit,   \* what a progress report takes off the hop count
  MaxTasks,    \* bound: replays started
  MaxWire,     \* bound: messages and news on their way
  ReplayPlans        \* bounds: how often each outside event may happen

ReplayPlanKeys == {"start", "cancel", "close", "crash", "alarm", "wizard", "beat", "ttl", "stray", "fail"}

ASSUME ReplayAssumption ==
  /\ LastStep \in Nat \ {0} /\ Navigates \subseteq 1..LastStep
  /\ HopLimit \in Nat /\ HopCredit \in Nat /\ MaxTasks \in Nat \ {0} /\ MaxWire \in Nat \ {0}
  /\ ReplayPlans \subseteq [ReplayPlanKeys -> Nat]

Tasks == 1..MaxTasks
ReplayPages == {"expected", "elsewhere", "outside"}   \* where a navigation may end; the last is not in the domain
Steps == 1..LastStep
Values == Steps \ Navigates          \* the steps whose value belongs to the output

VARIABLES
  sw,      \* memory of the service worker
  ss,      \* chrome.storage.session
  alarms,  \* tasks whose alarms are armed
  replayJobs,    \* handlers of the service worker that wait for something
  tab,     \* tab of a task, with its runner and its sessionStorage
  inbox,   \* messages from the tabs to the service worker
  news,    \* broadcasts to the wizard page
  wiz,     \* the wizard page
  srv,     \* attempts at the server
  tasks,   \* tasks so far
  owner,   \* history: the attempt a task was started for
  done,    \* history: steps a task has executed
  replayLeft,    \* outside events left of each kind
  replayMishaps  \* history: what some properties do not cover

replayVars == <<sw, ss, alarms, replayJobs, tab, inbox, news, wiz, srv, tasks, owner, done, replayLeft, replayMishaps>>

NoReplaySession == [task |-> 0, hops |-> 0]
NoContext == [pos |-> -1, got |-> {}]
NoTab == [open |-> FALSE, load |-> "complete", at |-> "expected", run |-> FALSE, abort |-> FALSE,
          pos |-> 0, got |-> {}, ctl |-> -1]
NoReplayJob == [kind |-> "none", task |-> 0, status |-> "none", own |-> FALSE, abort |-> FALSE,
          close |-> FALSE, ses |-> NoReplaySession, then |-> "none"]
Idle == [att |-> 0, status |-> "none", rows |-> {}]
ReplayMishaps == {"crash", "late", "overlap", "gone", "unfinished", "blind"}

\* Session of the wizard page after the page was opened.
NoWizard == [open |-> FALSE, port |-> FALSE, status |-> "idle", att |-> 0, rows |-> {},
             asked |-> "no", cancel |-> "no", sent |-> Idle]

SpendMishap(k) == replayLeft[k] > 0 /\ replayLeft' = [replayLeft EXCEPT ![k] = @ - 1]
ReplayJob(kind, n) == [NoReplayJob EXCEPT !.kind = kind, !.task = n]
Replace(j, js) == replayJobs' = (replayJobs \ {j}) \cup js
ReplayRunning(kind, j) == j \in replayJobs /\ j.kind = kind
Tell(msgs) == news' = news \o msgs
Note(s) == replayMishaps' = replayMishaps \cup s

-----------------------------------------------------------------------------
(* The runner in the tab.                                                   *)

PostReplay(msgs) == inbox' = inbox \o msgs
Message(kind, n, st, p, got) == [kind |-> kind, task |-> n, status |-> st, pos |-> p, got |-> got]
Complete(n, st) == Message("complete", n, st, 0, {})

\* A runner ends: it reports, and clears its sessionStorage and its realm guard.
Ended(t) == [t EXCEPT !.run = FALSE, !.abort = FALSE, !.ctl = -1]

\* __ocReplayBoot: what becomes of the tab, and what is posted.
RunnerBoot(t, n) ==
  IF t.run THEN [tab |-> t, post |-> <<>>]
  ELSE IF t.at = "outside" THEN [tab |-> t, post |-> <<Complete(n, "failure")>>]
  ELSE [tab |-> [t EXCEPT !.run = TRUE, !.pos = 0, !.got = {}, !.ctl = 0], post |-> <<>>]

\* Why a resume is refused: the page is not the expected one, or the context the service worker
\* kept is older than the page's own control fields.
ResumeRefused(t, c) == t.at = "elsewhere" \/ (c # NoContext /\ c.pos < t.ctl)

\* __ocReplayAutoResume: the control fields are the page's own or else the service worker's copy;
\* without either, or inside a realm that runs already, nothing happens.
RunnerResume(t, n, c) ==
  LET from == IF t.ctl # -1 THEN t.ctl ELSE c.pos IN
  IF t.run \/ from = -1 THEN [tab |-> t, post |-> <<>>]
  ELSE IF ResumeRefused(t, c) \/ t.at = "outside"
       THEN [tab |-> [t EXCEPT !.ctl = from], post |-> <<Complete(n, "failure")>>]
  ELSE [tab |-> [t EXCEPT !.run = TRUE, !.pos = from, !.got = c.got, !.ctl = from], post |-> <<>>]

\* A slip: the control fields are one step ahead.
CheckpointAhead(t, n, p, got) ==
  [tab |-> [t EXCEPT !.pos = p, !.got = got, !.ctl = IF p < LastStep THEN p + 1 ELSE p],
   post |-> <<Message("context", n, "none", IF p < LastStep THEN p + 1 ELSE p, got)>>]

\* onCheckpoint: the control fields in the page, the context by message.
Checkpoint(t, n, p, got) ==
  [tab |-> [t EXCEPT !.pos = p, !.got = got, !.ctl = p], post |-> <<Message("context", n, "none", p, got)>>]

\* A navigating step: the checkpoint comes first, then the document goes and the runner with it.
RunnerLeaves(n, s, at) ==
  LET c == Checkpoint(tab[n], n, s, tab[n].got) IN
  /\ tab' = [tab EXCEPT ![n] = [c.tab EXCEPT !.run = FALSE, !.abort = FALSE, !.load = "loading", !.at = at]]
  /\ PostReplay(c.post)

\* A step that stays on the page.
RunnerStays(n, s) ==
  LET got == tab[n].got \cup ({s} \cap Values)
      c == Checkpoint(tab[n], n, s, got) IN
  tab' = [tab EXCEPT ![n] = c.tab] /\ PostReplay(c.post)

RunnerReady(n) == tab[n].open /\ tab[n].run /\ Len(inbox) < MaxWire

RunnerStep(n) ==
  LET s == tab[n].pos + 1 IN
  /\ RunnerReady(n) /\ ~tab[n].abort /\ s <= LastStep
  /\ \/ RunnerStays(n, s) /\ UNCHANGED replayLeft
     \/ s \in Navigates /\ RunnerLeaves(n, s, "expected") /\ UNCHANGED replayLeft
     \/ s \in Navigates /\ SpendMishap("stray") /\ \E at \in ReplayPages : RunnerLeaves(n, s, at)
  /\ done' = [done EXCEPT ![n] = @ \cup {s}]
  /\ UNCHANGED <<sw, ss, alarms, replayJobs, news, wiz, srv, tasks, owner, replayMishaps>>

\* The run is over: the output goes out as progress, then the terminal message.
RunnerEnd(n) ==
  /\ RunnerReady(n)
  /\ \/ tab[n].pos = LastStep /\ ~tab[n].abort
        /\ PostReplay(<<Message("result", n, "none", 0, tab[n].got), Complete(n, "success")>>)
        /\ UNCHANGED replayLeft
     \/ tab[n].abort /\ PostReplay(<<Complete(n, "cancelled")>>) /\ UNCHANGED replayLeft
     \/ tab[n].pos < LastStep /\ ~tab[n].abort /\ PostReplay(<<Complete(n, "failure")>>) /\ SpendMishap("fail")
  /\ tab' = [tab EXCEPT ![n] = Ended(@)]
  /\ UNCHANGED <<sw, ss, alarms, replayJobs, news, wiz, srv, tasks, owner, done, replayMishaps>>

\* The heartbeat is a progress report.
RunnerBeat(n) ==
  /\ RunnerReady(n) /\ SpendMishap("beat")
  /\ PostReplay(<<Message("beat", n, "none", 0, {})>>)
  /\ UNCHANGED <<sw, ss, alarms, replayJobs, tab, news, wiz, srv, tasks, owner, done, replayMishaps>>

-----------------------------------------------------------------------------
(* The end of a session in the service worker.                              *)

\* A tab is closed; the session's own listener starts a cleanup of whatever replay is active.
ClosedJobs(n) ==
  IF n \in sw.listens /\ tab[n].open /\ sw.act # NoReplaySession
  THEN {[ReplayJob("clear", sw.act.task) EXCEPT !.status = "failure"]} ELSE {}

ClosedSw(n, s) ==
  IF n \in s.listens /\ tab[n].open /\ s.act # NoReplaySession
  THEN [s EXCEPT !.act = NoReplaySession, !.listens = @ \ {s.act.task}] ELSE s

CloseReplayTab(n) == tab' = IF n = 0 THEN tab ELSE [tab EXCEPT ![n] = NoTab]

\* A cleanup of the task is under way.
Ending(n) == \E i \in replayJobs : i.task = n /\ i.kind \in {"clear", "close", "report"}

\* What is left of the service worker's memory when a cleanup has begun.
Dropped(s) == [s EXCEPT !.act = NoReplaySession, !.listens = @ \ {s.act.task}]

\* serializeStateMutation: the request of the page that the chain works on, its cleanup included,
\* and those that wait for it.
OnChain == {j \in replayJobs : j.kind = "create" \/ j.then # "none"}
Queued(kind) == \E j \in replayJobs : j.kind = kind
ChainIdle == OnChain = {} /\ ~Queued("start") /\ ~Queued("abort")

\* A slip: the tab goes with every cleanup.
CleanupOfCloses(s, status, abort, close, then) ==
  IF s.act = NoReplaySession THEN {}
  ELSE {[ReplayJob("clear", s.act.task) EXCEPT !.status = status, !.abort = abort, !.close = TRUE, !.then = then]}

\* The job of cleanupReplaySession for the active replay, if there is one.
CleanupOf(s, status, abort, close, then) ==
  IF s.act = NoReplaySession THEN {}
  ELSE {[ReplayJob("clear", s.act.task) EXCEPT !.status = status, !.abort = abort, !.close = close, !.then = then]}

\* A slip: the session stays.
ClearReplayStorageKeeps(n) == [ss EXCEPT !.pay = @ \ {n}, !.ctx[n] = NoContext]

\* clearReplayStorage.
ClearReplayStorage(n) ==
  [ss EXCEPT !.ses = NoReplaySession, !.pay = @ \ {n}, !.ctx[n] = NoContext]

\* cleanupReplaySession, after its synchronous part: the alarms, the abort, the storage.
CleanupClear(j) ==
  /\ ReplayRunning("clear", j)
  /\ alarms' = alarms \ {j.task}
  /\ ss' = ClearReplayStorage(j.task)
  /\ tab' = IF j.abort /\ tab[j.task].run THEN [tab EXCEPT ![j.task].abort = TRUE] ELSE tab
  /\ Replace(j, {[j EXCEPT !.kind = "close"]})
  /\ Note(IF ss.ses.task \notin {0, j.task} THEN {"overlap"} ELSE {})
  /\ UNCHANGED <<sw, inbox, news, wiz, srv, tasks, owner, done, replayLeft>>

\* The server's verdict: an attempt that is still running succeeds with its rows, or fails.
Verdict(a, succeeded, rows) ==
  IF a = 0 \/ srv[a].status # "running" THEN srv
  ELSE [srv EXCEPT ![a] = [status |-> IF succeeded /\ rows # {} THEN "verified" ELSE "failed",
                           rows |-> IF succeeded THEN rows ELSE {}]]

\* What waits for the end of a cleanup: a new replay, or the answer to the page's request to cancel,
\* which goes behind the broadcasts sent before.
After(j) == IF j.then = "create" THEN {ReplayJob("create", 0)} ELSE {}
CancelAnswer(j) == IF j.then = "answer" THEN <<[kind |-> "cancelled", status |-> "none", got |-> {}]>> ELSE <<>>

\* Memory and storage forget the rows of a task.
SwForgets(s, n) == [s EXCEPT !.rows[n] = {}]

\* The tab is closed and the end is broadcast; with a wizard connected that is all.
CleanupClose(j) ==
  LET s == IF j.close THEN ClosedSw(j.task, sw) ELSE sw
      more == IF j.close THEN ClosedJobs(j.task) ELSE {}
      told == <<[kind |-> "complete", status |-> j.status, got |-> {}]>> IN
  /\ ReplayRunning("close", j) /\ Len(news) < MaxWire
  /\ IF j.close THEN CloseReplayTab(j.task) ELSE UNCHANGED tab
  /\ IF sw.port
     THEN /\ sw' = SwForgets(s, j.task) /\ ss' = [ss EXCEPT !.rows[j.task] = {}]
          /\ Replace(j, After(j) \cup more) /\ Tell(told \o CancelAnswer(j))
     ELSE /\ sw' = s /\ Replace(j, {[j EXCEPT !.kind = "report"]} \cup more) /\ Tell(told) /\ UNCHANGED ss
  /\ UNCHANGED <<alarms, inbox, wiz, srv, tasks, owner, done, replayLeft, replayMishaps>>

\* Without a wizard the service worker completes the attempt it finds in storage itself.
FallbackVerdict(n, status) == Verdict(ss.dsl, status = "success", sw.rows[n] \cup ss.rows[n])

CleanupReport(j) ==
  /\ ReplayRunning("report", j) /\ Len(news) < MaxWire
  /\ srv' = FallbackVerdict(j.task, j.status)
  /\ sw' = SwForgets(sw, j.task)
  /\ ss' = [ss EXCEPT !.rows[j.task] = {}]
  /\ Replace(j, After(j)) /\ Tell(CancelAnswer(j))
  /\ UNCHANGED <<alarms, tab, inbox, wiz, tasks, owner, done, replayLeft, replayMishaps>>

-----------------------------------------------------------------------------
(* Messages from the runner.                                                *)

Active(n) == sw.act.task = n

\* The bounded decrement of the hop count.
ReplayProgress(h) == IF h > HopCredit THEN h - HopCredit ELSE 0

TakeProgress(m) ==
  IF ~Active(m.task) THEN UNCHANGED <<sw, ss, news>>
  ELSE LET act == [sw.act EXCEPT !.hops = ReplayProgress(@)]
           rows == IF m.kind = "result" THEN sw.rows[m.task] \cup m.got ELSE sw.rows[m.task] IN
       /\ sw' = [sw EXCEPT !.act = act, !.rows[m.task] = rows]
       /\ ss' = [ss EXCEPT !.ses = act, !.rows[m.task] = IF m.kind = "result" THEN rows ELSE @]
       /\ IF m.kind = "result" THEN Tell(<<[kind |-> "result", status |-> "none", got |-> m.got]>>)
                               ELSE UNCHANGED news

\* REPLAY_CONTEXT.
TakeContext(m) ==
  ss' = IF Active(m.task) THEN [ss EXCEPT !.ctx[m.task] = [pos |-> m.pos, got |-> m.got]] ELSE ss

\* Successful tabs remain observable until approval.
KeepsTab(status) == status = "success"

\* REPLAY_COMPLETE: from the active tab it ends the replay, and a successful tab is retained
\* first; beside another active replay the sender's tab is closed; without one the persisted
\* session decides.
TakeComplete(m) ==
  \/ /\ Active(m.task) /\ KeepsTab(m.status)
     /\ replayJobs' = replayJobs \cup {ReplayJob("retain", m.task)} /\ UNCHANGED <<sw, tab>>
  \/ /\ Active(m.task) /\ ~KeepsTab(m.status)
     /\ replayJobs' = replayJobs \cup CleanupOf(sw, m.status, FALSE, TRUE, "none")
     /\ sw' = Dropped(sw) /\ UNCHANGED tab
  \/ /\ sw.act # NoReplaySession /\ ~Active(m.task)
     /\ CloseReplayTab(m.task) /\ UNCHANGED <<sw, replayJobs>>
  \/ /\ sw.act = NoReplaySession
     /\ replayJobs' = replayJobs \cup {[ReplayJob("late", m.task) EXCEPT !.status = m.status]} /\ UNCHANGED <<sw, tab>>

Deliver ==
  /\ sw.up /\ inbox # <<>> /\ Len(news) < MaxWire
  /\ inbox' = Tail(inbox)
  /\ LET m == Head(inbox) IN
     CASE m.kind = "context" -> TakeContext(m) /\ UNCHANGED <<sw, news, replayJobs, tab>>
       [] m.kind = "complete" -> TakeComplete(m) /\ UNCHANGED <<ss, news>>
       [] OTHER -> TakeProgress(m) /\ UNCHANGED <<replayJobs, tab>>
  /\ UNCHANGED <<alarms, wiz, srv, tasks, owner, done, replayLeft, replayMishaps>>

\* retainSuccessfulReplayTab, then the cleanup of the replay that is active by now.
Retain(j) ==
  /\ ReplayRunning("retain", j)
  /\ ss' = [ss EXCEPT !.ret = j.task]
  /\ Replace(j, CleanupOf(sw, "success", FALSE, FALSE, "none"))
  /\ sw' = IF sw.act = NoReplaySession THEN sw ELSE Dropped(sw)
  /\ Note(IF Active(j.task) /\ ~Ending(j.task) THEN {} ELSE {"late"})
  /\ UNCHANGED <<alarms, tab, inbox, news, wiz, srv, tasks, owner, done, replayLeft>>

\* The first success is authoritative: later terminal messages of its tab are ignored.
IsRetained(n) == ss.ret = n

\* The terminal message is the persisted session's own.
LateMatches(n) == ss.ses.task = n

\* A terminal message that finds no active replay: the service worker was restarted.
LateComplete(j) ==
  /\ ReplayRunning("late", j) /\ Len(news) < MaxWire
  /\ \/ /\ IsRetained(j.task) /\ UNCHANGED <<ss, tab, news, sw>> /\ Replace(j, {})
     \/ /\ ~IsRetained(j.task) /\ ~LateMatches(j.task)
        /\ CloseReplayTab(j.task) /\ sw' = ClosedSw(j.task, sw)
        /\ Replace(j, ClosedJobs(j.task)) /\ UNCHANGED <<ss, news>>
     \/ /\ ~IsRetained(j.task) /\ LateMatches(j.task)
        /\ IF j.status = "success"
           THEN /\ ss' = [ss EXCEPT !.ret = j.task, !.ses = NoReplaySession]
                /\ Replace(j, {}) /\ UNCHANGED <<tab, sw>>
           ELSE /\ ss' = [ss EXCEPT !.ses = NoReplaySession]
                /\ CloseReplayTab(j.task) /\ sw' = ClosedSw(j.task, sw) /\ Replace(j, ClosedJobs(j.task))
        /\ Tell(<<[kind |-> "complete", status |-> j.status, got |-> {}]>>)
  /\ Note(IF sw.act # NoReplaySession \/ Ending(j.task) THEN {"late"} ELSE {})
  /\ UNCHANGED <<alarms, inbox, wiz, srv, tasks, owner, done, replayLeft>>

-----------------------------------------------------------------------------
(* START_REPLAY, ABORT_REPLAY and the navigation listener.                  *)

\* The request: a retained tab goes, then the replay that is active.
Start(j) ==
  /\ ReplayRunning("start", j) /\ OnChain = {}
  /\ ss' = [ss EXCEPT !.ret = 0] /\ CloseReplayTab(ss.ret)
  /\ IF sw.act = NoReplaySession THEN Replace(j, {ReplayJob("create", 0)}) /\ UNCHANGED sw
     ELSE Replace(j, CleanupOf(sw, "failure", TRUE, TRUE, "create")) /\ sw' = Dropped(sw)
  /\ UNCHANGED <<alarms, inbox, news, wiz, srv, tasks, owner, done, replayLeft, replayMishaps>>

\* Another replay is active, stored or being cleaned up.
Overlap == IF sw.act # NoReplaySession \/ ss.ses # NoReplaySession \/ \E n \in Tasks : Ending(n)
           THEN {"overlap"} ELSE {}

\* The tab, the persisted session and payload, the listeners and the alarms; the boot runs beside.
Create(j) ==
  LET n == tasks + 1 IN
  /\ ReplayRunning("create", j)
  /\ tasks' = n /\ owner' = [owner EXCEPT ![n] = ss.dsl]
  /\ tab' = [tab EXCEPT ![n] = [NoTab EXCEPT !.open = TRUE, !.load = "loading"]]
  /\ ss' = [ss EXCEPT !.ses = [task |-> n, hops |-> 0], !.pay = @ \cup {n}]
  /\ sw' = [sw EXCEPT !.act = [task |-> n, hops |-> 0], !.listens = @ \cup {n}]
  /\ alarms' = alarms \cup {n}
  /\ Replace(j, {ReplayJob("boot", n)})
  /\ wiz' = [wiz EXCEPT !.asked = "no"]
  /\ Note(Overlap)
  /\ UNCHANGED <<inbox, news, srv, done, replayLeft>>

\* runReplayBoot: inject the runner and call it; its failure ends its own replay only.
Boot(j) ==
  /\ ReplayRunning("boot", j) /\ Len(inbox) < MaxWire
  /\ Note(IF tab[j.task].open => Active(j.task) /\ j.task \in ss.pay THEN {} ELSE {"late"})
  /\ IF tab[j.task].open
     THEN LET r == RunnerBoot(tab[j.task], j.task) IN
          /\ tab' = [tab EXCEPT ![j.task] = r.tab] /\ PostReplay(r.post) /\ Replace(j, {}) /\ UNCHANGED sw
     ELSE /\ Replace(j, IF Active(j.task) THEN CleanupOf(sw, "failure", TRUE, TRUE, "none") ELSE {})
          /\ sw' = IF Active(j.task) THEN Dropped(sw) ELSE sw
          /\ UNCHANGED <<tab, inbox>>
  /\ UNCHANGED <<ss, alarms, news, wiz, srv, tasks, owner, done, replayLeft>>

\* The document has loaded; the session's listener hears of it.
ReplayTabLoaded(n) ==
  /\ tab[n].open /\ tab[n].load = "loading"
  /\ tab' = [tab EXCEPT ![n].load = "complete"]
  /\ replayJobs' = IF sw.up /\ n \in sw.listens
             THEN replayJobs \cup {[ReplayJob("update", n) EXCEPT !.ses = sw.act]} ELSE replayJobs
  /\ UNCHANGED <<sw, ss, alarms, inbox, news, wiz, srv, tasks, owner, done, replayLeft, replayMishaps>>

\* A listener that gives up ends whatever replay is active.
GiveUp(j) ==
  /\ Replace(j, CleanupOf(sw, "failure", TRUE, TRUE, "none"))
  /\ sw' = IF sw.act = NoReplaySession THEN sw ELSE Dropped(sw)
  /\ Note(IF Active(j.task) THEN {} ELSE {"late"})

\* Too many navigations.
HopsSpent(h) == h > HopLimit

\* onTabUpdated up to persistReplaySession.
Update(j) ==
  LET hops == (IF Active(j.task) THEN sw.act.hops ELSE j.ses.hops) + 1 IN
  /\ ReplayRunning("update", j)
  /\ \/ ~tab[j.task].open /\ Replace(j, {}) /\ UNCHANGED <<sw, ss, replayMishaps>>
     \/ tab[j.task].open /\ tab[j.task].at = "outside" /\ GiveUp(j) /\ UNCHANGED ss
     \/ /\ tab[j.task].open /\ tab[j.task].at # "outside"
        /\ IF HopsSpent(hops) THEN GiveUp(j) /\ UNCHANGED ss
           ELSE /\ ss' = [ss EXCEPT !.ses = [task |-> j.task, hops |-> hops]]
                /\ sw' = IF Active(j.task) THEN [sw EXCEPT !.act.hops = hops] ELSE sw
                /\ Replace(j, {[j EXCEPT !.kind = "inject"]})
                /\ Note(IF Active(j.task) THEN {} ELSE {"late"})
  /\ UNCHANGED <<alarms, tab, inbox, news, wiz, srv, tasks, owner, done, replayLeft>>

\* The end of a replay was reported, and the report is not yet acted upon.
Reported(n) ==
  \/ \E i \in 1..Len(inbox) : inbox[i].kind = "complete" /\ inbox[i].task = n
  \/ \E j \in replayJobs : j.kind \in {"retain", "late"} /\ j.task = n

\* A resume that comes after the replay or its runner ended, and one that goes on in the middle of
\* the rule without any context: the runner compares its progress only with a context it was given.
ResumeMishap(j, t) ==
  (IF Active(j.task) /\ (t.run => ~Reported(j.task)) THEN {} ELSE {"late"})
    \cup (IF t.run /\ ~tab[j.task].run /\ t.pos > 0 /\ ss.ctx[j.task] = NoContext THEN {"blind"} ELSE {})

\* The rest of it: the payload and the context, then the runner is injected to resume.
Inject(j) ==
  /\ ReplayRunning("inject", j) /\ Len(inbox) < MaxWire
  /\ IF j.task \in ss.pay /\ tab[j.task].open
     THEN LET r == RunnerResume(tab[j.task], j.task, ss.ctx[j.task]) IN
          /\ tab' = [tab EXCEPT ![j.task] = r.tab] /\ PostReplay(r.post) /\ Replace(j, {})
          /\ Note(ResumeMishap(j, r.tab)) /\ UNCHANGED sw
     ELSE GiveUp(j) /\ UNCHANGED <<tab, inbox>>
  /\ UNCHANGED <<ss, alarms, news, wiz, srv, tasks, owner, done, replayLeft>>

\* ABORT_REPLAY: the active replay is cancelled; without one a retained tab is closed.
Abort(j) ==
  /\ ReplayRunning("abort", j) /\ OnChain = {} /\ ~Queued("start") /\ Len(news) < MaxWire
  /\ IF sw.act = NoReplaySession
     THEN /\ CloseReplayTab(ss.ret) /\ ss' = [ss EXCEPT !.ret = 0]
          /\ Tell(CancelAnswer([j EXCEPT !.then = "answer"]))
          /\ Replace(j, {}) /\ UNCHANGED sw
     ELSE /\ Replace(j, CleanupOf(sw, "cancelled", TRUE, TRUE, "answer"))
          /\ sw' = Dropped(sw) /\ UNCHANGED <<ss, tab, news>>
  /\ UNCHANGED <<alarms, inbox, wiz, srv, tasks, owner, done, replayLeft, replayMishaps>>

\* The user closes a replay tab.
UserCloses(n) ==
  /\ tab[n].open /\ SpendMishap("close")
  /\ CloseReplayTab(n)
  /\ sw' = ClosedSw(n, sw) /\ replayJobs' = replayJobs \cup ClosedJobs(n)
  /\ UNCHANGED <<ss, alarms, inbox, news, wiz, srv, tasks, owner, done, replayMishaps>>

-----------------------------------------------------------------------------
(* Watchdog, crash and recovery.                                            *)

\* The alarm reads the session from storage.
AlarmSession == ss.ses

\* An alarm finds its session too old: the cleanup gets the stored session, so the active one and
\* its listeners stay until the tab is closed.
Alarm(n) ==
  /\ sw.up /\ n \in alarms /\ AlarmSession.task = n
  /\ replayJobs' = replayJobs \cup {[ReplayJob("clear", n) EXCEPT !.status = "failure", !.abort = TRUE, !.close = TRUE]}
  /\ Note(IF ss.ret = n THEN {"late"} ELSE {})
  /\ UNCHANGED <<sw, ss, alarms, tab, inbox, news, wiz, srv, tasks, owner, done>>

\* The limit is reached while the replay still does something, or after it stopped doing anything.
EarlyAlarm(n) == Alarm(n) /\ SpendMishap("alarm")
LateAlarm(n) == Alarm(n) /\ replayJobs = {} /\ inbox = <<>> /\ ~tab[n].run
                /\ tab[n].load = "complete"
                /\ UNCHANGED replayLeft

\* The service worker dies; the requests it was serving fail in the page.
ReplayCrash ==
  /\ sw.up /\ tasks > 0 /\ SpendMishap("crash")
  /\ sw' = [up |-> FALSE, act |-> NoReplaySession, listens |-> {}, rows |-> [n \in Tasks |-> {}], port |-> FALSE]
  /\ replayJobs' = {}
  /\ wiz' = [wiz EXCEPT !.port = FALSE,
                        !.status = IF wiz.cancel = "asked" THEN "cancelled"
                                   ELSE IF wiz.asked = "yes" THEN "failure" ELSE @,
                        !.asked = "no", !.cancel = "no",
                        !.sent = IF ~wiz.open \/ (wiz.asked = "no" /\ wiz.cancel = "no") \/ @ # Idle THEN @
                                 ELSE [att |-> wiz.att, rows |-> {},
                                       status |-> IF wiz.asked = "yes" THEN "failure" ELSE "cancelled"]]
  /\ Note({"crash"})
  /\ UNCHANGED <<ss, alarms, tab, inbox, news, srv, tasks, owner, done>>

\* The service worker is started by the next event; recovery runs beside that event.
Wake ==
  /\ ~sw.up
  /\ sw' = [sw EXCEPT !.up = TRUE]
  /\ replayJobs' = {ReplayJob("recover", 0)}
  /\ UNCHANGED <<ss, alarms, tab, inbox, news, wiz, srv, tasks, owner, done, replayLeft, replayMishaps>>

\* recoverReplaySessionOnStartup: the stored session.
Recover(j) ==
  /\ ReplayRunning("recover", j)
  /\ Replace(j, IF ss.ses = NoReplaySession THEN {} ELSE {[j EXCEPT !.kind = "restore", !.ses = ss.ses]})
  /\ UNCHANGED <<sw, ss, alarms, tab, inbox, news, wiz, srv, tasks, owner, done, replayLeft, replayMishaps>>

\* A tab that finished loading while the service worker was dead is resumed at once.
RestoreJobs(n) ==
  IF tab[n].load = "complete" THEN {[ReplayJob("update", n) EXCEPT !.ses = [task |-> n, hops |-> 0]]} ELSE {}

\* Its tab is gone and the storage is cleared, or the session is active again.
Restore(j) ==
  /\ ReplayRunning("restore", j)
  /\ IF tab[j.ses.task].open
     THEN /\ sw' = [sw EXCEPT !.act = j.ses, !.listens = @ \cup {j.ses.task}]
          /\ alarms' = alarms \cup {j.ses.task}
          /\ Replace(j, RestoreJobs(j.ses.task))
          /\ Note(IF sw.act # NoReplaySession \/ ss.ses # j.ses \/ ss.ret = j.ses.task \/ Ending(j.ses.task)
                  THEN {"overlap"} ELSE {})
          /\ UNCHANGED ss
     ELSE /\ ss' = ClearReplayStorage(j.ses.task)
          /\ Note(IF ss.ses.task \notin {0, j.ses.task} THEN {"gone", "overlap"} ELSE {"gone"})
          /\ Replace(j, {}) /\ UNCHANGED <<sw, alarms>>
  /\ UNCHANGED <<tab, inbox, news, wiz, srv, tasks, owner, done, replayLeft>>

\* A retained tab that nobody asked for is released at a start of the service worker.
ReleaseRetained(j) ==
  /\ ReplayRunning("recover", j) /\ ss.ret # 0 /\ SpendMishap("ttl")
  /\ ss' = [ss EXCEPT !.ret = 0] /\ CloseReplayTab(ss.ret)
  /\ UNCHANGED <<sw, alarms, replayJobs, inbox, news, wiz, srv, tasks, owner, done, replayMishaps>>

-----------------------------------------------------------------------------
(* The wizard page.                                                         *)

Free == wiz.open /\ wiz.asked = "no" /\ wiz.cancel = "no"
MayAsk == sw.up /\ ChainIdle /\ tasks < MaxTasks /\ SpendMishap("start")

\* The attempt START_DSL_REPLAY answers with: the running one that is remembered, or a new one.
NextAttempt == IF ss.dsl # 0 /\ srv[ss.dsl].status = "running" THEN ss.dsl
               ELSE Cardinality({a \in Tasks : srv[a].status # "none"}) + 1

\* startReplay (it takes effect with the answer, behind the broadcasts): the page is reset, the attempt made and remembered, START_REPLAY sent.
AskReplay(w) ==
  LET a == NextAttempt IN
  /\ MayAsk /\ a \in Tasks
  /\ srv' = IF srv[a].status = "none" THEN [srv EXCEPT ![a].status = "running"] ELSE srv
  /\ ss' = [ss EXCEPT !.dsl = a]
  /\ wiz' = [w EXCEPT !.status = "running", !.att = a, !.rows = {}, !.asked = "yes"]
  /\ replayJobs' = replayJobs \cup {ReplayJob("start", 0)}
  /\ Note(Overlap)

StartReplay ==
  /\ Free /\ wiz.status \in {"idle", "failure", "cancelled"} /\ wiz.sent = Idle /\ news = <<>>
  /\ AskReplay(wiz)
  /\ UNCHANGED <<sw, alarms, tab, inbox, news, tasks, owner, done>>

\* abortReplay: first the service worker, then the attempt.
AbortReplay ==
  /\ Free /\ wiz.status = "running" /\ sw.up /\ wiz.sent = Idle /\ ~Queued("abort") /\ SpendMishap("cancel")
  /\ wiz' = [wiz EXCEPT !.cancel = "asked"]
  /\ replayJobs' = replayJobs \cup {ReplayJob("abort", 0)}
  /\ UNCHANGED <<sw, ss, alarms, tab, inbox, news, srv, tasks, owner, done, replayMishaps>>

\* completeWorkflowReplay takes attempt and rows at once; a second one beside it is dropped.
CompleteReplay(w, status) ==
  IF w.att = 0 \/ w.sent # Idle THEN w
  ELSE [w EXCEPT !.sent = [att |-> w.att, status |-> status, rows |-> w.rows]]

\* The service worker has cancelled: the page shows it and completes the attempt.
AbortAnswered(w) == CompleteReplay([w EXCEPT !.cancel = "no", !.status = "cancelled"], "cancelled")

\* handleReplayProgress keeps the rows.
ProgressShown(w, got) == [w EXCEPT !.rows = @ \cup got]

\* A broadcast of the service worker.
HearNews ==
  /\ news # <<>>
  /\ news' = Tail(news)
  /\ LET m == Head(news) IN
     wiz' = IF ~wiz.open THEN wiz
            ELSE IF m.kind = "cancelled" THEN (IF wiz.cancel = "asked" THEN AbortAnswered(wiz) ELSE wiz)
            ELSE IF m.kind = "result" THEN ProgressShown(wiz, m.got)
            ELSE CompleteReplay([wiz EXCEPT !.status = IF @ = "idle" THEN "running" ELSE @], m.status)
  /\ UNCHANGED <<sw, ss, alarms, replayJobs, tab, inbox, srv, tasks, owner, done, replayLeft, replayMishaps>>

\* What the page shows for an attempt: after a conflict the server's state counts.
ShownStatus(s) == IF s = "verified" THEN "success" ELSE IF s = "failed" THEN "failure" ELSE "running"

\* COMPLETE_DSL_REPLAY (its answer comes behind the broadcasts sent before): the verdict, and the page follows the workflow; an attempt that failed may
\* be repaired by the server, and the page replays at once.
SendComplete ==
  LET v == Verdict(wiz.sent.att, wiz.sent.status = "success", wiz.sent.rows)
      w == [wiz EXCEPT !.sent = Idle] IN
  /\ wiz.open /\ wiz.sent # Idle /\ sw.up /\ ChainIdle /\ news = <<>>
  /\ \/ /\ srv' = v /\ wiz' = [w EXCEPT !.status = ShownStatus(v[wiz.sent.att].status)]
        /\ UNCHANGED <<ss, replayJobs, replayLeft, replayMishaps>>
     \/ /\ srv[wiz.sent.att].status = "running" /\ v[wiz.sent.att].status = "failed"
        /\ wiz.cancel = "no" /\ wiz.asked = "no" /\ MayAsk
        /\ LET a == Cardinality({b \in Tasks : v[b].status # "none"}) + 1 IN
           /\ a \in Tasks
           /\ srv' = [v EXCEPT ![a].status = "running"]
           /\ ss' = [ss EXCEPT !.dsl = a]
           /\ wiz' = [w EXCEPT !.status = "running", !.att = a, !.rows = {}, !.asked = "yes"]
        /\ replayJobs' = replayJobs \cup {ReplayJob("start", 0)} /\ Note(Overlap)
  /\ UNCHANGED <<sw, alarms, tab, inbox, news, tasks, owner, done>>

\* The request fails: the service worker is gone.
SendFails ==
  /\ wiz.sent # Idle /\ ~sw.up
  /\ wiz' = [wiz EXCEPT !.sent = Idle, !.status = "failure"]
  /\ Note({"unfinished"})
  /\ UNCHANGED <<sw, ss, alarms, replayJobs, tab, inbox, news, srv, tasks, owner, done, replayLeft>>

\* The page is closed: its port, its requests and the news it has not heard are gone.
WizardCloses ==
  /\ wiz.open /\ SpendMishap("wizard")
  /\ wiz' = NoWizard /\ sw' = [sw EXCEPT !.port = FALSE]
  /\ Note(IF wiz.sent # Idle \/ news # <<>> \/ wiz.cancel # "no" THEN {"unfinished"} ELSE {})
  /\ UNCHANGED <<ss, alarms, replayJobs, tab, inbox, news, srv, tasks, owner, done>>

\* resumeDSLWorkflow: the remembered attempt and the status of its workflow.
Resumed == [NoWizard EXCEPT !.open = TRUE, !.port = TRUE, !.att = ss.dsl,
  !.status = IF ss.dsl = 0 THEN "idle" ELSE ShownStatus(srv[ss.dsl].status)]

WizardOpens ==
  /\ ~wiz.open /\ sw.up
  /\ wiz' = Resumed /\ sw' = [sw EXCEPT !.port = TRUE]
  /\ UNCHANGED <<ss, alarms, replayJobs, tab, inbox, news, srv, tasks, owner, done, replayLeft, replayMishaps>>

\* attemptReconnect.
Reconnect ==
  /\ wiz.open /\ ~wiz.port /\ sw.up
  /\ wiz' = [wiz EXCEPT !.port = TRUE] /\ sw' = [sw EXCEPT !.port = TRUE]
  /\ UNCHANGED <<ss, alarms, replayJobs, tab, inbox, news, srv, tasks, owner, done, replayLeft, replayMishaps>>

-----------------------------------------------------------------------------
ReplayInit ==
  /\ sw = [up |-> TRUE, act |-> NoReplaySession, listens |-> {}, rows |-> [n \in Tasks |-> {}], port |-> TRUE]
  /\ ss = [ses |-> NoReplaySession, pay |-> {}, ctx |-> [n \in Tasks |-> NoContext],
           rows |-> [n \in Tasks |-> {}], ret |-> 0, dsl |-> 0]
  /\ alarms = {} /\ replayJobs = {} /\ inbox = <<>> /\ news = <<>>
  /\ tab = [n \in Tasks |-> NoTab]
  /\ wiz = [NoWizard EXCEPT !.open = TRUE, !.port = TRUE]
  /\ srv = [a \in Tasks |-> [status |-> "none", rows |-> {}]]
  /\ tasks = 0 /\ owner = [n \in Tasks |-> 0] /\ done = [n \in Tasks |-> {}]
  /\ replayLeft \in ReplayPlans /\ replayMishaps = {}

ReplayWorker ==
  \/ Deliver
  \/ \E j \in replayJobs : \/ CleanupClear(j) \/ CleanupClose(j) \/ CleanupReport(j) \/ Retain(j)
                     \/ LateComplete(j) \/ Start(j) \/ Create(j) \/ Boot(j) \/ Update(j) \/ Inject(j)
                     \/ Abort(j) \/ Recover(j) \/ Restore(j)
  \/ Wake

Runner(n) == RunnerStep(n) \/ RunnerEnd(n)

Page == HearNews \/ SendComplete \/ SendFails \/ Reconnect

Outside ==
  \/ StartReplay \/ AbortReplay \/ WizardCloses \/ WizardOpens \/ ReplayCrash
  \/ \E n \in Tasks : UserCloses(n) \/ RunnerBeat(n) \/ EarlyAlarm(n)
  \/ \E j \in replayJobs : ReleaseRetained(j)

ReplayNext ==
  \/ ReplayWorker \/ Page \/ Outside
  \/ \E n \in Tasks : Runner(n) \/ ReplayTabLoaded(n) \/ LateAlarm(n)

ReplaySpec == ReplayInit /\ [][ReplayNext]_replayVars

-----------------------------------------------------------------------------
(* Properties.                                                              *)

StoredSession == [task : 0..MaxTasks, hops : 0..HopLimit]

\* Every variable has its type; a stored or active hop count never passes the limit (the check of
\* onTabUpdated and the bounded decrement of REPLAY_PROGRESS keep it within).
ReplayTypeOK ==
  /\ sw \in [up : BOOLEAN, act : StoredSession, listens : SUBSET Tasks, rows : [Tasks -> SUBSET Steps], port : BOOLEAN]
  /\ ss \in [ses : StoredSession, pay : SUBSET Tasks, ctx : [Tasks -> [pos : -1..LastStep, got : SUBSET Steps]],
             rows : [Tasks -> SUBSET Steps], ret : 0..MaxTasks, dsl : 0..MaxTasks]
  /\ alarms \subseteq Tasks /\ tasks \in 0..MaxTasks
  /\ tab \in [Tasks -> [open : BOOLEAN, load : {"loading", "complete"}, at : ReplayPages,
                        run : BOOLEAN, abort : BOOLEAN, pos : 0..LastStep, got : SUBSET Steps, ctl : -1..LastStep]]
  /\ wiz.status \in {"idle", "running", "success", "failure", "cancelled"} /\ wiz.att \in 0..MaxTasks
  /\ srv \in [Tasks -> [status : {"none", "running", "verified", "failed"}, rows : SUBSET Steps]]
  /\ owner \in [Tasks -> 0..MaxTasks] /\ done \in [Tasks -> SUBSET Steps]
  /\ replayLeft \in [ReplayPlanKeys -> Nat] /\ replayMishaps \subseteq ReplayMishaps
  /\ Len(inbox) <= MaxWire + 1 /\ Len(news) <= MaxWire + 1

\* An attempt the server accepts was executed to the end by a replay started for it, and so was the
\* replay of a tab kept for approval: resumes after navigations and restarts skip no step, and no
\* other replay's end is taken for its own (except when a handler outlives its replay or a replay
\* is asked for during the cleanup of another).
VerifiedRan ==
  /\ \A a \in Tasks : srv[a].status = "verified"
       => replayMishaps \cap {"late", "overlap"} # {} \/ \E n \in Tasks : owner[n] = a /\ done[n] = Steps
  /\ ss.ret # 0 => done[ss.ret] = Steps

\* An accepted attempt has the value of every extracting step, whether the page or the service
\* worker's fallback completed it, and whatever was lost on the way: a runner that misses values
\* refuses to resume (the check of __ocReplayAutoResume).  Not covered: it was given no context at all.
VerifiedHasRows ==
  \A a \in Tasks : srv[a].status = "verified" /\ "blind" \notin replayMishaps => srv[a].rows = Values

\* At most one tab executes a rule, except after a handler outlived its replay or two requests met.
OneRunner == Cardinality({n \in Tasks : tab[n].run /\ ~tab[n].abort}) > 1 => replayMishaps \cap {"late", "overlap"} # {}

\* A retained tab is closed only together with its retention (a new replay, an abort, its time to
\* live), by the user, or by a cleanup that had begun before the success arrived: a second
\* terminal message of the same run never closes it.
RetainedStays ==
  [][ss.ret # 0 /\ tab[ss.ret].open /\ ~tab'[ss.ret].open
       => ss'.ret # ss.ret \/ replayLeft'["close"] # replayLeft["close"] \/ replayMishaps \cap {"late", "overlap"} # {}]_replayVars

\* What the server accepts of replays: types hold, an accepted attempt ran to its
\* end with its values, in the one tab that executes.
ReplayIsTrue ==
  /\ ReplayTypeOK
  /\ VerifiedRan
  /\ VerifiedHasRows
  /\ OneRunner

=============================================================================
