------------------------------- MODULE LiveRun -------------------------------
(***************************************************************************)
(* The live qualification driver (scripts/live-workflow/support.ts with    *)
(* qualification.ts and task-cases.ts, run by scripts/live-workflow-       *)
(* test.ts).  It boots a server and a browser, drives the wizard through   *)
(* one scenario, runs the approved rule's task cases in a WorkerHost and   *)
(* reports passed or failed.  What it knows of the server it knows from    *)
(* polls that may be lost: the job tracker reads the job ids from the      *)
(* extension's session storage and refreshes what it has found.            *)
(*                                                                         *)
(* The server, its LLM jobs and the wizard are modelled as the driver sees *)
(* them: they may be slow, fail, retry, degrade, repair or answer 5xx.     *)
(***************************************************************************)
EXTENDS Naturals, Sequences, FiniteSets

CONSTANTS Modes,     \* requirement modes to run: intent, candidates, structured
          Cases,     \* expected terminal status of each task case, in order
          Budget,    \* the scenario's input token budget
          MaxQuiet,  \* polls without progress before a wait gives up
          MaxSlips   \* lost polls, failed calls and server errors of a run

ASSUME LiveAssumption ==
  /\ Modes \subseteq {"intent", "candidates", "structured"}
  /\ Cases \in Seq({"done", "failed"}) /\ Cases # <<>>
  /\ MaxQuiet \in Nat

VARIABLES plan,   \* the scenario: mode, whether the profile is dedicated
          drv,    \* the driver: where it is, the phase and case it is in
          own,    \* what the driver has open: processes, directories, tokens
          wf,     \* the server's workflow and jobs
          seen,   \* the tracker's copy
          work,   \* the task of the current case and how it ended
          slips, report

liveVars == <<plan, drv, own, wf, seen, work, slips, report>>

JobNames == {"candidates", "normalize", "generate", "repair"}
JobStates == {"none", "running", "completed", "failed"}
\* "again" stands for retried, cached and degraded output alike.
Qualities == {"first", "again"}
NoJob == [st |-> "none", quality |-> "first", cost |-> 0]

\* The jobs a mode's wizard path starts; the structured path and a chosen
\* candidate are normalised without a provider.
PathOf(mode) == IF mode = "candidates"
                THEN <<"candidates", "normalize", "generate", "replay", "approve">>
                ELSE <<"normalize", "generate", "replay", "approve">>
NeedsProvider(mode, j) == j # "normalize" \/ mode = "intent"

\* Nothing opened, nothing known.
Fresh == /\ own = {} /\ slips = 0 /\ report = "none"
         /\ wf = [job |-> [j \in JobNames |-> NoJob], state |-> "none", replays |-> 0,
                  repairs |-> 0, spec |-> "none", errors |-> FALSE, shown |-> FALSE,
                  wizardError |-> FALSE]
         /\ seen = [job |-> [j \in JobNames |-> NoJob], state |-> "none", replays |-> 0,
                    repairs |-> 0]
         /\ work = [st |-> "none", rows |-> 0, token |-> "none", kept |-> <<>>, oracle |-> TRUE]
DriverAt(pc) == [pc |-> pc, step |-> 1, case |-> 1, quiet |-> 0, errs |-> 0]
LiveRest == Fresh /\ plan = [mode |-> "intent", dedicated |-> FALSE] /\ drv = DriverAt("idle")
LiveInit == Fresh /\ plan \in [mode : Modes, dedicated : BOOLEAN] /\ drv = DriverAt("boot")

Path == PathOf(plan.mode)
Phase == Path[drv.step]
Slip == slips < MaxSlips /\ slips' = slips + 1
GoTo(pc) == drv' = [drv EXCEPT !.pc = pc, !.quiet = 0, !.errs = 0]

-----------------------------------------------------------------------------
(* Boot and recording.                                                     *)

\* bootLiveServer builds, starts and waits for health; its own catch kills
\* the process and removes the database.  The shop fixture is the suite's.
BootLiveServer ==
  /\ drv.pc = "boot"
  /\ \/ own' = own \cup {"server", "db"} /\ GoTo("browser") /\ UNCHANGED slips
     \/ Slip /\ GoTo("end") /\ UNCHANGED own
  /\ UNCHANGED <<plan, wf, seen, work, report>>

\* The catch of bootLiveEnvironment: storage, context, server, profile.
BootUndone == {}

\* bootLiveEnvironment launches the extension-loaded Chromium on a temporary
\* or the dedicated profile and configures its popup.
BootLiveEnvironment ==
  /\ drv.pc = "browser"
  /\ \/ /\ own' = own \cup {"browser"} \cup (IF plan.dedicated THEN {} ELSE {"profile"})
        /\ GoTo("record") /\ UNCHANGED slips
     \/ Slip /\ own' = BootUndone /\ GoTo("end")
  /\ UNCHANGED <<plan, wf, seen, work, report>>

\* captureLiveScenarioRecording or restoreReusableRecording: either ends with
\* a recording the server has, or fails the scenario.
RecordScenario ==
  /\ drv.pc = "record"
  /\ own' = own \cup {"artifacts", "page"}
  /\ \/ GoTo("click") /\ UNCHANGED slips
     \/ Slip /\ GoTo("failed")
  /\ UNCHANGED <<plan, wf, seen, work, report>>

-----------------------------------------------------------------------------
(* Driving the wizard, one click and one wait per phase.                    *)

\* The click that starts a phase, after the checks that must precede it.
ClickPrimary ==
  /\ drv.pc = "click"
  /\ wf' = CASE Phase \in JobNames ->
                  [wf EXCEPT !.job[Phase] = [NoJob EXCEPT !.st = "running"], !.shown = FALSE,
                             !.state = IF Phase = "generate" THEN "generating" ELSE @]
             [] Phase = "replay" -> [wf EXCEPT !.state = "replaying", !.shown = FALSE,
                                               !.replays = @ + 1]
             [] OTHER -> [wf EXCEPT !.state = "approved", !.shown = FALSE]
  /\ GoTo("wait")
  /\ UNCHANGED <<plan, own, seen, work, slips, report>>

\* The wizard shows the phase as reached once the server has.
Reached == CASE Phase \in {"candidates", "normalize"} -> wf.job[Phase].st = "completed"
             [] Phase = "generate" -> wf.state = "awaiting_replay"
             [] Phase = "replay" -> wf.state = "verified"
             [] OTHER -> wf.state = "approved"
WizardShows == /\ drv.pc = "wait" /\ Reached /\ ~wf.shown /\ wf' = [wf EXCEPT !.shown = TRUE]
               /\ UNCHANGED <<plan, drv, own, seen, work, slips, report>>

\* What a poll that gets through leaves: the jobs whose ids are in session
\* storage, and through the workflow its current job and the replays.
CurrentJob == IF wf.state = "repairing" \/ wf.repairs > 0 THEN "repair" ELSE "generate"
Found == {j \in {"candidates", "normalize"} : wf.job[j].st # "none"}
         \cup {j \in {CurrentJob} : wf.state # "none"}
         \cup {j \in JobNames : seen.job[j].st # "none"}
Refreshed == [job |-> [j \in JobNames |-> IF j \in Found THEN wf.job[j] ELSE NoJob],
              state |-> wf.state, replays |-> wf.replays, repairs |-> wf.repairs]

\* A poll: got through, or lost in part; a 5xx is remembered by LiveAPI.
Poll(lost, bad) ==
  /\ seen' = IF lost THEN seen ELSE Refreshed
  /\ wf' = [wf EXCEPT !.errors = @ \/ bad]
  /\ (lost \/ bad) => Slip
  /\ (~lost /\ ~bad) => UNCHANGED slips

TerminalErrors(s) == s.state = "failed" \/ \E j \in JobNames : s.job[j].st = "failed"

\* The base timeout or the stall window is over.
GivesUp(quiet) == quiet >= MaxQuiet

\* waitForPhase: a changed signature opens a new stall window.
Progressed(old, new) == new # old

\* One round of waitForPhase: the check, the poll, the failures it can see,
\* the wizard's own error twice in a row, and the deadline.
WaitForPhase ==
  /\ drv.pc = "wait"
  /\ IF wf.shown
     THEN GoTo("reached") /\ UNCHANGED <<wf, seen, slips>>
     ELSE \E lost, bad \in BOOLEAN :
            /\ Poll(lost, bad)
            /\ LET errs == IF wf.wizardError THEN drv.errs + 1 ELSE 0
                   quiet == IF Progressed(seen, seen') THEN 0 ELSE drv.quiet + 1
               IN IF TerminalErrors(seen') \/ errs >= 2 \/ GivesUp(quiet)
                  THEN GoTo("failed")
                  ELSE drv' = [drv EXCEPT !.errs = errs, !.quiet = quiet]
  /\ UNCHANGED <<plan, own, work, report>>

\* The assertions on the freshly polled state before the next click: a
\* completed job with exactly the structure asked for, the workflow's state,
\* no repair, the approved version the wizard names.
PhaseHolds(s) ==
  CASE Phase = "candidates" -> s.job["candidates"].st = "completed"
    [] Phase = "normalize" -> s.job["normalize"].st = "completed" /\ wf.spec = "valid"
    [] Phase = "generate" -> s.state = "awaiting_replay"
    [] Phase = "replay" -> s.repairs = 0
    [] OTHER -> s.state = "approved"

PhaseReached ==
  /\ drv.pc = "reached"
  /\ \E lost, bad \in BOOLEAN :
       /\ Poll(lost, bad)
       /\ drv' = IF ~PhaseHolds(seen') THEN [drv EXCEPT !.pc = "failed"]
                 ELSE IF drv.step = Len(Path) THEN [drv EXCEPT !.pc = "handover"]
                 ELSE [drv EXCEPT !.pc = "click", !.step = @ + 1]
  /\ UNCHANGED <<plan, own, work, report>>

-----------------------------------------------------------------------------
(* The task cases.                                                         *)

\* A slip: the recording browser is left open on the dedicated profile.
HandedOverOpen == own
\* createAndRunTasks closes the recording browser before the host may open
\* the same profile; otherwise the host gets a directory of its own.
HandedOver == IF plan.dedicated THEN own \ {"browser"} ELSE own \cup {"hostProfile"}
StartHost == /\ drv.pc = "handover" /\ own' = HandedOver \cup {"host"} /\ GoTo("create")
             /\ UNCHANGED <<plan, wf, seen, work, slips, report>>

\* The admin creates the task of the next case with maxRetries 0.
CreateTask ==
  /\ drv.pc = "create"
  /\ \/ /\ work' = [work EXCEPT !.st = "queued", !.rows = 0, !.oracle = TRUE]
        /\ GoTo("poll") /\ UNCHANGED <<slips, wf>>
     \/ Slip /\ GoTo("stop") /\ wf' = [wf EXCEPT !.errors = TRUE] /\ UNCHANGED work
  /\ UNCHANGED <<plan, own, seen, report>>

\* The worker host runs it; the page oracle is captured before the result is
\* reported and must not change it.
CaseTaskEnds == /\ work.st = "queued" /\ "host" \in own
            /\ \E st \in {"done", "failed"}, rows \in 0..1, oracle \in BOOLEAN :
                 /\ work' = [work EXCEPT !.st = st, !.rows = rows, !.oracle = oracle]
                 /\ (oracle /\ UNCHANGED slips) \/ (~oracle /\ Slip)
            /\ UNCHANGED <<plan, drv, own, wf, seen, report>>

\* Polled until terminal or the deadline; a failed poll fails the case.
PollTask ==
  /\ drv.pc = "poll"
  /\ \/ work.st \in {"done", "failed"} /\ GoTo("results") /\ UNCHANGED slips
     \/ work.st = "queued" /\ UNCHANGED slips
        /\ IF GivesUp(drv.quiet + 1) THEN GoTo("stop") ELSE drv' = [drv EXCEPT !.quiet = @ + 1]
  /\ UNCHANGED <<plan, own, wf, seen, work, report>>

\* assertTaskCaseResult and the oracle: the expected status, rows if and only
\* if the case is to succeed, the oracle captured.
CaseHolds == /\ work.st = Cases[drv.case] /\ work.oracle
             /\ (work.rows > 0) = (Cases[drv.case] = "done")
CheckResults == /\ drv.pc = "results" /\ GoTo(IF CaseHolds THEN "token" ELSE "stop")
                /\ UNCHANGED <<plan, own, wf, seen, work, slips, report>>

\* verifyRetrieval: a token, the two surfaces compared, and in the finally
\* the token revoked and probed.
CreateToken == /\ drv.pc = "token"
               /\ \/ /\ own' = own \cup {"token"} /\ work' = [work EXCEPT !.token = "live"]
                     /\ GoTo("compare") /\ UNCHANGED slips
                  \/ Slip /\ GoTo("stop") /\ UNCHANGED <<own, work>>
               /\ UNCHANGED <<plan, wf, seen, report>>
CompareSurfaces == /\ drv.pc = "compare"
                   /\ \/ work' = [work EXCEPT !.token = "agreed"] /\ UNCHANGED slips
                      \/ Slip /\ work' = [work EXCEPT !.token = "differs"]
                   /\ GoTo("revoke")
                   /\ UNCHANGED <<plan, own, wf, seen, report>>

\* The case is added to the verified ones when everything of it succeeded.
KeepsCase(revoked) == work.token = "agreed" /\ revoked

RevokeToken ==
  /\ drv.pc = "revoke"
  /\ \E revoked \in BOOLEAN :
       /\ (revoked /\ UNCHANGED slips) \/ (~revoked /\ Slip)
       /\ own' = IF revoked THEN own \ {"token"} ELSE own
       /\ work' = [work EXCEPT !.token = "none", !.st = "none",
                               !.kept = IF KeepsCase(revoked) THEN Append(@, <<work.st, work.rows>>) ELSE @]
       /\ drv' = IF ~KeepsCase(revoked) THEN [drv EXCEPT !.pc = "stop"]
                 ELSE IF drv.case = Len(Cases) THEN [drv EXCEPT !.pc = "stop"]
                 ELSE [drv EXCEPT !.pc = "create", !.case = @ + 1]
  /\ UNCHANGED <<plan, wf, seen, report>>

\* The finally of createAndRunTasks: the host stops, its directory goes.
StopHost == /\ drv.pc = "stop" /\ own' = own \ {"host", "hostProfile"}
            /\ GoTo(IF Len(work.kept) = Len(Cases) THEN "judge" ELSE "failed")
            /\ UNCHANGED <<plan, wf, seen, work, slips, report>>

-----------------------------------------------------------------------------
(* The verdict and the cleanup.                                            *)

Started(s) == {j \in JobNames : s.job[j].st # "none"}
CostOf(s) == Cardinality({j \in Started(s) : s.job[j].cost = 1})

\* assertStrictQualification and the suite's invariants: every job found
\* completed in its first attempt with the provider's own output, no repair,
\* one replay.
Strict(s) == /\ \A j \in Started(s) : /\ s.job[j].st = "completed"
                                      /\ NeedsProvider(plan.mode, j) => s.job[j].quality = "first"
             /\ Started(s) # {} /\ s.job["repair"].st = "none"
             /\ s.repairs = 0 /\ s.replays = 1

\* runScenario's last checks: the cost guard, the strict contract, no 5xx.
Judge == /\ drv.pc = "judge"
         /\ IF CostOf(seen) <= Budget /\ Strict(seen) /\ ~wf.errors
            THEN report' = "passed" /\ own' = own \ {"artifacts", "page"} /\ GoTo("shutdown")
            ELSE GoTo("failed") /\ UNCHANGED <<own, report>>
         /\ UNCHANGED <<plan, wf, seen, work, slips>>

\* The catch and the finally: diagnostics are kept, the pages closed.
Fail == /\ drv.pc = "failed" /\ report' = "failed" /\ own' = own \ {"page"} /\ GoTo("shutdown")
        /\ UNCHANGED <<plan, wf, seen, work, slips>>

\* shutdownLiveEnvironment in the finally of main().
ShutdownLive == /\ drv.pc = "shutdown" /\ GoTo("end")
                /\ own' = own \ {"browser", "server", "db", "profile"}
                /\ UNCHANGED <<plan, wf, seen, work, slips, report>>

-----------------------------------------------------------------------------
(* The server, external to the driver.                                     *)

JobEnds(j) ==
  /\ "server" \in own /\ wf.job[j].st = "running"
  /\ \E st \in {"completed", "failed"}, q \in Qualities, c \in 0..1, spec \in {"valid", "bad"} :
       /\ q = "first" \/ st = "completed"
       /\ c = 0 \/ (q = "first" /\ st = "completed" /\ NeedsProvider(plan.mode, j))
       /\ spec = "valid" \/ j = "normalize"
       /\ wf' = [wf EXCEPT !.job[j] = [st |-> st, quality |-> q, cost |-> c],
                   !.spec = IF j = "normalize" THEN spec ELSE @,
                   !.state = IF j \notin {"generate", "repair"} THEN @
                             ELSE IF st = "completed" THEN "awaiting_replay" ELSE "failed"]
  /\ UNCHANGED <<plan, drv, own, seen, work, slips, report>>

\* The replay the wizard runs ends; a failed one may be repaired and then
\* replayed again by the wizard, or fails the workflow.
ReplayEnds ==
  /\ "server" \in own /\ wf.state = "replaying"
  /\ \/ wf' = [wf EXCEPT !.state = "verified"]
     \/ wf' = [wf EXCEPT !.state = "failed"]
     \/ /\ wf.repairs = 0
        /\ wf' = [wf EXCEPT !.state = "repairing", !.repairs = 1,
                            !.job["repair"] = [NoJob EXCEPT !.st = "running"]]
  /\ UNCHANGED <<plan, drv, own, seen, work, slips, report>>
ReplaysAgain == /\ Phase = "replay" /\ wf.state = "awaiting_replay" /\ wf.repairs = 1
                /\ drv.pc = "wait" /\ wf' = [wf EXCEPT !.state = "replaying", !.replays = @ + 1]
                /\ UNCHANGED <<plan, drv, own, seen, work, slips, report>>
WizardFails == /\ drv.pc = "wait" /\ ~wf.wizardError /\ Slip
               /\ wf' = [wf EXCEPT !.wizardError = TRUE]
               /\ UNCHANGED <<plan, drv, own, seen, work, report>>

Driver == \/ BootLiveServer \/ BootLiveEnvironment \/ RecordScenario \/ ClickPrimary
          \/ WaitForPhase \/ PhaseReached \/ StartHost \/ CreateTask \/ PollTask \/ CheckResults
          \/ CreateToken \/ CompareSurfaces \/ RevokeToken \/ StopHost \/ Judge \/ Fail
          \/ ShutdownLive
LiveNext == \/ Driver \/ WizardShows \/ CaseTaskEnds \/ ReplayEnds \/ ReplaysAgain \/ WizardFails
            \/ \E j \in JobNames : JobEnds(j)

\* The script is never preempted for good; the server owes it nothing.
LiveFairness == WF_liveVars(Driver)
LiveSpec == LiveInit /\ [][LiveNext]_liveVars /\ LiveFairness

-----------------------------------------------------------------------------
(* Properties.                                                             *)

\* Types of the driver's state; no wait outlives its quiet polls.
LiveTypeOK ==
  /\ plan \in [mode : {"intent", "candidates", "structured"}, dedicated : BOOLEAN]
  /\ drv.pc \in {"idle", "boot", "browser", "record", "click", "wait", "reached", "handover",
                 "create", "poll", "results", "token", "compare", "revoke", "stop", "judge",
                 "failed", "shutdown", "end"}
  /\ drv.step \in 1..5 /\ drv.case \in 1..Len(Cases) /\ drv.quiet \in 0..MaxQuiet /\ drv.errs \in 0..1
  /\ own \subseteq {"server", "db", "browser", "profile", "host", "hostProfile", "artifacts",
                    "page", "token"}
  /\ \A j \in JobNames : wf.job[j].st \in JobStates /\ seen.job[j].st \in JobStates
  /\ wf.replays \in 0..2 /\ wf.repairs \in 0..1 /\ Len(work.kept) <= Len(Cases)
  /\ report \in {"none", "passed", "failed"}

\* "Fail closed unless the paid workflow was exactly one first-pass path":
\* whatever polls were lost, a passed report is true of the server: every job
\* it ran completed at once and undegraded within the budget, one replay, no
\* repair, a requirement of the right structure, an approved version, every
\* task case as expected and every token revoked, and no 5xx.
PassedIsEarned ==
  report = "passed" => /\ \A j \in JobNames : wf.job[j].st \in {"none", "completed"}
                       /\ \A j \in {"candidates", "generate"} : wf.job[j].quality = "first"
                       /\ plan.mode = "intent" => wf.job["normalize"].quality = "first"
                       /\ wf.repairs = 0 /\ wf.replays = 1
                       /\ CostOf(wf) <= Budget /\ wf.state = "approved"
                       /\ wf.spec = "valid" /\ ~wf.errors
                       /\ work.kept = [c \in DOMAIN Cases |-> <<Cases[c], IF Cases[c] = "done" THEN 1 ELSE 0>>]
                       /\ "token" \notin own

\* Every way out gives back what was opened: at the end no server, database,
\* browser, worker host or temporary profile is left, artifacts only of a
\* failed run, a token only when its revocation failed and the run with it.
NothingLeftBehind ==
  drv.pc = "end" => own \subseteq (IF report = "failed" THEN {"artifacts", "token"} ELSE {})

\* "Chromium profile locks permit only one owner": the worker host and the
\* recording browser never have the dedicated profile open together.
OneProfileOwner == plan.dedicated => ~({"browser", "host"} \subseteq own)

\* A live run: types hold, a pass is earned, nothing is left behind and no profile
\* has two owners.
RunIsHonest ==
  /\ LiveTypeOK
  /\ PassedIsEarned
  /\ NothingLeftBehind
  /\ OneProfileOwner

=============================================================================
