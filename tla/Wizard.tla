------------------------------- MODULE Wizard -------------------------------
(***************************************************************************)
(* From a recording to an approved rule: the wizard page                   *)
(* (extension/src/intent/intent-page.ts), the request handlers of the      *)
(* service worker it calls (extension/src/background.ts) and, as far as    *)
(* they see it, the server's requirement jobs and DSL workflows.           *)
(*                                                                         *)
(* A request of the page is a call; its handler is cut where it waits:     *)
(* the POST ("send"), the storage key of what was made ("key"), the poll   *)
(* ("poll"), the answer ("answer").  The page may be closed and opened     *)
(* again meanwhile (its handler goes on, the answer is lost), and the      *)
(* service worker may die (every call fails; chrome.storage.session and    *)
(* the server's jobs stay).  How a replay runs is ReplaySession's matter:  *)
(* here it ends some way or other.                                         *)
(***************************************************************************)
EXTENDS Integers, FiniteSets, TLC

CONSTANTS
  MaxJobs,       \* bound: requirement jobs
  MaxWorkflows,  \* bound: DSL workflows
  MaxRule,       \* bound: versions of a provisional rule
  WizardPlans    \* bounds: how often each outside event may happen

WizardPlanKeys == {"open", "marks", "edit", "crash", "record", "fail", "deadline", "ask", "feedback", "legacy"}

JobIds == 1..MaxJobs
WorkflowIds == 1..MaxWorkflows

VARIABLES
  wizardPage,       \* the wizard page
  keys,       \* chrome.storage.session: job keys, workflow session, last rule
  recd,       \* the stored recording: its identity and the version of its marks
  rjobs,      \* requirement jobs at the server
  confirmed,  \* requirements confirmed at the server, with what the editor showed
  flows,      \* DSL workflows at the server
  wizardCalls,      \* requests under way
  spare,      \* outside events left of each kind
  saved,      \* rules generated and uploaded without a workflow, with what the page had confirmed
  slips       \* history: what some properties do not cover

wizardVars == <<wizardPage, keys, recd, rjobs, confirmed, flows, wizardCalls, spare, saved, slips>>

Blank == [by |-> "none", ed |-> 0, norm |-> FALSE]
NoKey == [rec |-> 0, marks |-> 0, job |-> 0]
NoDsl == [wf |-> 0, rec |-> 0, base |-> FALSE]
NoRJob == [kind |-> "none", rec |-> 0, marks |-> 0, status |-> "none", text |-> Blank, from |-> 0]
NoFlow == [req |-> 0, base |-> 0, status |-> "none", rule |-> 0, verified |-> 0]
NoCall == [op |-> "none", wizardPage |-> 0, stage |-> "send", job |-> 0, wf |-> 0, rec |-> 0, marks |-> 0,
           text |-> Blank, from |-> 0, status |-> "none", rule |-> 0, ok |-> FALSE]
ClosedPage == [open |-> FALSE, no |-> 0, step |-> "none", asked |-> FALSE, cands |-> 0, sel |-> 0,
               custom |-> FALSE, editor |-> Blank, basel |-> Blank, norm |-> FALSE, req |-> 0, job |-> 0,
               ready |-> FALSE, wf |-> 0, rule |-> 0, v2 |-> FALSE, steps |-> {}, rep |-> "idle", correct |-> FALSE,
               loading |-> FALSE, fly |-> {}]
PageSteps == {"none", "intent", "requirement", "requirement-confirmed", "preview", "replay", "confirm", "save"}

SpendOn(k) == spare[k] > 0 /\ spare' = [spare EXCEPT ![k] = @ - 1]
Slip(s) == slips' = slips \cup s
WizardAsk(op, f) == wizardCalls' = wizardCalls \cup {[f EXCEPT !.op = op, !.wizardPage = wizardPage.no]}
AskWith(p, c, op, f) == (wizardCalls \ {c}) \cup {[f EXCEPT !.op = op, !.wizardPage = p.no]}

\* withInFlight: one operation of a kind at a time.
WithInFlight(p, op) == [p EXCEPT !.fly = @ \cup {op}]

\* Primary and secondary buttons are dead while any operation is in flight.
ButtonsLive == wizardPage.open /\ wizardPage.fly = {}

-----------------------------------------------------------------------------
(* The server.                                                              *)

NextJob == Cardinality({j \in JobIds : rjobs[j].status # "none"}) + 1
NextFlow == Cardinality({w \in WorkflowIds : flows[w].status # "none"}) + 1

\* A requirement job comes to its end.
WizardJobEnds(j) ==
  /\ rjobs[j].status = "running"
  /\ \/ rjobs' = [rjobs EXCEPT ![j].status = "completed"] /\ UNCHANGED spare
     \/ rjobs' = [rjobs EXCEPT ![j].status = "failed"] /\ SpendOn("fail")
  /\ UNCHANGED <<wizardPage, keys, recd, confirmed, flows, wizardCalls, saved, slips>>

\* Generation and repair make the next version of the rule, or fail.
FlowSettles(w) ==
  /\ flows[w].status \in {"generating", "repairing"}
  /\ \/ /\ flows[w].rule < MaxRule
        /\ flows' = [flows EXCEPT ![w].status = "awaiting_replay", ![w].rule = @ + 1]
        /\ UNCHANGED spare
     \/ /\ flows' = [flows EXCEPT ![w].status = "failed"]
        /\ IF flows[w].rule = MaxRule THEN UNCHANGED spare ELSE SpendOn("fail")
  /\ UNCHANGED <<wizardPage, keys, recd, rjobs, confirmed, wizardCalls, saved, slips>>

\* The lineage of a candidate: a completed candidates job for the same marks.
LineageOk(from, marks) ==
  from = 0 \/ (rjobs[from].kind = "candidates" /\ rjobs[from].status = "completed" /\ rjobs[from].marks = marks)

-----------------------------------------------------------------------------
(* Opening the page: what is under way is taken up again.                   *)

OpenWizard ==
  /\ ~wizardPage.open /\ SpendOn("open")
  /\ wizardPage' = [ClosedPage EXCEPT !.open = TRUE, !.no = wizardPage.no + 1]
  /\ wizardCalls' = wizardCalls \cup {[NoCall EXCEPT !.op = "resume", !.wizardPage = wizardPage.no + 1, !.wf = keys.dsl.wf]}
  /\ UNCHANGED <<keys, recd, rjobs, confirmed, flows, saved, slips>>

\* reconcileOrphanedRequirementJobs with the page's pickLive: the stored jobs that still run, the
\* candidates job first.  Neither recording nor marks are compared.
OrphanedJob ==
  LET live(k) == k.job # 0 /\ rjobs[k.job].status = "running" IN
  IF live(keys.cand) THEN keys.cand.job ELSE IF live(keys.norm) THEN keys.norm.job ELSE 0

\* A stored workflow is only resumable for the recording it was created from.
SessionIsStale == keys.dsl.rec \notin {0, recd.id}

\* RESUME_DSL_WORKFLOW up to the poll.
ResumeSend(c) ==
  /\ c.op = "resume" /\ c.stage = "send"
  /\ IF keys.dsl.wf = 0
     THEN /\ wizardCalls' = (wizardCalls \ {c}) \cup {[c EXCEPT !.stage = "answer", !.job = OrphanedJob, !.ok = TRUE, !.status = "none"]}
          /\ UNCHANGED keys
     ELSE IF SessionIsStale
     THEN /\ keys' = [keys EXCEPT !.dsl = NoDsl]
          /\ wizardCalls' = (wizardCalls \ {c}) \cup {[c EXCEPT !.stage = "answer", !.ok = TRUE, !.status = "none"]}
     ELSE /\ wizardCalls' = (wizardCalls \ {c}) \cup {[c EXCEPT !.stage = "poll", !.wf = keys.dsl.wf]}
          /\ UNCHANGED keys
  /\ UNCHANGED <<wizardPage, recd, rjobs, confirmed, flows, spare, saved, slips>>

\* rememberDSLWorkflow: the session is written anew; a baseline that is not passed is gone.
RememberDSLWorkflow(w, base) ==
  [keys EXCEPT !.dsl = [wf |-> w, rec |-> rjobs[flows[w].req].rec, base |-> base]]

\* resumeDSLWorkflow: the step that fits the workflow.
ResumedPage(p, c) ==
  LET q == [p EXCEPT !.v2 = TRUE, !.req = flows[c.wf].req, !.wf = c.wf, !.rule = c.rule, !.norm = FALSE] IN
  CASE c.status = "awaiting_replay" /\ c.rule # 0 -> [q EXCEPT !.norm = TRUE, !.step = "preview"]
    [] c.status = "replaying" -> [q EXCEPT !.norm = TRUE, !.rep = "running", !.step = "replay"]
    [] c.status = "awaiting_confirmation" -> [q EXCEPT !.rep = "success", !.step = "replay"]
    [] c.status = "approved" -> [q EXCEPT !.step = "save"]
    [] OTHER -> [q EXCEPT !.rep = "failure", !.step = "replay", !.correct = c.rule = 0 /\ keys.dsl.base]

\* restoreFromReconciledJobs: the page waits for the job on the intent step.
RestoredPage(p, j) == [p EXCEPT !.v2 = TRUE, !.asked = TRUE, !.job = j, !.loading = TRUE, !.step = "intent"]

\* An orphaned job that is not of the recording and marks at hand, or a normalisation.
OrphanSlip(j) ==
  (IF <<rjobs[j].rec, rjobs[j].marks>> # <<recd.id, recd.marks>> THEN {"orphan"} ELSE {})
    \cup (IF rjobs[j].kind = "normalize" THEN {"spinner"} ELSE {})

ResumeAnswer(c) ==
  /\ c.op = "resume" /\ c.stage = "answer" /\ wizardPage.open /\ c.wizardPage = wizardPage.no
  /\ \/ /\ ~c.ok    \* an error: a bare intent step, or nothing at all
        /\ wizardPage' = [wizardPage EXCEPT !.step = IF c.wf = 0 THEN @ ELSE "intent"] /\ wizardCalls' = wizardCalls \ {c} /\ UNCHANGED <<keys, slips>>
     \/ /\ c.ok /\ c.status # "none"
        /\ wizardPage' = ResumedPage(wizardPage, c) /\ wizardCalls' = wizardCalls \ {c} /\ UNCHANGED <<keys, slips>>
     \/ /\ c.ok /\ c.status = "none" /\ c.wf = 0 /\ c.job # 0
        /\ wizardPage' = RestoredPage(wizardPage, c.job) /\ Slip(OrphanSlip(c.job))
        /\ wizardCalls' = AskWith(wizardPage, c, "resumeJob", [NoCall EXCEPT !.job = c.job]) /\ UNCHANGED keys
     \/ /\ c.ok /\ c.status = "none" /\ (c.wf # 0 \/ c.job = 0)
        /\ wizardPage' = [wizardPage EXCEPT !.loading = TRUE]
        /\ keys' = IF c.wf = 0 THEN [keys EXCEPT !.cand = NoKey, !.norm = NoKey] ELSE keys
        /\ wizardCalls' = AskWith(wizardPage, c, "probe", NoCall) /\ UNCHANGED slips
  /\ UNCHANGED <<recd, rjobs, confirmed, flows, spare, saved>>

-----------------------------------------------------------------------------
(* Handlers of the service worker.                                          *)

Move(c, stage) == wizardCalls' = (wizardCalls \ {c}) \cup {[c EXCEPT !.stage = stage]}
Refuse(c) == wizardCalls' = (wizardCalls \ {c}) \cup {[c EXCEPT !.stage = "answer", !.ok = FALSE]}

\* GET_REQUIREMENT_WORKFLOW: the stored job counts for the same recording and marks only.
Resumable == IF keys.cand.job # 0 /\ keys.cand.rec = recd.id /\ keys.cand.marks = recd.marks THEN keys.cand.job ELSE 0

\* The server makes a job for the recording and the marks the handler has read (beyond the bound it
\* refuses).
Submitted(c, kind) ==
  \/ NextJob \notin JobIds /\ Refuse(c) /\ UNCHANGED rjobs
  \/ /\ NextJob \in JobIds
     /\ rjobs' = [rjobs EXCEPT ![NextJob] = [kind |-> kind, rec |-> recd.id, marks |-> recd.marks,
                                             status |-> "running", text |-> c.text, from |-> c.from]]
     /\ wizardCalls' = (wizardCalls \ {c}) \cup {[c EXCEPT !.stage = "key", !.job = NextJob, !.rec = recd.id, !.marks = recd.marks]}

WorkflowSend(c) ==
  /\ c.op \in {"probe", "candidates"} /\ c.stage = "send" /\ spare["legacy"] = 0
  /\ \/ Resumable # 0 /\ UNCHANGED rjobs
        /\ wizardCalls' = (wizardCalls \ {c}) \cup {[c EXCEPT !.stage = "poll", !.job = Resumable]}
     \/ Resumable = 0 /\ c.op = "probe" /\ UNCHANGED rjobs
        /\ wizardCalls' = (wizardCalls \ {c}) \cup {[c EXCEPT !.stage = "answer", !.ok = TRUE, !.status = "none"]}
     \/ Resumable = 0 /\ c.op = "candidates" /\ Submitted(c, "candidates")
  /\ UNCHANGED <<wizardPage, keys, recd, confirmed, flows, spare, saved, slips>>

\* NORMALIZE_REQUIREMENT: the server refuses a wrong lineage.
NormalizeSend(c) ==
  /\ c.op \in {"prepare", "normalize"} /\ c.stage = "send"
  /\ IF LineageOk(c.from, recd.marks) THEN Submitted(c, "normalize") ELSE Refuse(c) /\ UNCHANGED rjobs
  /\ UNCHANGED <<wizardPage, keys, recd, confirmed, flows, spare, saved, slips>>

\* The job's key, with what it was made for.
KeyJob(c) ==
  LET key == [rec |-> c.rec, marks |-> c.marks, job |-> c.job] IN
  /\ c.stage = "key" /\ c.op \in {"candidates", "prepare", "normalize"}
  /\ keys' = IF c.op = "candidates" THEN [keys EXCEPT !.cand = key] ELSE [keys EXCEPT !.norm = key]
  /\ Move(c, "poll")
  /\ UNCHANGED <<wizardPage, recd, rjobs, confirmed, flows, spare, saved, slips>>

\* RETRY_REQUIREMENT_JOB: only a failed job is run again.
RetrySend(c) ==
  /\ c.op = "retry" /\ c.stage = "send"
  /\ IF rjobs[c.job].status = "failed"
     THEN rjobs' = [rjobs EXCEPT ![c.job].status = "running"] /\ Move(c, "poll")
     ELSE Refuse(c) /\ UNCHANGED rjobs
  /\ UNCHANGED <<wizardPage, keys, recd, confirmed, flows, spare, saved, slips>>

\* The resume path polls an existing job.
ResumeJobSend(c) ==
  /\ c.op = "resumeJob" /\ c.stage = "send" /\ Move(c, "poll")
  /\ UNCHANGED <<wizardPage, keys, recd, rjobs, confirmed, flows, spare, saved, slips>>

\* pollRequirementJob: the job's end, or the deadline.
PollJob(c) ==
  /\ c.stage = "poll" /\ c.op \in {"probe", "candidates", "prepare", "normalize", "retry", "resumeJob"}
  /\ \/ /\ rjobs[c.job].status # "running" /\ UNCHANGED spare
        /\ wizardCalls' = (wizardCalls \ {c}) \cup {[c EXCEPT !.stage = "answer", !.ok = rjobs[c.job].status = "completed",
                                                  !.status = rjobs[c.job].status]}
     \/ /\ rjobs[c.job].status = "running" /\ SpendOn("deadline")
        /\ wizardCalls' = (wizardCalls \ {c}) \cup {[c EXCEPT !.stage = "answer", !.ok = FALSE, !.job = 0]}
  /\ UNCHANGED <<wizardPage, keys, recd, rjobs, confirmed, flows, saved, slips>>

\* CONFIRM_REQUIREMENT; a repeat is a success.
ConfirmSend(c) ==
  /\ c.op = "confirm" /\ c.stage = "send"
  /\ confirmed' = confirmed \cup {[req |-> c.job, shown |-> c.text]}
  /\ wizardCalls' = (wizardCalls \ {c}) \cup {[c EXCEPT !.stage = "answer", !.ok = TRUE]}
  /\ UNCHANGED <<wizardPage, keys, recd, rjobs, flows, spare, saved, slips>>

\* CREATE_DSL_WORKFLOW: the baseline is made of the recording at hand.
CreateSend(c) ==
  /\ c.op = "create" /\ c.stage = "send"
  /\ IF NextFlow \in WorkflowIds /\ \E r \in confirmed : r.req = c.job
     THEN /\ flows' = [flows EXCEPT ![NextFlow] = [NoFlow EXCEPT !.req = c.job, !.base = recd.id, !.status = "generating"]]
          /\ wizardCalls' = (wizardCalls \ {c}) \cup {[c EXCEPT !.stage = "key", !.wf = NextFlow]}
     ELSE Refuse(c) /\ UNCHANGED flows
  /\ UNCHANGED <<wizardPage, keys, recd, rjobs, confirmed, spare, saved, slips>>

KeyFlow(c) ==
  /\ c.op = "create" /\ c.stage = "key"
  /\ keys' = RememberDSLWorkflow(c.wf, TRUE) /\ Move(c, "poll")
  /\ UNCHANGED <<wizardPage, recd, rjobs, confirmed, flows, spare, saved, slips>>

\* CORRECT_DSL_WORKFLOW: a failed workflow gets the corrected rule.
CorrectSend(c) ==
  LET w == c.wf IN
  /\ c.op = "correct" /\ c.stage = "send"
  /\ IF flows[w].status \in {"failed", "awaiting_replay"} /\ flows[w].rule < MaxRule
     THEN /\ flows' = [flows EXCEPT ![w].status = "awaiting_replay", ![w].rule = @ + 1]
          /\ keys' = RememberDSLWorkflow(w, keys.dsl.wf = w /\ keys.dsl.base)
          /\ wizardCalls' = (wizardCalls \ {c}) \cup {[c EXCEPT !.stage = "answer", !.ok = TRUE, !.status = "awaiting_replay",
                                                    !.rule = flows[w].rule + 1]}
     ELSE Refuse(c) /\ UNCHANGED <<flows, keys>>
  /\ UNCHANGED <<wizardPage, recd, rjobs, confirmed, spare, saved, slips>>

\* START_DSL_REPLAY.
ReplaySend(c) ==
  LET w == c.wf IN
  /\ c.op = "replay" /\ c.stage = "send"
  /\ IF flows[w].status \in {"awaiting_replay", "awaiting_confirmation", "replaying"}
     THEN /\ flows' = [flows EXCEPT ![w].status = "replaying"]
          /\ keys' = RememberDSLWorkflow(w, FALSE)
          /\ wizardCalls' = (wizardCalls \ {c}) \cup {[c EXCEPT !.stage = "answer", !.ok = TRUE]}
     ELSE Refuse(c) /\ UNCHANGED <<flows, keys>>
  /\ UNCHANGED <<wizardPage, recd, rjobs, confirmed, spare, saved, slips>>

\* What the server makes of the end of a replay: verified, a repair, the reserved round, or failure.
ReplayOutcomes == {"awaiting_confirmation", "repairing", "awaiting_replay", "failed"}

\* COMPLETE_DSL_REPLAY; a conflict is resolved by the workflow as it is.
CompleteSend(c) ==
  LET w == c.wf IN
  /\ c.op = "complete" /\ c.stage = "send"
  /\ \/ /\ flows[w].status = "replaying"
        /\ \E s \in ReplayOutcomes :
             /\ IF s = "awaiting_confirmation" THEN UNCHANGED spare ELSE SpendOn("fail")
             /\ flows' = [flows EXCEPT ![w].status = s,
                                       ![w].verified = IF s = "awaiting_confirmation" THEN flows[w].rule ELSE @]
             /\ wizardCalls' = (wizardCalls \ {c}) \cup {[c EXCEPT !.stage = "poll", !.from = IF s = "repairing" THEN 1 ELSE 0]}
     \/ flows[w].status # "replaying" /\ Move(c, "poll") /\ UNCHANGED <<flows, spare>>
  /\ UNCHANGED <<wizardPage, keys, recd, rjobs, confirmed, saved, slips>>

\* REQUEST_DSL_FEEDBACK_REPAIR: a replay that the user rejects, and its repair.
FeedbackSend(c) ==
  LET w == c.wf IN
  /\ c.op = "feedback" /\ c.stage = "send"
  /\ IF flows[w].status \in {"awaiting_replay", "awaiting_confirmation"} /\ flows[w].rule # 0
     THEN flows' = [flows EXCEPT ![w].status = "repairing", ![w].verified = 0] /\ Move(c, "poll")
     ELSE Refuse(c) /\ UNCHANGED flows
  /\ UNCHANGED <<wizardPage, keys, recd, rjobs, confirmed, spare, saved, slips>>

\* pollDSLWorkflow, after which the workflow is remembered.
PollFlow(c) ==
  LET w == c.wf IN
  /\ c.stage = "poll" /\ c.op \in {"resume", "create", "complete", "feedback"}
  /\ \/ /\ flows[w].status \notin {"generating", "repairing"} /\ UNCHANGED spare
        /\ keys' = RememberDSLWorkflow(w, c.op = "create")
        /\ wizardCalls' = (wizardCalls \ {c}) \cup {[c EXCEPT !.stage = "answer", !.ok = TRUE, !.status = flows[w].status,
                                                  !.rule = flows[w].rule]}
     \/ /\ flows[w].status \in {"generating", "repairing"} /\ SpendOn("deadline")
        /\ Refuse(c) /\ UNCHANGED keys
  /\ Slip(IF keys.dsl.wf # w /\ keys'.dsl.wf = w THEN {"raced"} ELSE {})
  /\ UNCHANGED <<wizardPage, recd, rjobs, confirmed, flows, saved>>

\* The server approves a verified rule only.
Approvable(w) == flows[w].status = "awaiting_confirmation"

\* CONFIRM_DSL_WORKFLOW.
ApproveSend(c) ==
  /\ c.op = "approve" /\ c.stage = "send"
  /\ IF Approvable(c.wf)
     THEN /\ flows' = [flows EXCEPT ![c.wf].status = "approved"]
          /\ keys' = [keys EXCEPT !.dsl.wf = c.wf]
          /\ wizardCalls' = (wizardCalls \ {c}) \cup {[c EXCEPT !.stage = "answer", !.ok = TRUE]}
     ELSE Refuse(c) /\ UNCHANGED <<flows, keys>>
  /\ UNCHANGED <<wizardPage, recd, rjobs, confirmed, spare, saved, slips>>

\* UPDATE_RECORDING_MARKS: the recording changes and everything derived from it is forgotten.
MarksKeys == [keys EXCEPT !.cand = NoKey, !.norm = NoKey, !.dsl = NoDsl]

MarksSend(c) ==
  /\ c.op = "marks" /\ c.stage = "send"
  /\ recd' = [recd EXCEPT !.marks = @ + 1]
  /\ keys' = MarksKeys
  /\ wizardCalls' = (wizardCalls \ {c}) \cup {[c EXCEPT !.stage = "answer", !.ok = TRUE]}
  /\ Slip(IF wizardCalls = {c} /\ c.wizardPage = wizardPage.no /\ wizardPage.open THEN {} ELSE {"raced"})
  /\ UNCHANGED <<wizardPage, rjobs, confirmed, flows, spare, saved>>

-----------------------------------------------------------------------------
(* Clicks and input.                                                        *)

\* The primary button of the intent step: candidates on demand, or on to the requirement.
RequestCandidates ==
  /\ ButtonsLive /\ wizardPage.step = "intent" /\ wizardPage.v2 /\ ~wizardPage.asked /\ ~wizardPage.custom /\ ~wizardPage.loading /\ SpendOn("ask")
  /\ wizardPage' = [WithInFlight(wizardPage, "candidates") EXCEPT !.asked = TRUE, !.loading = TRUE]
  /\ WizardAsk("candidates", NoCall)
  /\ UNCHANGED <<keys, recd, rjobs, confirmed, flows, saved, slips>>

SelectCandidate ==
  /\ wizardPage.open /\ wizardPage.step = "intent" /\ wizardPage.cands # 0 /\ wizardPage.sel # wizardPage.cands
  /\ wizardPage' = [wizardPage EXCEPT !.sel = wizardPage.cands, !.custom = FALSE]
  /\ UNCHANGED <<keys, recd, rjobs, confirmed, flows, wizardCalls, spare, saved, slips>>

TypeIntent ==
  /\ wizardPage.open /\ wizardPage.step = "intent" /\ ~wizardPage.custom /\ SpendOn("edit")
  /\ wizardPage' = [wizardPage EXCEPT !.sel = 0, !.custom = TRUE]
  /\ UNCHANGED <<keys, recd, rjobs, confirmed, flows, wizardCalls, saved, slips>>

\* populateRequirementEditor.
Populate(p, text) == [p EXCEPT !.editor = text, !.basel = text, !.norm = TRUE]

\* prepareRequirement: typed intents are normalised, a selected candidate opens in the editor.
PrepareRequirement ==
  /\ ButtonsLive /\ wizardPage.step = "intent" /\ wizardPage.v2 /\ (wizardPage.asked \/ wizardPage.custom)
  /\ \/ /\ wizardPage.custom /\ SpendOn("ask")
        /\ wizardPage' = [WithInFlight(wizardPage, "normalize") EXCEPT !.loading = TRUE]
        /\ WizardAsk("prepare", [NoCall EXCEPT !.text = [by |-> "custom", ed |-> 0, norm |-> FALSE]])
     \/ /\ ~wizardPage.custom /\ wizardPage.sel # 0
        /\ wizardPage' = [Populate(wizardPage, [by |-> "candidate", ed |-> 0, norm |-> FALSE])
                      EXCEPT !.req = 0, !.ready = FALSE, !.step = "requirement"]
        /\ UNCHANGED <<wizardCalls, spare>>
  /\ UNCHANGED <<keys, recd, rjobs, confirmed, flows, saved, slips>>

\* openManualRequirementEditor: a link of the intent step that is never disabled.
OpenManualEditor ==
  /\ wizardPage.open /\ wizardPage.step = "intent" /\ SpendOn("edit")
  /\ wizardPage' = [Populate(wizardPage, [by |-> "manual", ed |-> 0, norm |-> FALSE])
                EXCEPT !.v2 = TRUE, !.sel = 0, !.req = 0, !.ready = FALSE, !.step = "requirement"]
  /\ UNCHANGED <<keys, recd, rjobs, confirmed, flows, wizardCalls, saved, slips>>

\* A slip: only the button changes.
MarkDirtyReview(p) == p

\* markRequirementDirty: what was normalised is no longer what the editor shows.
MarkDirty(p) == IF p.editor # p.basel THEN [p EXCEPT !.ready = FALSE, !.req = 0] ELSE p

EditRequirement ==
  /\ wizardPage.open /\ wizardPage.step = "requirement" /\ SpendOn("edit")
  /\ wizardPage' = MarkDirty([wizardPage EXCEPT !.editor.ed = @ + 1, !.editor.norm = FALSE])
  /\ UNCHANGED <<keys, recd, rjobs, confirmed, flows, wizardCalls, saved, slips>>

\* The candidate a structured requirement comes from: the page sends the job it knows last.
Lineage == IF wizardPage.sel # 0 THEN wizardPage.job ELSE 0

\* confirmRequirement: a reviewed requirement is confirmed, any other is normalised first.
ConfirmRequirement ==
  /\ ButtonsLive /\ wizardPage.step = "requirement" /\ SpendOn("ask")
  /\ IF wizardPage.ready /\ wizardPage.req # 0
     THEN /\ wizardPage' = [WithInFlight(wizardPage, "confirm") EXCEPT !.loading = TRUE]
          /\ WizardAsk("confirm", [NoCall EXCEPT !.job = wizardPage.req, !.text = wizardPage.editor])
     ELSE /\ wizardPage' = [WithInFlight(WithInFlight(wizardPage, "confirm"), "normalize") EXCEPT !.loading = TRUE]
          /\ WizardAsk("normalize", [NoCall EXCEPT !.text = wizardPage.editor, !.from = Lineage])
  /\ UNCHANGED <<keys, recd, rjobs, confirmed, flows, saved, slips>>

\* generateWorkflowDSL.
GenerateWorkflow ==
  /\ ButtonsLive /\ wizardPage.step = "requirement-confirmed" /\ wizardPage.req # 0 /\ SpendOn("ask")
  /\ wizardPage' = [WithInFlight(wizardPage, "create") EXCEPT !.loading = TRUE]
  /\ WizardAsk("create", [NoCall EXCEPT !.job = wizardPage.req])
  /\ UNCHANGED <<keys, recd, rjobs, confirmed, flows, saved, slips>>

\* retryRequirementJob: a button of its own, dead only while it runs itself.
RetryRequirementJob ==
  /\ wizardPage.open /\ wizardPage.step = "intent" /\ "retry" \notin wizardPage.fly /\ wizardPage.job # 0 /\ SpendOn("ask")
  /\ wizardPage' = [WithInFlight(wizardPage, "retry") EXCEPT !.loading = TRUE]
  /\ WizardAsk("retry", [NoCall EXCEPT !.job = wizardPage.job])
  /\ UNCHANGED <<keys, recd, rjobs, confirmed, flows, saved, slips>>

\* submitRuleCorrection: not an operation in flight, so the other buttons stay live.
SubmitCorrection ==
  /\ wizardPage.open /\ wizardPage.correct /\ wizardPage.wf # 0 /\ SpendOn("ask")
  /\ wizardPage.step \in {"requirement-confirmed", "replay"}
  /\ wizardPage' = [wizardPage EXCEPT !.loading = TRUE]
  /\ WizardAsk("correct", [NoCall EXCEPT !.wf = wizardPage.wf])
  /\ UNCHANGED <<keys, recd, rjobs, confirmed, flows, saved, slips>>

\* startReplay, once rule and requirement are there.
ReplayStarted(p) == [WithInFlight(p, "replay") EXCEPT !.rep = "running", !.loading = TRUE, !.step = "replay"]
MayReplay(p) == p.rep # "running" /\ p.rule # 0 /\ p.norm /\ p.wf # 0

StartFullReplay ==
  /\ ButtonsLive /\ wizardPage.step = "preview" /\ MayReplay(wizardPage) /\ SpendOn("ask")
  /\ wizardPage' = ReplayStarted(wizardPage)
  /\ WizardAsk("replay", [NoCall EXCEPT !.wf = wizardPage.wf])
  /\ UNCHANGED <<keys, recd, rjobs, confirmed, flows, saved, slips>>

\* The browser's replay is over (or cancelled): completeWorkflowReplay, once at a time.
ReplayOver ==
  /\ wizardPage.open /\ wizardPage.rep = "running" /\ wizardPage.fly \cap {"replay", "complete"} = {}
  /\ wizardPage' = WithInFlight(wizardPage, "complete")
  /\ WizardAsk("complete", [NoCall EXCEPT !.wf = wizardPage.wf])
  /\ UNCHANGED <<keys, recd, rjobs, confirmed, flows, spare, saved, slips>>

\* requestFeedbackRepair: its button is live while an approval is under way.
RequestFeedback ==
  /\ wizardPage.open /\ wizardPage.step = "replay" /\ wizardPage.wf # 0 /\ wizardPage.rep \in {"success", "failure"}
  /\ "feedback" \notin wizardPage.fly /\ SpendOn("feedback")
  /\ wizardPage' = [WithInFlight(wizardPage, "feedback") EXCEPT !.loading = TRUE]
  /\ WizardAsk("feedback", [NoCall EXCEPT !.wf = wizardPage.wf])
  /\ UNCHANGED <<keys, recd, rjobs, confirmed, flows, saved, slips>>

\* confirmWorkflowRule.
ApproveRule ==
  /\ ButtonsLive /\ wizardPage.step = "replay" /\ wizardPage.rep = "success" /\ wizardPage.wf # 0 /\ SpendOn("ask")
  /\ wizardPage' = [WithInFlight(wizardPage, "approve") EXCEPT !.loading = TRUE]
  /\ WizardAsk("approve", [NoCall EXCEPT !.wf = wizardPage.wf])
  /\ UNCHANGED <<keys, recd, rjobs, confirmed, flows, saved, slips>>

\* persistPageMarks: the chips of the intent step are never disabled.
ChangeMarks ==
  /\ wizardPage.open /\ wizardPage.step = "intent" /\ SpendOn("marks")
  /\ WizardAsk("marks", NoCall)
  /\ UNCHANGED <<wizardPage, keys, recd, rjobs, confirmed, flows, saved, slips>>

\* The secondary button.
GoBack ==
  LET to == [requirement |-> "intent", preview |-> "intent", replay |-> "preview", confirm |-> "replay"] @@
            ("requirement-confirmed" :> "requirement") IN
  /\ ButtonsLive /\ wizardPage.step \in DOMAIN to /\ ~(wizardPage.step = "replay" /\ wizardPage.rep = "running") /\ SpendOn("edit")
  /\ wizardPage' = [wizardPage EXCEPT !.step = to[wizardPage.step]]
  /\ UNCHANGED <<keys, recd, rjobs, confirmed, flows, wizardCalls, saved, slips>>

-----------------------------------------------------------------------------
(* Without the workflow: intent, rule, replay, every step confirmed, upload. *)

RuleSteps == 1..2   \* bound: steps of a generated rule

\* PREDICT_INTENT stands behind the probe of a server without the workflow.
PredictSend(c) ==
  /\ c.op = "probe" /\ c.stage = "send" /\ spare["legacy"] # 0
  /\ wizardCalls' = (wizardCalls \ {c}) \cup {[c EXCEPT !.stage = "answer", !.ok = TRUE, !.status = "legacy"]}
  /\ UNCHANGED <<wizardPage, keys, recd, rjobs, confirmed, flows, spare, saved, slips>>

\* generateDSL.
GenerateDSL ==
  /\ ButtonsLive /\ wizardPage.step = "intent" /\ ~wizardPage.v2 /\ SpendOn("ask")
  /\ wizardPage' = [WithInFlight(wizardPage, "generate") EXCEPT !.loading = TRUE]
  /\ WizardAsk("generate", NoCall)
  /\ UNCHANGED <<keys, recd, rjobs, confirmed, flows, saved, slips>>

\* GENERATE_DSL_FROM_INTENT and its server form: the rule is stored as the last rule.
GenerateSend(c) ==
  /\ c.op = "generate" /\ c.stage = "send"
  /\ saved' = [saved EXCEPT !.made = @ + 1]
  /\ keys' = [keys EXCEPT !.last = saved.made + 1]
  /\ wizardCalls' = (wizardCalls \ {c}) \cup {[c EXCEPT !.stage = "answer", !.ok = TRUE, !.rule = saved.made + 1]}
  /\ Slip(IF c.wizardPage = wizardPage.no /\ wizardPage.open THEN {} ELSE {"late"})
  /\ UNCHANGED <<wizardPage, recd, rjobs, confirmed, flows, spare>>

\* The replay of such a rule has no attempt at the server.
ReplayLegacy ==
  /\ ButtonsLive /\ wizardPage.step = "preview" /\ ~wizardPage.v2 /\ wizardPage.rep # "running" /\ wizardPage.rule # 0
  /\ \E rep \in {"success", "failure"} :
       /\ \/ rep = "success" /\ UNCHANGED spare
          \/ rep = "failure" /\ SpendOn("fail")
       /\ wizardPage' = [wizardPage EXCEPT !.rep = rep, !.step = "replay"]
  /\ UNCHANGED <<keys, recd, rjobs, confirmed, flows, wizardCalls, saved, slips>>

ToConfirm ==
  /\ ButtonsLive /\ wizardPage.step = "replay" /\ ~wizardPage.v2 /\ wizardPage.rep = "success"
  /\ wizardPage' = [wizardPage EXCEPT !.step = "confirm"]
  /\ UNCHANGED <<keys, recd, rjobs, confirmed, flows, wizardCalls, spare, saved, slips>>

ToggleStep(i) ==
  /\ wizardPage.open /\ wizardPage.step = "confirm" /\ i \notin wizardPage.steps
  /\ wizardPage' = [wizardPage EXCEPT !.steps = @ \cup {i}]
  /\ UNCHANGED <<keys, recd, rjobs, confirmed, flows, wizardCalls, spare, saved, slips>>

\* saveRule: only with every step confirmed.
SaveRule ==
  /\ ButtonsLive /\ wizardPage.step = "confirm" /\ wizardPage.steps = RuleSteps /\ SpendOn("ask")
  /\ wizardPage' = [WithInFlight(wizardPage, "save") EXCEPT !.loading = TRUE]
  /\ WizardAsk("save", [NoCall EXCEPT !.rule = wizardPage.rule])
  /\ UNCHANGED <<keys, recd, rjobs, confirmed, flows, saved, slips>>

\* UPLOAD_CONFIRMED_RULE uploads the last rule of the storage.
SaveSend(c) ==
  /\ c.op = "save" /\ c.stage = "send"
  /\ saved' = [saved EXCEPT !.up = @ \cup {<<keys.last, c.rule>>}]
  /\ wizardCalls' = (wizardCalls \ {c}) \cup {[c EXCEPT !.stage = "answer", !.ok = TRUE]}
  /\ Slip(IF c.wizardPage = wizardPage.no THEN {} ELSE {"late"})
  /\ UNCHANGED <<wizardPage, keys, recd, rjobs, confirmed, flows, spare>>

-----------------------------------------------------------------------------
(* Answers.                                                                 *)

\* The finally blocks of the operations.
Landed(p, ops) == [p EXCEPT !.fly = @ \ ops, !.loading = FALSE]

\* applyRequirementWorkflow: candidates, a failure to be retried, or a bare intent step.
ApplyRequirementWorkflow(p, c) ==
  IF c.status = "legacy" THEN [p EXCEPT !.step = "intent"]
  ELSE [p EXCEPT !.v2 = TRUE, !.job = c.job, !.asked = @ \/ ~c.ok \/ c.job # 0,
                 !.cands = IF c.ok THEN c.job ELSE @, !.step = "intent"]

\* A resumed job: its candidates are shown; a finished normalisation changes nothing.
ResumeJobLanded(p, c) ==
  IF ~c.ok THEN [p EXCEPT !.loading = FALSE]
  ELSE IF rjobs[c.job].kind = "candidates" THEN [p EXCEPT !.loading = FALSE, !.cands = c.job, !.job = c.job]
  ELSE p

\* The requirement as the server normalised it.
NormalizeLanded(p, c) ==
  LET q == Landed(p, {"normalize", "confirm"}) IN
  IF c.ok THEN [Populate(q, [c.text EXCEPT !.norm = TRUE]) EXCEPT !.req = c.job, !.ready = TRUE,
                  !.step = IF c.op = "prepare" THEN "requirement" ELSE @]
  ELSE IF c.status = "rejected" THEN q ELSE [q EXCEPT !.job = c.job]

\* A failed generation opens the correction editor while the stored baseline is there.
CreateLanded(p, c) ==
  LET q == [Landed(p, {"create"}) EXCEPT !.wf = IF c.ok THEN c.wf ELSE @] IN
  IF c.ok /\ c.status # "failed" /\ c.rule # 0 THEN [q EXCEPT !.rule = c.rule, !.step = "preview"]
  ELSE [q EXCEPT !.correct = keys.dsl.wf = q.wf /\ q.wf # 0 /\ keys.dsl.base]

\* The page after the end of a replay or of a feedback repair, and whether it replays at once.
Replays(p, c, repaired) == c.ok /\ repaired /\ c.status = "awaiting_replay" /\ c.rule # 0
AfterRepair(p, c) ==
  LET q == [p EXCEPT !.rule = c.rule, !.rep = "idle"] IN
  IF MayReplay(q) THEN ReplayStarted(q) ELSE [q EXCEPT !.step = "preview", !.loading = FALSE]
ReplayStatus(p, c) ==
  IF c.op = "feedback" /\ ~c.ok THEN p.rep
  ELSE IF c.ok /\ c.status = "awaiting_confirmation" /\ c.op = "complete" THEN "success" ELSE "failure"

\* invalidateRequirementFlowAfterMarksChange.
Invalidated(p) ==
  [p EXCEPT !.asked = FALSE, !.cands = 0, !.sel = 0, !.norm = FALSE, !.basel = Blank, !.req = 0, !.job = 0,
            !.ready = FALSE, !.wf = 0, !.rule = 0, !.steps = {}]

WizardAnswered(p, c) ==
  CASE c.op = "probe" -> [ApplyRequirementWorkflow(p, c) EXCEPT !.loading = FALSE]
    [] c.op = "candidates" -> IF c.status = "rejected" THEN Landed(p, {"candidates"})
                              ELSE Landed(ApplyRequirementWorkflow(p, c), {"candidates"})
    [] c.op = "resumeJob" -> ResumeJobLanded(p, c)
    [] c.op = "retry" -> LET q == Landed(p, {"retry"}) IN
         IF c.ok /\ rjobs[c.job].kind = "candidates" THEN [q EXCEPT !.cands = c.job, !.job = c.job] ELSE q
    [] c.op \in {"prepare", "normalize"} -> NormalizeLanded(p, c)
    [] c.op = "confirm" -> [Landed(p, {"confirm"}) EXCEPT !.step = IF c.ok THEN "requirement-confirmed" ELSE @]
    [] c.op = "create" -> CreateLanded(p, c)
    [] c.op = "correct" -> IF c.ok THEN [p EXCEPT !.loading = FALSE, !.rule = c.rule, !.correct = FALSE, !.step = "preview"]
                           ELSE [p EXCEPT !.loading = FALSE]
    [] c.op = "replay" -> [Landed(p, {"replay"}) EXCEPT !.rep = IF c.ok THEN @ ELSE "failure"]
    [] c.op \in {"complete", "feedback"} -> [Landed(p, {c.op}) EXCEPT !.rep = ReplayStatus(p, c)]
    [] c.op = "approve" -> [Landed(p, {"approve"}) EXCEPT !.step = IF c.ok THEN "save" ELSE @]
    [] c.op = "marks" -> Invalidated(p)
    [] c.op = "generate" -> [Landed(p, {"generate"}) EXCEPT !.rule = IF c.ok THEN c.rule ELSE @,
                               !.steps = IF c.ok THEN {} ELSE @, !.step = IF c.ok THEN "preview" ELSE @]
    [] c.op = "save" -> [Landed(p, {"save"}) EXCEPT !.step = IF c.ok THEN "save" ELSE @]

\* The page takes an answer; a rule that was repaired is replayed at once.
TakeAnswer(c) ==
  /\ c.stage = "answer" /\ c.op # "resume" /\ wizardPage.open /\ c.wizardPage = wizardPage.no
  /\ IF c.op \in {"complete", "feedback"} /\ Replays(wizardPage, c, c.op = "feedback" \/ c.from = 1)
     THEN LET p == AfterRepair(Landed(wizardPage, {c.op}), c) IN
          /\ wizardPage' = p
          /\ wizardCalls' = IF "replay" \in p.fly THEN AskWith(wizardPage, c, "replay", [NoCall EXCEPT !.wf = wizardPage.wf])
                      ELSE wizardCalls \ {c}
     ELSE wizardPage' = WizardAnswered(wizardPage, c) /\ wizardCalls' = wizardCalls \ {c}
  /\ Slip(IF c.op = "marks" /\ wizardCalls # {c} THEN {"raced"} ELSE {})
  /\ UNCHANGED <<keys, recd, rjobs, confirmed, flows, spare, saved>>

\* Nobody waits for the answer any more.
DropAnswer(c) ==
  /\ c.stage = "answer" /\ ~(wizardPage.open /\ c.wizardPage = wizardPage.no)
  /\ wizardCalls' = wizardCalls \ {c}
  /\ UNCHANGED <<wizardPage, keys, recd, rjobs, confirmed, flows, spare, saved, slips>>

-----------------------------------------------------------------------------
(* The world around.                                                        *)

CloseWizard ==
  /\ wizardPage.open /\ wizardPage' = [ClosedPage EXCEPT !.no = wizardPage.no]
  /\ UNCHANGED <<keys, recd, rjobs, confirmed, flows, wizardCalls, spare, saved, slips>>

\* A new recording is stored; no key of the wizard is touched.
NewRecording ==
  /\ SpendOn("record") /\ recd' = [id |-> recd.id + 1, marks |-> 0]
  /\ Slip(IF wizardPage.open \/ wizardCalls # {} THEN {"raced"} ELSE {})
  /\ UNCHANGED <<wizardPage, keys, rjobs, confirmed, flows, wizardCalls, saved>>

\* The service worker dies: every request is rejected.
WorkerDies ==
  /\ wizardCalls # {} /\ SpendOn("crash")
  /\ wizardCalls' = {[c EXCEPT !.stage = "answer", !.ok = FALSE, !.job = 0, !.status = "rejected"] : c \in wizardCalls}
  /\ Slip({"crash"})
  /\ UNCHANGED <<wizardPage, keys, recd, rjobs, confirmed, flows, saved>>

WizardInit ==
  /\ wizardPage = ClosedPage /\ keys = [cand |-> NoKey, norm |-> NoKey, dsl |-> NoDsl, last |-> 0]
  /\ recd = [id |-> 1, marks |-> 0]
  /\ rjobs = [j \in JobIds |-> NoRJob] /\ flows = [w \in WorkflowIds |-> NoFlow]
  /\ confirmed = {} /\ wizardCalls = {} /\ saved = [made |-> 0, up |-> {}] /\ slips = {}
  /\ spare \in WizardPlans

Clicks ==
  \/ RequestCandidates \/ SelectCandidate \/ TypeIntent \/ PrepareRequirement \/ OpenManualEditor
  \/ EditRequirement \/ ConfirmRequirement \/ GenerateWorkflow \/ RetryRequirementJob \/ SubmitCorrection
  \/ StartFullReplay \/ RequestFeedback \/ ApproveRule \/ ChangeMarks \/ GoBack
  \/ GenerateDSL \/ ReplayLegacy \/ ToConfirm \/ SaveRule \/ \E i \in RuleSteps : ToggleStep(i)

\* What goes on by itself.
Progress ==
  \/ \E c \in wizardCalls :
       \/ ResumeSend(c) \/ WorkflowSend(c) \/ PredictSend(c) \/ NormalizeSend(c) \/ KeyJob(c) \/ RetrySend(c)
       \/ ResumeJobSend(c) \/ PollJob(c) \/ ConfirmSend(c) \/ CreateSend(c) \/ KeyFlow(c) \/ CorrectSend(c)
       \/ ReplaySend(c) \/ CompleteSend(c) \/ FeedbackSend(c) \/ PollFlow(c) \/ ApproveSend(c) \/ MarksSend(c)
       \/ GenerateSend(c) \/ SaveSend(c)
       \/ ResumeAnswer(c) \/ TakeAnswer(c) \/ DropAnswer(c)
  \/ \E j \in JobIds : WizardJobEnds(j)
  \/ \E w \in WorkflowIds : FlowSettles(w)
  \/ ReplayOver

WizardNext == Clicks \/ Progress \/ OpenWizard \/ CloseWizard \/ NewRecording \/ WorkerDies

-----------------------------------------------------------------------------
(* Properties.                                                              *)

Contents == [by : {"none", "candidate", "custom", "manual"}, ed : Nat, norm : BOOLEAN]

\* Every variable has its type; a reviewed requirement always has its identity.
WizardTypeOK ==
  /\ wizardPage.step \in PageSteps /\ wizardPage.rep \in {"idle", "running", "success", "failure"}
  /\ wizardPage.cands \in 0..MaxJobs /\ wizardPage.sel \in 0..MaxJobs /\ wizardPage.req \in 0..MaxJobs /\ wizardPage.job \in 0..MaxJobs
  /\ wizardPage.wf \in 0..MaxWorkflows /\ wizardPage.editor \in Contents /\ wizardPage.basel \in Contents
  /\ wizardPage.ready => wizardPage.req # 0
  /\ keys.dsl.wf \in 0..MaxWorkflows /\ keys.cand.job \in 0..MaxJobs /\ keys.norm.job \in 0..MaxJobs
  /\ \A w \in WorkflowIds : flows[w].rule \in 0..MaxRule /\ flows[w].req \in 0..MaxJobs

\* A requirement is confirmed as the editor showed it at the click: edits made while requests are
\* under way, closed pages and restarts included.
ConfirmedAsShown == \A r \in confirmed : r.shown = [rjobs[r.req].text EXCEPT !.norm = TRUE]

Current(j) == <<rjobs[j].rec, rjobs[j].marks>> = <<recd.id, recd.marks>>

\* Candidates, requirement and workflow on the page belong to the recording and the marks at hand,
\* unless these change under a request that is under way, or a stored job of older ones still runs
\* when the page is opened.
WorksOnCurrent ==
  slips \cap {"raced", "orphan"} = {} /\ (\A c \in wizardCalls : c.op # "marks")
    => /\ wizardPage.cands # 0 => Current(wizardPage.cands)
       /\ wizardPage.req # 0 => Current(wizardPage.req)
       /\ wizardPage.wf # 0 => Current(flows[wizardPage.wf].req) /\ flows[wizardPage.wf].base = rjobs[flows[wizardPage.wf].req].rec

\* What is approved is the rule version whose replay the server verified, and the page that says so
\* shows that version: a feedback repair may be asked for while the approval is under way.
ApprovedAsWatched ==
  /\ \A w \in WorkflowIds : flows[w].status = "approved" => flows[w].verified = flows[w].rule
  /\ wizardPage.step = "save" /\ wizardPage.v2 => flows[wizardPage.wf].status = "approved" /\ flows[wizardPage.wf].rule = wizardPage.rule

\* The rule that is uploaded is the one whose steps were confirmed, unless the generation
\* or the upload of an earlier page is handled after the page was opened again.
SavedAsConfirmed == "late" \in slips \/ \A u \in saved.up : u[1] = u[2]

\* A spinner that turns will be stopped: an answer of a request of this page is on its way,
\* or the replay runs that ends in one.  Excepted is a normalisation that is resumed.
SpinnerHasCause ==
  wizardPage.open /\ wizardPage.loading =>
    \/ wizardPage.rep = "running" \/ "spinner" \in slips
    \/ \E c \in wizardCalls : c.wizardPage = wizardPage.no

\* What the wizard sends is what its person saw: types hold, and confirming, working
\* on, approving and saving concern what the page shows; its spinners stop.
WizardShowsTruth ==
  /\ WizardTypeOK
  /\ ConfirmedAsShown
  /\ WorksOnCurrent
  /\ ApprovedAsWatched
  /\ SavedAsConfirmed
  /\ SpinnerHasCause

=============================================================================
