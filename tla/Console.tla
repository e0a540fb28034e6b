------------------------------- MODULE Console -------------------------------
(***************************************************************************)
(* The pages of the admin UI other than the rule page: the lists, a task's *)
(* page, the form that binds a task or a schedule to a rule version, and   *)
(* the session they share (api/client.ts, contexts/AuthContext.tsx).       *)
(*                                                                         *)
(* Each page sends requests and stores what is answered, in whatever order *)
(* the answers come.  Rows, tasks and versions are named by what was asked *)
(* for.  One page is looked at in a behaviour; a reload or a logout leads  *)
(* to the login page.  The cron preview and the wording are left out.      *)
(***************************************************************************)
EXTENDS Naturals, Sequences, FiniteSets

CONSTANTS ConsolePages,        \* the pages that may be opened
          Filters,      \* filters the user types
          Approved,     \* rule -> its approved versions
          Legacy,       \* rules without immutable versions
          PageLimit,    \* batches per request of an export
          MaxExports,   \* MAX_EXPORT_BATCHES
          MaxResults,   \* bound: batches of results
          MaxSteps,     \* bound: what the user does, per page
          MaxTroubles   \* bound: requests that fail, keys revoked

ASSUME ConsoleAssumption ==
    /\ ConsolePages \subseteq {"tasks", "audit", "rules", "schedules", "tokens", "dashboard",
                               "detail", "results", "create", "modal"}
    /\ \A rule \in DOMAIN Approved :
          /\ Approved[rule] \subseteq Nat
          /\ Approved[rule] = {} \/ \E v \in Approved[rule] : \A w \in Approved[rule] : v >= w
    /\ "none" \notin DOMAIN Approved /\ Legacy \subseteq DOMAIN Approved
    /\ PageLimit \in Nat \ {0}

VARIABLES view,      \* "checking", "login", or the page shown
          goal,      \* the page of this behaviour
          session,   \* the key stored, isAuthenticated, and where the UI was opened
          table,     \* a list page
          detail,    \* the page of a task
          consoleForm,      \* the form of a task or a schedule
          reqs,      \* requests under way
          back,      \* the server: valid keys, results, the pending intervention
          asked, steps, troubles,
          crossed,   \* ghost: an unguarded request and another one crossed
          bound,     \* ghost: the bindings sent
          decided,   \* ghost: <<seen, decided>>
          exports    \* ghost: the files saved

pageState == <<table, detail, consoleForm>>
ghosts == <<crossed, bound, decided, exports>>
consoleVars == <<view, goal, session, pageState, reqs, back, asked, steps, troubles, ghosts>>

Guarded == goal \in {"tasks", "audit"}          \* fetchSeqRef, and a debounce
IsTable == goal \in {"tasks", "audit", "rules", "schedules", "tokens", "dashboard"}
HasFilter == goal \in {"tasks", "audit", "rules", "schedules"}
HasRowActions == goal \in {"tasks", "rules", "schedules", "tokens"}
IsDetail == goal \in {"detail", "results"}      \* a task's page: its decisions, its results
IsForm == goal \in {"create", "modal"}
TaskIds == {"t1", "t2"}                          \* an intervention is t1's
Modes == {"once", "scheduled"}
None == "none"

NoTable == [loading |-> FALSE, filter |-> None, due |-> FALSE, page |-> 1,
            rows |-> <<"empty", 0>>, seq |-> 0, ok |-> TRUE]
NoDetail == [id |-> "t1", task |-> None, human |-> 0, loading |-> FALSE, gen |-> 0,
             rpage |-> 1, rloading |-> FALSE, exporting |-> FALSE, got |-> <<>>, tries |-> 0,
             start |-> 0, confirm |-> 0, ok |-> TRUE]
NoForm == [mode |-> "once", rule |-> None, versions |-> {}, gen |-> 0, loading |-> FALSE,
           submitting |-> FALSE, barred |-> FALSE, listed |-> FALSE,
           fields |-> [m \in Modes |-> [rule |-> None, version |-> 0]]]

---------------------------------------------------------------------------
(* request: a timeout and every status but success are failures; a 401 drops *)
(* the key and reloads.                                                      *)

Request(kind, q) ==
    [n |-> asked + 1, kind |-> kind, query |-> q, key |-> session.key, stage |-> "sent", ans |-> 0]
Asking(kind) == \E r \in reqs : r.kind = kind
\* Answers a page does not tell apart by what it asked last.
Crosses(gone) ==
    \E r \in reqs \ gone : r.kind = "act" \/ (IsTable /\ ~Guarded) \/ (r.kind = "detail" /\ r.query[2] = 0)
Ask(gone, kind, q) ==
    /\ asked' = asked + 1
    /\ reqs' = (reqs \ gone) \cup {Request(kind, q)}
    /\ crossed' = (crossed \/ (kind # "verify" /\ Crosses(gone)))
AskNothing(gone) == reqs' = reqs \ gone /\ UNCHANGED <<asked, crossed>>

Acts(page) == view = page /\ steps < MaxSteps[goal] /\ steps' = steps + 1
rest == <<goal, session, back, troubles, bound, decided, exports>>

---------------------------------------------------------------------------
(* AuthContext and the login page.                                           *)

\* What a page asks for when it is mounted.
FirstQuery == IF IsTable THEN <<"list", <<1, None, 1>>>> ELSE <<"detail", <<"t1", 1, FALSE>>>>
Mount(gone) ==
    /\ view' = goal
    /\ IF IsForm THEN AskNothing(gone) ELSE Ask(gone, FirstQuery[1], FirstQuery[2])
    /\ table' = [NoTable EXCEPT !.loading = IsTable, !.seq = 1]
    /\ detail' = [NoDetail EXCEPT !.loading = IsDetail, !.gen = 1]
    /\ consoleForm' = NoForm

ConsoleInit ==
    /\ goal \in ConsolePages
    /\ table = [NoTable EXCEPT !.loading = IsTable, !.seq = 1]
    /\ detail = [NoDetail EXCEPT !.loading = IsDetail, !.gen = 1]
    /\ consoleForm = NoForm
    /\ asked = 1 /\ steps = 0 /\ troubles = 0
    /\ crossed = FALSE /\ bound = {} /\ decided = {} /\ exports = {}
    /\ back = [keys |-> {"old", "new"}, results |-> 1, human |-> 1, next |-> 2]
    /\ IF goal = "dashboard"
       THEN /\ view \in {"checking", "login"}
            /\ session = [key |-> "old", in |-> FALSE, at |-> view]
            /\ reqs = {[n |-> 1, kind |-> "verify", query |-> "validate", key |-> "old",
                        stage |-> "sent", ans |-> 0]}
       ELSE /\ view = goal
            /\ session = [key |-> "old", in |-> TRUE, at |-> view]
            /\ reqs = IF IsForm THEN {}
                      ELSE {[n |-> 1, kind |-> FirstQuery[1], query |-> FirstQuery[2], key |-> "old",
                             stage |-> "sent", ans |-> 0]}

\* The key is stored before it is verified.  Who is logged out of another page
\* than the dashboard does not come back.
Login ==
    /\ Acts("login") /\ goal = "dashboard" /\ ~\E r \in reqs : r.kind = "verify" /\ r.query = "login"
    /\ session' = [session EXCEPT !.key = "new"]
    /\ asked' = asked + 1
    /\ reqs' = reqs \cup {[Request("verify", "login") EXCEPT !.key = "new"]}
    /\ UNCHANGED <<view, goal, pageState, back, troubles, ghosts>>

AnswerVerify(r) ==
    /\ IF r.stage = "ok"
       THEN /\ session' = [session EXCEPT !.in = TRUE]
            /\ IF r.query = "login" \/ view = "checking" THEN Mount({r})
               ELSE AskNothing({r}) /\ UNCHANGED <<view, pageState>>
       ELSE /\ session' = [session EXCEPT !.key = None, !.in = (@ /\ r.query = "login")]
            /\ view' = "login" /\ AskNothing({r}) /\ UNCHANGED pageState
    /\ UNCHANGED <<goal, back, steps, troubles, bound, decided, exports>>

\* The user logs out, or half an hour passed without activity.
Logout ==
    /\ view \notin {"login", "checking"} /\ steps < MaxSteps[goal] /\ steps' = steps + 1
    /\ session' = [session EXCEPT !.key = None, !.in = FALSE]
    /\ view' = "login" /\ reqs' = {[r EXCEPT !.kind = "gone", !.query = <<>>] : r \in reqs}
    /\ UNCHANGED <<goal, pageState, back, asked, troubles, ghosts>>

\* request, 401: whatever key is stored by now is removed.
AnswerDenied(r) ==
    /\ r \in reqs /\ r.stage = "denied"
    /\ session' = [key |-> None, in |-> FALSE, at |-> "checking"]
    /\ view' = "login" /\ reqs' = {}
    /\ table' = NoTable /\ detail' = NoDetail /\ consoleForm' = NoForm
    /\ UNCHANGED <<goal, back, asked, steps, troubles, ghosts>>

\* The page that asked is gone.
AnswerUnseen(r) ==
    /\ r \in reqs /\ r.stage \in {"ok", "failed"} /\ r.kind = "gone"
    /\ AskNothing({r})
    /\ UNCHANGED <<view, goal, session, pageState, back, steps, troubles, bound, decided, exports>>

---------------------------------------------------------------------------
(* The lists: Tasks, AuditLogs, Rules, ScheduleList, MCPTokenList, Dashboard. *)

Fetch(gone, filter, page, t) ==
    /\ table' = [t EXCEPT !.loading = TRUE, !.seq = @ + 1]
    /\ Ask(gone, "list", <<t.seq + 1, filter, page>>)

SetFilter ==
    /\ Acts(goal) /\ HasFilter
    /\ \E f \in Filters \ {table.filter} :
          IF Guarded
          THEN /\ table' = [table EXCEPT !.filter = f, !.due = TRUE]
               /\ crossed' = (crossed \/ Crosses({})) /\ UNCHANGED <<reqs, asked>>
          ELSE Fetch({}, f, 1, [table EXCEPT !.filter = f])
    /\ UNCHANGED <<view, detail, consoleForm>> /\ UNCHANGED rest

\* useDebouncedValue, and the effect on its value.
Debounce ==
    /\ view = goal /\ Guarded /\ table.due
    /\ Fetch({}, table.filter, 1, [table EXCEPT !.due = FALSE])
    /\ UNCHANGED <<view, detail, consoleForm, steps>> /\ UNCHANGED rest

HandleTableChange ==
    /\ Acts(goal) /\ HasFilter
    /\ Fetch({}, table.filter, 3 - table.page, [table EXCEPT !.page = 3 - @])
    /\ UNCHANGED <<view, detail, consoleForm>> /\ UNCHANGED rest

\* handleCancel, handleRetry, toggleEnabled, handleApprove, handleReject,
\* handleDelete, handleSave, handleRevoke: the list is read again with the
\* filter and the page of the moment the button was pressed.
RowAction ==
    /\ Acts(goal) /\ HasRowActions
    /\ Ask({}, "act", <<table.filter, table.page>>)
    /\ UNCHANGED <<view, pageState>> /\ UNCHANGED rest

AnswerRowAction(r) ==
    /\ IF r.stage = "ok" THEN Fetch({r}, r.query[1], r.query[2], table)
       ELSE AskNothing({r}) /\ UNCHANGED table
    /\ UNCHANGED <<detail, consoleForm>>

AnswerList(r) ==
    /\ table' = IF Guarded /\ r.query[1] # table.seq THEN table
                ELSE IF r.stage = "ok"
                THEN [table EXCEPT !.rows = <<r.query[2], r.query[3]>>, !.loading = FALSE, !.ok = TRUE]
                ELSE [table EXCEPT !.loading = FALSE, !.ok = FALSE]
    /\ AskNothing({r}) /\ UNCHANGED <<detail, consoleForm>>

---------------------------------------------------------------------------
(* TaskDetail.                                                               *)

\* The user goes to another task without leaving the page: the effect's fetch.
OpenTask ==
    /\ Acts(goal) /\ IsDetail
    /\ LET other == CHOOSE t \in TaskIds : t # detail.id
       IN  /\ detail' = [detail EXCEPT !.id = other, !.gen = @ + 1, !.loading = TRUE]
           /\ Ask({}, "detail", <<other, detail.gen + 1, FALSE>>)
    /\ UNCHANGED <<view, table, consoleForm>> /\ UNCHANGED rest

Shown == detail.task # None /\ ~detail.loading

\* fetchAll without isStale.
Refresh ==
    /\ Acts("detail") /\ Shown /\ detail.confirm = 0
    /\ Ask({}, "detail", <<detail.id, 0, FALSE>>)
    /\ detail' = [detail EXCEPT !.loading = TRUE]
    /\ UNCHANGED <<view, table, consoleForm>> /\ UNCHANGED rest

\* The dialogue of the action that led to a fetch closes after it.
Fetched(r, d) == [d EXCEPT !.confirm = IF r.query[3] THEN 0 ELSE @]

AnswerDetail(r) ==
    /\ detail' = IF r.query[2] # 0 /\ r.query[2] # detail.gen THEN detail
                 ELSE IF r.stage = "ok"
                 THEN Fetched(r, [detail EXCEPT !.task = r.query[1], !.human = r.ans, !.loading = FALSE,
                                                !.ok = TRUE])
                 ELSE Fetched(r, [detail EXCEPT !.loading = FALSE, !.ok = FALSE])
    /\ AskNothing({r}) /\ UNCHANGED <<table, consoleForm>>

LoadResults ==
    /\ Acts("results") /\ Shown
    /\ Ask({}, "results", <<3 - detail.rpage, 0>>)
    /\ detail' = [detail EXCEPT !.rloading = TRUE]
    /\ UNCHANGED <<view, table, consoleForm>> /\ UNCHANGED rest

AnswerResults(r) ==
    /\ detail' = [detail EXCEPT !.rloading = FALSE, !.rpage = IF r.stage = "ok" THEN r.query[1] ELSE @]
    /\ AskNothing({r}) /\ UNCHANGED <<table, consoleForm>>

\* The dialogue keeps the intervention it was opened for.
OpenConfirm ==
    /\ Acts("detail") /\ Shown /\ detail.human # 0 /\ detail.confirm = 0
    /\ detail' = [detail EXCEPT !.confirm = detail.human]
    /\ UNCHANGED <<view, table, consoleForm, reqs, asked, crossed>> /\ UNCHANGED rest

\* A slip: the decision is on what the page shows when it is sent.
ConfirmOkCurrent ==
    /\ view = "detail" /\ Shown /\ detail.confirm # 0 /\ ~Asking("act")
    /\ Ask({}, "act", <<detail.task, detail.human, detail.confirm>>)
    /\ UNCHANGED <<view, pageState, steps>> /\ UNCHANGED rest

\* decideHumanIntervention: which task, which checkpoint (and what was seen).
ConfirmOk ==
    /\ view = "detail" /\ Shown /\ detail.confirm # 0 /\ ~Asking("act")
    /\ Ask({}, "act", <<detail.task, detail.confirm, detail.confirm>>)
    /\ UNCHANGED <<view, pageState, steps>> /\ UNCHANGED rest

CancelConfirm ==
    /\ view = "detail" /\ Shown /\ detail.confirm # 0
    /\ detail' = [detail EXCEPT !.confirm = 0]
    /\ UNCHANGED <<view, table, consoleForm, reqs, asked, crossed, steps>> /\ UNCHANGED rest

\* cancelTask, retryTask.
ChangeTask ==
    /\ Acts("detail") /\ Shown /\ detail.confirm = 0 /\ ~Asking("act")
    /\ Ask({}, "act", <<detail.task, 0, 0>>)
    /\ UNCHANGED <<view, pageState>> /\ UNCHANGED rest

AnswerTaskAction(r) ==
    /\ IF r.stage = "ok"
       THEN /\ detail' = [detail EXCEPT !.loading = TRUE]
            /\ Ask({r}, "detail", <<detail.id, 0, TRUE>>)
       ELSE detail' = [detail EXCEPT !.confirm = 0] /\ AskNothing({r})
    /\ UNCHANGED <<table, consoleForm>>

---------------------------------------------------------------------------
(* exportAll.                                                                *)

HandleExport ==
    /\ Acts("results") /\ Shown /\ ~detail.exporting
    /\ detail' = [detail EXCEPT !.exporting = TRUE, !.got = <<>>, !.tries = 0, !.start = back.results]
    /\ Ask({}, "export", <<0, 0>>)
    /\ UNCHANGED <<view, table, consoleForm>> /\ UNCHANGED rest

NextOffset(offset, batches) == offset + Len(batches)

\* The batches of a page: those stored so far, from the offset on.
ResultPage(offset, total) ==
    [i \in 1 .. (IF total < offset THEN 0
                 ELSE IF total - offset < PageLimit THEN total - offset ELSE PageLimit) |-> offset + i]

AnswerExport(r) ==
    /\ LET batches == ResultPage(r.query[1], r.ans)
           offset == NextOffset(r.query[1], batches)
           got == detail.got \o batches
           tries == detail.tries + 1
           truncated == tries >= MaxExports
           more == r.stage = "ok" /\ batches # <<>> /\ offset < r.ans
       IN  IF more /\ ~truncated
           THEN /\ detail' = [detail EXCEPT !.got = got, !.tries = tries]
                /\ Ask({r}, "export", <<offset, 0>>)
                /\ UNCHANGED exports
           ELSE /\ detail' = [detail EXCEPT !.exporting = FALSE, !.got = <<>>, !.tries = 0, !.start = 0]
                /\ exports' = IF r.stage = "ok"
                              THEN exports \cup {[rows |-> got, start |-> detail.start,
                                                  truncated |-> more]}
                              ELSE exports
                /\ AskNothing({r})
    /\ UNCHANGED <<table, consoleForm>>

---------------------------------------------------------------------------
(* TaskCreate, and ScheduleCreateModal on the page of the schedules.         *)

Field == consoleForm.fields[consoleForm.mode]
Take(m, version) == [consoleForm.fields EXCEPT ![m].version = version]

\* handleRuleChange; the modal keeps the version field until the answer.
HandleRuleChange ==
    /\ Acts(goal) /\ IsForm /\ ~consoleForm.submitting
    /\ \E rule \in DOMAIN Approved :
          /\ consoleForm' = [consoleForm EXCEPT !.rule = rule, !.gen = @ + 1, !.loading = TRUE, !.listed = FALSE,
                                  !.versions = IF goal = "create" THEN {} ELSE @,
                                  !.barred = FALSE,
                                  !.fields[consoleForm.mode] =
                                     [rule |-> rule, version |-> IF goal = "create" THEN 0 ELSE @.version]]
          /\ Ask({}, "versions", <<rule, consoleForm.gen + 1>>)
    /\ UNCHANGED <<view, table, detail>> /\ UNCHANGED rest

\* applyVersion for the first of the approved versions.
Listed(rule) ==
    LET approved == Approved[rule]
        first == IF approved = {} THEN 0 ELSE CHOOSE v \in approved : \A w \in approved : v >= w
    IN  consoleForm' = [consoleForm EXCEPT !.versions = approved, !.loading = FALSE, !.listed = TRUE,
                             !.barred = (goal = "create" /\ approved = {} /\ rule \notin Legacy),
                             !.fields = Take(consoleForm.mode, first)]

\* A failure falls back to the legacy contract, or leaves the modal's field.
AnswerVersions(r) ==
    /\ IF r.query[2] # consoleForm.gen THEN UNCHANGED consoleForm
       ELSE IF r.stage = "ok" THEN Listed(r.query[1])
       ELSE consoleForm' = [consoleForm EXCEPT !.versions = {}, !.loading = FALSE]
    /\ AskNothing({r}) /\ UNCHANGED <<table, detail>>

PickVersion ==
    /\ Acts(goal) /\ IsForm
    /\ \E v \in consoleForm.versions \ {Field.version} : consoleForm' = [consoleForm EXCEPT !.fields = Take(consoleForm.mode, v)]
    /\ UNCHANGED <<view, table, detail, reqs, asked, crossed>> /\ UNCHANGED rest

\* The fields of the other form stay; what is known of the rule does not.
SwitchMode ==
    /\ Acts("create") /\ ~consoleForm.submitting
    /\ consoleForm' = [consoleForm EXCEPT !.mode = IF @ = "once" THEN "scheduled" ELSE "once",
                            !.gen = @ + 1, !.loading = FALSE, !.rule = None, !.versions = {},
                            !.barred = FALSE, !.listed = FALSE]
    /\ UNCHANGED <<view, table, detail, reqs, asked, crossed>> /\ UNCHANGED rest

\* handleCreateOnce, handleCreateScheduled with taskBinding; the modal's handleOk.
MaySubmit ==
    IF goal = "create"
    THEN consoleForm.rule # None /\ ~consoleForm.loading /\ ~consoleForm.barred
         /\ (consoleForm.versions # {} => Field.version # 0)
    ELSE Field.rule # None /\ Field.version # 0
Binding ==
    [rule |-> Field.rule, listed |-> goal = "create" \/ consoleForm.listed,
     version |-> IF goal = "modal" \/ Field.version \in consoleForm.versions THEN Field.version ELSE 0]

Submit ==
    /\ Acts(goal) /\ IsForm /\ ~consoleForm.submitting /\ MaySubmit
    /\ Ask({}, "submit", <<0, 0>>)
    /\ bound' = bound \cup {Binding}
    /\ consoleForm' = [consoleForm EXCEPT !.submitting = TRUE]
    /\ UNCHANGED <<view, goal, session, table, detail, back, troubles, decided, exports>>

\* Success leads to another page, or closes the modal: the form starts over.
AnswerSubmit(r) ==
    /\ consoleForm' = IF r.stage = "ok" THEN [NoForm EXCEPT !.gen = consoleForm.gen]
               ELSE [consoleForm EXCEPT !.submitting = FALSE]
    /\ AskNothing({r}) /\ UNCHANGED <<table, detail>>

---------------------------------------------------------------------------
Answer(r) ==
    /\ r \in reqs /\ r.stage \in {"ok", "failed"} /\ view = goal /\ r.kind \notin {"verify", "gone"}
    /\ CASE r.kind = "list" -> AnswerList(r)
         [] r.kind = "act" -> IF IsTable THEN AnswerRowAction(r) ELSE AnswerTaskAction(r)
         [] r.kind = "detail" -> AnswerDetail(r)
         [] r.kind = "results" -> AnswerResults(r)
         [] r.kind = "export" -> AnswerExport(r)
         [] r.kind = "versions" -> AnswerVersions(r)
         [] r.kind = "submit" -> AnswerSubmit(r)
    /\ r.kind # "export" => UNCHANGED exports
    /\ UNCHANGED <<view, goal, session, back, steps, troubles, bound, decided>>

\* The server: a decision is taken once, on the checkpoint that is pending.
Serve(r) ==
    /\ r \in reqs /\ r.stage = "sent"
    /\ LET deciding == r.kind = "act" /\ ~IsTable /\ r.query[2] # 0
           apt == deciding /\ r.query[2] = back.human
           stage == IF r.key \notin back.keys THEN "denied"
                    ELSE IF deciding /\ ~apt THEN "failed" ELSE "ok"
           ans == CASE r.kind = "detail" -> IF r.query[1] = "t1" THEN back.human ELSE 0
                    [] r.kind = "export" -> back.results
                    [] OTHER -> 0
       IN  /\ reqs' = (reqs \ {r}) \cup {[r EXCEPT !.stage = stage, !.ans = ans]}
           /\ IF stage = "ok" /\ apt
              THEN back' = [back EXCEPT !.human = 0] /\ decided' = decided \cup {<<r.query[3], r.query[2]>>}
              ELSE UNCHANGED <<back, decided>>
    /\ UNCHANGED <<view, goal, session, pageState, asked, steps, troubles, crossed, bound, exports>>

\* A timeout, a lost connection, a refusal.
Fail(r) ==
    /\ r \in reqs /\ r.stage \in {"sent", "ok"}
    /\ troubles < MaxTroubles /\ troubles' = troubles + 1
    /\ reqs' = (reqs \ {r}) \cup {[r EXCEPT !.stage = "failed"]}
    /\ UNCHANGED <<view, goal, session, pageState, back, asked, steps, ghosts>>

RevokeKey ==
    /\ troubles < MaxTroubles /\ troubles' = troubles + 1
    /\ "old" \in back.keys /\ back' = [back EXCEPT !.keys = @ \ {"old"}]
    /\ UNCHANGED <<view, goal, session, pageState, reqs, asked, steps, ghosts>>

\* The worker stores results, and asks for a person again.
Worker ==
    /\ IsDetail
    /\ \/ goal = "results" /\ back.results < MaxResults /\ back' = [back EXCEPT !.results = @ + 1]
       \/ goal = "detail" /\ back.next = 2 /\ back' = [back EXCEPT !.human = 2, !.next = 3]
    /\ UNCHANGED <<view, goal, session, pageState, reqs, asked, steps, troubles, ghosts>>

UserActs ==
    \/ Login \/ Logout \/ SetFilter \/ HandleTableChange \/ RowAction
    \/ OpenTask \/ Refresh \/ LoadResults \/ OpenConfirm \/ ConfirmOk \/ CancelConfirm \/ ChangeTask
    \/ HandleExport \/ HandleRuleChange \/ PickVersion \/ SwitchMode \/ Submit
Landing(r) ==
    \/ Serve(r) \/ Answer(r) \/ AnswerDenied(r) \/ AnswerUnseen(r)
    \/ r.kind = "verify" /\ r.stage \in {"ok", "failed"} /\ AnswerVerify(r)

ConsoleNext ==
    \/ UserActs \/ Debounce \/ RevokeKey \/ Worker
    \/ \E r \in reqs : Landing(r) \/ Fail(r)

\* A request is answered or times out, and the debounce's timer fires.
ConsoleSpec ==
    /\ ConsoleInit /\ [][ConsoleNext]_consoleVars
    /\ WF_consoleVars(\E r \in reqs : Landing(r)) /\ WF_consoleVars(Debounce)

---------------------------------------------------------------------------
ConsoleTypeOK ==
    /\ view \in {"checking", "login", goal}
    /\ session.key \in {None, "old", "new"}
    /\ table.page \in 1 .. 2 /\ detail.id \in TaskIds /\ detail.human \in 0 .. 2
    /\ \A m \in Modes : consoleForm.fields[m].rule \in DOMAIN Approved \cup {None}
    /\ consoleForm.submitting /\ view = goal => Asking("submit")
    /\ detail.exporting /\ view = goal => Asking("export")

\* When nothing is under way and the last fetch succeeded, a list shows the rows
\* of the filter above it, and the page of a task shows the task of its address,
\* in whatever order the answers came -- unless a request was under way that the
\* page does not guard (rules and schedules have no guard, nor has a refresh).
ShownIsAsked ==
    reqs = {} /\ view = goal /\ ~crossed =>
        /\ HasFilter /\ table.ok /\ ~table.due => table.rows[1] = table.filter
        /\ IsDetail /\ detail.ok => detail.task = detail.id

\* A task or schedule is bound to an approved version of the rule it names, or
\* to none; the modal only once the versions of that rule were listed.
BindingIsOfRule ==
    \A b \in bound : b.listed => b.version \in Approved[b.rule] \cup {0}

\* What the server decides is the checkpoint the operator had been shown when
\* the dialogue was opened, whatever arrived meanwhile.
DecidedAsSeen == \A d \in decided : d[1] = d[2]

\* A file that was not cut off holds each batch once, in order, and every batch
\* stored before the export began, though more were stored while it ran.
ExportIsWhole ==
    \A e \in exports :
        /\ \A i \in DOMAIN e.rows : e.rows[i] = i
        /\ ~e.truncated => Len(e.rows) >= e.start

\* The pages are shown to someone whose key is stored, if the UI was not opened
\* at the login page, where the check of the stored key and a login overlap.
SignedInHasKey ==
    session.in /\ session.at # "login" => session.key # None

\* No spinner turns: checking, loading, exporting, submitting.
ConsoleAtRest ==
    /\ view # "checking"
    /\ view = goal => ~table.loading /\ ~detail.loading /\ ~detail.rloading
                      /\ ~detail.exporting /\ ~consoleForm.loading /\ ~consoleForm.submitting

\* The pages of the console: types hold, they show what was asked, bind, decide and
\* export what is shown, and are shown to whom the key belongs.
ConsoleIsTrue ==
  /\ ConsoleTypeOK
  /\ ShownIsAsked
  /\ BindingIsOfRule
  /\ DecidedAsSeen
  /\ ExportIsWhole
  /\ SignedInHasKey

=============================================================================
