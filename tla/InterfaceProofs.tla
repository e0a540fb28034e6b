--------------------------- MODULE InterfaceProofs ---------------------------
(***************************************************************************)
(* What the pages of the admin UI promise, for any pages, filters, rules   *)
(* and versions and whatever the order in which answers arrive; and what a *)
(* replay of the extension reports, for any number of replays, pages,      *)
(* steps and values, whatever is lost, late or restarted.                  *)
(***************************************************************************)
EXTENDS Console, ReplaySession, TLAPS, SequenceTheorems, FiniteSetTheorems

-----------------------------------------------------------------------------
(* The console: its invariant.                                              *)

\* The parts of the state, each with its fields and their types.
Pages == {"tasks", "audit", "rules", "schedules", "tokens", "dashboard", "detail", "results", "create", "modal"}
Kinds == {"verify", "list", "act", "detail", "results", "export", "versions", "submit", "gone"}
TableTyped ==
  /\ DOMAIN table = {"loading", "filter", "due", "page", "rows", "seq", "ok"}
  /\ table.seq \in Nat /\ table.page \in 1..2 /\ table.due \in BOOLEAN /\ table.ok \in BOOLEAN
DetailTyped ==
  /\ DOMAIN detail = {"id", "task", "human", "loading", "gen", "rpage", "rloading", "exporting", "got",
                      "tries", "start", "confirm", "ok"}
  /\ detail.id \in TaskIds /\ detail.human \in 0..2 /\ detail.gen \in Nat
  /\ detail.exporting \in BOOLEAN /\ detail.ok \in BOOLEAN
FieldType == [rule : DOMAIN Approved \cup {None}, version : Nat]
FormTyped ==
  /\ DOMAIN consoleForm = {"mode", "rule", "versions", "gen", "loading", "submitting", "barred", "listed", "fields"}
  /\ consoleForm.mode \in Modes /\ consoleForm.gen \in Nat /\ consoleForm.versions \subseteq Nat
  /\ consoleForm.submitting \in BOOLEAN /\ consoleForm.listed \in BOOLEAN
  /\ consoleForm.rule \in DOMAIN Approved \cup {None}
  /\ consoleForm.fields \in [Modes -> FieldType]
SessionTyped ==
  /\ DOMAIN session = {"key", "in", "at"}
  /\ session.key \in {None, "old", "new"} /\ session.in \in BOOLEAN
BackTyped ==
  /\ DOMAIN back = {"keys", "results", "human", "next"}
  /\ back.results \in Nat /\ back.human \in 0..2

\* A page asks what belongs to it.
Fits(kind) ==
  CASE kind = "verify" -> goal = "dashboard"
    [] kind = "list" -> IsTable
    [] kind = "act" -> HasRowActions \/ goal = "detail"
    [] kind = "detail" -> IsDetail
    [] kind \in {"results", "export"} -> goal = "results"
    [] kind \in {"versions", "submit"} -> IsForm
    [] OTHER -> TRUE
ReqTyped(r) ==
  /\ DOMAIN r = {"n", "kind", "query", "key", "stage", "ans"}
  /\ r.kind \in Kinds /\ Fits(r.kind) /\ r.stage \in {"sent", "ok", "failed", "denied"}
  /\ r.kind = "detail" => r.ans \in 0..2
  /\ r.kind = "versions" => r.query[1] \in DOMAIN Approved /\ r.query[2] \in Nat

ConsoleTyped ==
  /\ goal \in ConsolePages /\ view \in {"checking", "login", goal}
  /\ TableTyped /\ DetailTyped /\ FormTyped /\ SessionTyped /\ BackTyped
  /\ \A r \in reqs : ReqTyped(r)

\* Who is verified is at the login page or on the way there, with the key that is verified.
SessionSound ==
  /\ view = "checking" => goal = "dashboard"
  /\ session.at # "login" =>
       /\ session.in => session.key # None
       /\ view # goal => ~session.in
       /\ \A r, s \in reqs : r.kind = "verify" /\ s.kind = "verify" => r = s
       /\ \A r \in reqs : r.kind = "verify" =>
            /\ view = (IF r.query = "login" THEN "login" ELSE "checking")
            /\ session.key # None

\* The answer a list waits for is the one to its filter; without one it has it.
Awaited(r) == r.kind = "list" /\ (Guarded => r.query[1] = table.seq)
TableSound ==
  view = goal /\ HasFilter /\ ~crossed =>
    /\ ~Guarded => ~table.due /\ \A r, s \in reqs : r = s
    /\ \A r \in reqs :
         /\ r.kind = "act" => r.query[1] = table.filter
         /\ r.kind = "list" /\ Guarded => r.query[1] \in 0..table.seq
         /\ Awaited(r) /\ ~table.due => r.query[2] = table.filter
    /\ table.ok /\ ~table.due /\ (\A r \in reqs : ~Awaited(r)) => table.rows[1] = table.filter

\* So it is for the page of a task.
Pending(r) == r.kind = "detail" /\ r.query[2] \in {0, detail.gen}
DetailSound ==
  view = goal /\ IsDetail =>
    /\ detail.gen > 0
    /\ \A r \in reqs : r.kind = "detail" => r.query[2] \in 0..detail.gen
    /\ ~crossed =>
         /\ \A r \in reqs : Pending(r) => r.query[1] = detail.id
         /\ detail.ok /\ (\A r \in reqs : ~Pending(r)) => detail.task = detail.id

\* An export has the batches up to the one it asks for, and what is asked is answered after it began.
ExportSound ==
  /\ goal # "results" => ~detail.exporting
  /\ view = goal /\ goal = "results" =>
      /\ detail.exporting <=> \E r \in reqs : r.kind = "export"
      /\ \A r, s \in reqs : r.kind = "export" /\ s.kind = "export" => r = s
      /\ \A r \in reqs : r.kind = "export" =>
           /\ detail.got \in Seq(Nat) /\ r.query[1] = Len(detail.got)
           /\ \A i \in 1..Len(detail.got) : detail.got[i] = i
           /\ detail.start \in Nat /\ detail.start <= back.results
           /\ r.stage = "ok" => r.ans \in Nat /\ detail.start <= r.ans

\* The versions a form offers are those of the rule it names.
FormSound ==
  /\ consoleForm.rule # None => consoleForm.fields[consoleForm.mode].rule = consoleForm.rule
  /\ goal = "modal" => consoleForm.mode = "once" /\ consoleForm.fields["once"].rule = consoleForm.rule
  /\ consoleForm.rule # None /\ (goal = "create" \/ consoleForm.listed) =>
       consoleForm.versions \subseteq Approved[consoleForm.rule]
  /\ consoleForm.rule # None /\ goal = "modal" /\ consoleForm.listed =>
       consoleForm.fields["once"].version \in Approved[consoleForm.rule] \cup {0}
  /\ \A r \in reqs : r.kind = "versions" =>
       /\ r.query[2] <= consoleForm.gen
       /\ r.query[2] = consoleForm.gen => consoleForm.rule \in {None, r.query[1]}
  /\ consoleForm.submitting => IsForm /\ (view = goal => Asking("submit"))

\* A decision is sent for what was seen.
ActSound == goal = "detail" => \A r \in reqs : r.kind = "act" => r.query[2] = r.query[3]

ConsoleInv ==
  /\ ConsoleTyped /\ SessionSound /\ TableSound /\ DetailSound /\ ExportSound /\ FormSound /\ ActSound
  /\ BindingIsOfRule /\ DecidedAsSeen /\ ExportIsWhole
-----------------------------------------------------------------------------
(* Requests.                                                                *)

\* What a new request is.
LEMMA RequestFields ==
  ASSUME NEW kind, NEW q
  PROVE  /\ DOMAIN Request(kind, q) = {"n", "kind", "query", "key", "stage", "ans"}
         /\ Request(kind, q).kind = kind /\ Request(kind, q).query = q
         /\ Request(kind, q).key = session.key
         /\ Request(kind, q).stage = "sent" /\ Request(kind, q).ans = 0
BY DEF Request

\* The requests after one that was asked, and after one that was taken away.
LEMMA AskKeepsTyped ==
  ASSUME \A r \in reqs : ReqTyped(r), goal' = goal,
         NEW gone, NEW kind \in Kinds, NEW q, Fits(kind), Ask(gone, kind, q),
         kind = "versions" => q[1] \in DOMAIN Approved /\ q[2] \in Nat
  PROVE  \A r \in reqs' : ReqTyped(r)'
<1>1. ReqTyped(Request(kind, q))
  BY RequestFields DEF ReqTyped
<1>2. reqs' = (reqs \ gone) \cup {Request(kind, q)}
  BY DEF Ask
<1>3. \A r \in reqs' : ReqTyped(r)
  BY <1>1, <1>2
<1>4. \A kd : Fits(kd)' = Fits(kd)
  BY DEF Fits, IsTable, HasRowActions, IsDetail, IsForm
<1> QED BY <1>3, <1>4 DEF ReqTyped

\* So it is when some are taken away.
LEMMA AskNothingKeepsTyped ==
  ASSUME \A r \in reqs : ReqTyped(r), goal' = goal, reqs' \subseteq reqs
  PROVE  \A r \in reqs' : ReqTyped(r)'
<1>4. \A kd : Fits(kd)' = Fits(kd)
  BY DEF Fits, IsTable, HasRowActions, IsDetail, IsForm
<1> QED BY <1>4 DEF ReqTyped

\* A request that goes on keeps what it is.
Goes(r, s) == /\ DOMAIN s = DOMAIN r
              /\ s.kind = r.kind /\ s.query = r.query /\ s.n = r.n /\ s.key = r.key

\* The server and a failure move one request on.
LEMMA ServeMoves ==
  ASSUME NEW r \in reqs, ReqTyped(r), BackTyped, Serve(r) \/ Fail(r)
  PROVE  \E s : /\ Goes(r, s) /\ reqs' = (reqs \ {r}) \cup {s}
                /\ s.stage \in {"ok", "failed", "denied"} /\ (Fail(r) => s.stage = "failed" /\ s.ans = r.ans)
                /\ r.kind = "detail" => s.ans \in 0..2
                /\ r.kind = "export" /\ s.stage = "ok" => s.ans = back.results
<1>1. CASE Fail(r)
  <2>1. reqs' = (reqs \ {r}) \cup {[r EXCEPT !.stage = "failed"]}
    BY <1>1 DEF Fail
  <2>2. Goes(r, [r EXCEPT !.stage = "failed"]) /\ [r EXCEPT !.stage = "failed"].stage = "failed"
        /\ [r EXCEPT !.stage = "failed"].ans = r.ans
    BY DEF Goes, ReqTyped
  <2> QED BY <2>1, <2>2 DEF ReqTyped
<1>2. CASE Serve(r) /\ ~Fail(r)
  <2> DEFINE deciding == r.kind = "act" /\ ~IsTable /\ r.query[2] # 0
             apt == deciding /\ r.query[2] = back.human
             stage == IF r.key \notin back.keys THEN "denied"
                      ELSE IF deciding /\ ~apt THEN "failed" ELSE "ok"
             ans == CASE r.kind = "detail" -> IF r.query[1] = "t1" THEN back.human ELSE 0
                      [] r.kind = "export" -> back.results
                      [] OTHER -> 0
             s == [r EXCEPT !.stage = stage, !.ans = ans]
  <2>1. reqs' = (reqs \ {r}) \cup {s}
    BY <1>2 DEF Serve
  <2>2. stage \in {"ok", "failed", "denied"}
    OBVIOUS
  <2>3. r.kind = "detail" => ans \in 0..2
    BY DEF BackTyped
  <2>4. r.kind = "export" => ans = back.results
    OBVIOUS
  <2>5. Goes(r, s) /\ s.stage = stage /\ s.ans = ans
    BY DEF Goes, ReqTyped
  <2> QED BY <1>2, <2>1, <2>2, <2>3, <2>4, <2>5
<1> QED BY <1>1, <1>2

\* Then every request still has its type.
LEMMA ServeKeepsTyped ==
  ASSUME \A r \in reqs : ReqTyped(r), BackTyped, goal' = goal, NEW r \in reqs, Serve(r) \/ Fail(r)
  PROVE  \A s \in reqs' : ReqTyped(s)'
<1>1. PICK s : /\ Goes(r, s) /\ reqs' = (reqs \ {r}) \cup {s}
               /\ s.stage \in {"ok", "failed", "denied"}
               /\ r.kind = "detail" => s.ans \in 0..2
  BY ServeMoves
<1>2. ReqTyped(s)
  BY <1>1 DEF ReqTyped, Goes
<1>4. \A kd : Fits(kd)' = Fits(kd)
  BY DEF Fits, IsTable, HasRowActions, IsDetail, IsForm
<1> QED BY <1>1, <1>2, <1>4 DEF ReqTyped

-----------------------------------------------------------------------------
(* Types.                                                                   *)

\* The goal is what it was and a view is one of three.
LEMMA GoalStays ==
  ASSUME [ConsoleNext]_consoleVars, view \in {"checking", "login", goal}
  PROVE  goal' = goal /\ view' \in {"checking", "login", goal}
<1>1. CASE UserActs
  BY <1>1, Zenon DEF UserActs, Login, Logout, SetFilter, HandleTableChange, RowAction, OpenTask, Refresh,
     LoadResults, OpenConfirm, ConfirmOk, CancelConfirm, ChangeTask, HandleExport, HandleRuleChange,
     PickVersion, SwitchMode, Submit, rest, Acts
<1>2. ASSUME NEW r \in reqs, Landing(r) PROVE goal' = goal /\ view' \in {"checking", "login", goal}
  BY <1>2 DEF Landing, Serve, Answer, AnswerDenied, AnswerUnseen, AnswerVerify, Mount
<1>3. ASSUME NEW r \in reqs, Fail(r) PROVE goal' = goal /\ view' = view
  BY <1>3 DEF Fail
<1>4. CASE Debounce \/ RevokeKey \/ Worker
  BY <1>4 DEF Debounce, RevokeKey, Worker, rest
<1> QED BY <1>1, <1>2, <1>3, <1>4 DEF ConsoleNext, consoleVars

\* An answer is handled by what asked for it.
LEMMA AnswerByKind ==
  ASSUME NEW r \in reqs, ReqTyped(r), Answer(r)
  PROVE  /\ view = goal /\ r.stage \in {"ok", "failed"}
         /\ UNCHANGED <<view, goal, session, back, steps, troubles, bound, decided>>
         /\ r.kind # "export" => exports' = exports
         /\ \/ r.kind = "list" /\ AnswerList(r)
            \/ r.kind = "act" /\ IsTable /\ AnswerRowAction(r)
            \/ r.kind = "act" /\ ~IsTable /\ AnswerTaskAction(r)
            \/ r.kind = "detail" /\ AnswerDetail(r)
            \/ r.kind = "results" /\ AnswerResults(r)
            \/ r.kind = "export" /\ AnswerExport(r)
            \/ r.kind = "versions" /\ AnswerVersions(r)
            \/ r.kind = "submit" /\ AnswerSubmit(r)
<1>1. r.kind \in Kinds \ {"verify", "gone"}
  BY DEF Answer, ReqTyped
<1>2. /\ view = goal /\ r.stage \in {"ok", "failed"}
      /\ UNCHANGED <<view, goal, session, back, steps, troubles, bound, decided>>
      /\ r.kind # "export" => exports' = exports
  BY DEF Answer
<1>3. /\ r.kind = "list" => AnswerList(r)
      /\ r.kind = "act" => IF IsTable THEN AnswerRowAction(r) ELSE AnswerTaskAction(r)
      /\ r.kind = "detail" => AnswerDetail(r)
      /\ r.kind = "results" => AnswerResults(r)
      /\ r.kind = "export" => AnswerExport(r)
      /\ r.kind = "versions" => AnswerVersions(r)
      /\ r.kind = "submit" => AnswerSubmit(r)
  BY DEF Answer
<1> QED BY <1>1, <1>2, <1>3 DEF Kinds

\* Who moves the table.
LEMMA TableMoves ==
  ASSUME ConsoleTyped, [ConsoleNext]_consoleVars
  PROVE  \/ table' = table
         \/ SetFilter \/ Debounce \/ HandleTableChange
         \/ \E r \in reqs : \/ Answer(r) /\ r.kind = "act" /\ IsTable /\ AnswerRowAction(r)
                            \/ Answer(r) /\ r.kind = "list" /\ AnswerList(r)
                            \/ r.kind = "verify" /\ r.stage \in {"ok", "failed"} /\ AnswerVerify(r)
                            \/ AnswerDenied(r)
<1>1. CASE UserActs
  BY <1>1, Zenon DEF UserActs, Login, Logout, RowAction, OpenTask, Refresh,
     LoadResults, OpenConfirm, ConfirmOk, CancelConfirm, ChangeTask, HandleExport, HandleRuleChange,
     PickVersion, SwitchMode, Submit, pageState
<1>2. ASSUME NEW r \in reqs, Answer(r)
      PROVE  \/ table' = table
             \/ r.kind = "act" /\ IsTable /\ AnswerRowAction(r)
             \/ r.kind = "list" /\ AnswerList(r)
  <2>1. ReqTyped(r)
    BY DEF ConsoleTyped
  <2> QED BY <1>2, <2>1, AnswerByKind, Zenon
          DEF AnswerTaskAction, AnswerDetail, AnswerResults, AnswerExport, AnswerVersions, AnswerSubmit
<1>5. ASSUME NEW r \in reqs, Serve(r) \/ Fail(r) \/ AnswerUnseen(r) PROVE table' = table
  BY <1>5 DEF Serve, Fail, AnswerUnseen, pageState
<1>6. CASE RevokeKey \/ Worker
  BY <1>6 DEF RevokeKey, Worker, pageState
<1> QED BY <1>1, <1>2, <1>5, <1>6 DEF ConsoleNext, Landing, consoleVars, pageState

\* A fetch keeps the table's type.
LEMMA FetchKeepsType ==
  ASSUME NEW t, DOMAIN t = {"loading", "filter", "due", "page", "rows", "seq", "ok"},
         t.seq \in Nat, t.page \in 1..2, t.due \in BOOLEAN, t.ok \in BOOLEAN,
         NEW gone, NEW filter, NEW page, Fetch(gone, filter, page, t)
  PROVE  TableTyped'
BY DEF Fetch, TableTyped

\* So does every step.
LEMMA TableKeepsType ==
  ASSUME ConsoleTyped, [ConsoleNext]_consoleVars
  PROVE  TableTyped'
<1>0. TableTyped
  BY DEF ConsoleTyped
<1>1. CASE table' = table
  BY <1>0, <1>1 DEF TableTyped
<1>2. CASE SetFilter
  <2>1. PICK f : IF Guarded THEN table' = [table EXCEPT !.filter = f, !.due = TRUE]
                 ELSE Fetch({}, f, 1, [table EXCEPT !.filter = f])
    BY <1>2, Zenon DEF SetFilter
  <2>2. CASE Guarded
    BY <1>0, <2>1, <2>2 DEF TableTyped
  <2>3. CASE ~Guarded
    BY <1>0, <2>1, <2>3, FetchKeepsType DEF TableTyped
  <2> QED BY <2>2, <2>3
<1>3. CASE Debounce
  BY <1>0, <1>3, FetchKeepsType DEF TableTyped, Debounce
<1>4. CASE HandleTableChange
  <2>1. 3 - table.page \in 1..2
    BY <1>0 DEF TableTyped
  <2>2. Fetch({}, table.filter, 3 - table.page, [table EXCEPT !.page = 3 - table.page])
    BY <1>4 DEF HandleTableChange
  <2> QED BY <1>0, <2>1, <2>2, FetchKeepsType DEF TableTyped
<1>5. ASSUME NEW r \in reqs, AnswerRowAction(r) PROVE TableTyped'
  <2>1. CASE Fetch({r}, r.query[1], r.query[2], table)
    BY <1>0, <2>1, FetchKeepsType DEF TableTyped
  <2>2. CASE table' = table
    BY <1>1, <2>2
  <2> QED BY <1>5, <2>1, <2>2 DEF AnswerRowAction
<1>6. ASSUME NEW r \in reqs, AnswerList(r) PROVE TableTyped'
  BY <1>0, <1>6 DEF AnswerList, TableTyped
<1>7. CASE \E b \in BOOLEAN : table' = [NoTable EXCEPT !.loading = b, !.seq = 1]
  BY <1>7 DEF NoTable, TableTyped
<1>8. ASSUME NEW r \in reqs, AnswerVerify(r) PROVE TableTyped'
  <2>1. IsTable \in BOOLEAN
    BY DEF IsTable
  <2> QED BY <1>1, <1>7, <1>8, <2>1, Zenon DEF AnswerVerify, Mount, pageState
<1>9. ASSUME NEW r \in reqs, AnswerDenied(r) PROVE TableTyped'
  BY <1>9 DEF AnswerDenied, NoTable, TableTyped
<1> QED BY <1>1, <1>2, <1>3, <1>4, <1>5, <1>6, <1>8, <1>9, TableMoves

\* Who moves the page of a task.
LEMMA DetailMoves ==
  ASSUME ConsoleTyped, [ConsoleNext]_consoleVars
  PROVE  \/ detail' = detail
         \/ OpenTask \/ Refresh \/ LoadResults \/ OpenConfirm \/ CancelConfirm \/ HandleExport
         \/ \E r \in reqs : \/ Answer(r) /\ r.kind = "act" /\ ~IsTable /\ AnswerTaskAction(r)
                            \/ Answer(r) /\ r.kind = "detail" /\ AnswerDetail(r)
                            \/ Answer(r) /\ r.kind = "results" /\ AnswerResults(r)
                            \/ Answer(r) /\ r.kind = "export" /\ AnswerExport(r)
                            \/ r.kind = "verify" /\ r.stage \in {"ok", "failed"} /\ AnswerVerify(r)
                            \/ AnswerDenied(r)
<1>1. CASE UserActs
  BY <1>1, Zenon DEF UserActs, Login, Logout, RowAction, SetFilter, HandleTableChange,
     ConfirmOk, ChangeTask, HandleRuleChange, PickVersion, SwitchMode, Submit, pageState
<1>2. ASSUME NEW r \in reqs, Answer(r)
      PROVE  \/ detail' = detail
             \/ r.kind = "act" /\ ~IsTable /\ AnswerTaskAction(r)
             \/ r.kind = "detail" /\ AnswerDetail(r)
             \/ r.kind = "results" /\ AnswerResults(r)
             \/ r.kind = "export" /\ AnswerExport(r)
  <2>1. ReqTyped(r)
    BY DEF ConsoleTyped
  <2> QED BY <1>2, <2>1, AnswerByKind, Zenon DEF AnswerRowAction, AnswerList, AnswerVersions, AnswerSubmit
<1>5. ASSUME NEW r \in reqs, Serve(r) \/ Fail(r) \/ AnswerUnseen(r) PROVE detail' = detail
  BY <1>5 DEF Serve, Fail, AnswerUnseen, pageState
<1>6. CASE RevokeKey \/ Worker \/ Debounce
  BY <1>6 DEF RevokeKey, Worker, Debounce, pageState
<1> QED BY <1>1, <1>2, <1>5, <1>6 DEF ConsoleNext, Landing, consoleVars, pageState

\* Every step keeps its type.
LEMMA DetailKeepsType ==
  ASSUME ConsoleTyped, [ConsoleNext]_consoleVars
  PROVE  DetailTyped'
<1>0. DetailTyped
  BY DEF ConsoleTyped
<1>1. CASE detail' = detail
  BY <1>0, <1>1 DEF DetailTyped
<1>2. CASE OpenTask
  <2>1. (CHOOSE t \in TaskIds : t # detail.id) \in TaskIds
    BY DEF TaskIds
  <2>2. detail' = [detail EXCEPT !.id = CHOOSE t \in TaskIds : t # detail.id,
                                 !.gen = detail.gen + 1, !.loading = TRUE]
    BY <1>2 DEF OpenTask
  <2> QED BY <1>0, <2>1, <2>2 DEF DetailTyped
<1>3. CASE Refresh \/ LoadResults \/ OpenConfirm \/ CancelConfirm \/ HandleExport
  BY <1>0, <1>3 DEF Refresh, LoadResults, OpenConfirm, CancelConfirm, HandleExport, DetailTyped
<1>4. ASSUME NEW r \in reqs, AnswerTaskAction(r) PROVE DetailTyped'
  BY <1>0, <1>4 DEF AnswerTaskAction, DetailTyped
<1>5. ASSUME NEW r \in reqs, r.kind = "detail", AnswerDetail(r) PROVE DetailTyped'
  <2>1. r.ans \in 0..2
    BY <1>5 DEF ConsoleTyped, ReqTyped
  <2>2. \/ detail' = detail
        \/ detail' = Fetched(r, [detail EXCEPT !.task = r.query[1], !.human = r.ans, !.loading = FALSE, !.ok = TRUE])
        \/ detail' = Fetched(r, [detail EXCEPT !.loading = FALSE, !.ok = FALSE])
    BY <1>5 DEF AnswerDetail
  <2> QED BY <1>0, <1>1, <2>1, <2>2, ZenonT(60) DEF Fetched, DetailTyped
<1>6. ASSUME NEW r \in reqs, AnswerResults(r) PROVE DetailTyped'
  BY <1>0, <1>6 DEF AnswerResults, DetailTyped
<1>7. ASSUME NEW r \in reqs, AnswerExport(r) PROVE DetailTyped'
  <2>1. \/ \E got, tries : detail' = [detail EXCEPT !.got = got, !.tries = tries]
        \/ detail' = [detail EXCEPT !.exporting = FALSE, !.got = <<>>, !.tries = 0, !.start = 0]
    BY <1>7, Zenon DEF AnswerExport
  <2> QED BY <1>0, <2>1, Zenon DEF DetailTyped
<1>8. ASSUME NEW r \in reqs, AnswerVerify(r) PROVE DetailTyped'
  <2>1. CASE detail' = [NoDetail EXCEPT !.loading = IsDetail, !.gen = 1]
    BY <2>1 DEF NoDetail, DetailTyped, TaskIds
  <2> QED BY <1>1, <1>8, <2>1 DEF AnswerVerify, Mount, pageState
<1>9. ASSUME NEW r \in reqs, AnswerDenied(r) PROVE DetailTyped'
  BY <1>9 DEF AnswerDenied, NoDetail, DetailTyped, TaskIds
<1> QED BY <1>1, <1>2, <1>3, <1>4, <1>5, <1>6, <1>7, <1>8, <1>9, DetailMoves

FormBecomes(mode, rule, versions, gen, submitting, listed, fields) ==
  /\ DOMAIN consoleForm' = DOMAIN NoForm
  /\ consoleForm'.mode = mode /\ consoleForm'.rule = rule /\ consoleForm'.versions = versions
  /\ consoleForm'.gen = gen /\ consoleForm'.submitting = submitting /\ consoleForm'.listed = listed
  /\ consoleForm'.fields = fields
Form == consoleForm

\* A field with another version.
LEMMA FieldTakes ==
  ASSUME NEW field \in FieldType, NEW version
  PROVE  [field EXCEPT !.version = version] = [rule |-> field.rule, version |-> version]
<1>1. field = [rule |-> field.rule, version |-> field.version]
  BY DEF FieldType
<1>2. \A a, b : [[rule |-> a, version |-> b] EXCEPT !.version = version] = [rule |-> a, version |-> version]
  OBVIOUS
<1> QED BY <1>1, <1>2

\* The choice of a rule names it in the form and in its field.
LEMMA RuleChangeWrites ==
  ASSUME FormTyped, HandleRuleChange
  PROVE  \E rule \in DOMAIN Approved :
           /\ FormBecomes(Form.mode, rule, IF goal = "create" THEN {} ELSE Form.versions, Form.gen + 1, FALSE, FALSE,
                [Form.fields EXCEPT ![Form.mode] =
                   [rule |-> rule, version |-> IF goal = "create" THEN 0 ELSE Form.fields[Form.mode].version]])
           /\ Ask({}, "versions", <<rule, Form.gen + 1>>)
<1>1. PICK rule \in DOMAIN Approved :
        /\ consoleForm' = [consoleForm EXCEPT !.rule = rule, !.gen = consoleForm.gen + 1, !.loading = TRUE,
                                  !.listed = FALSE,
                                  !.versions = IF goal = "create" THEN {} ELSE @,
                                  !.barred = FALSE,
                                  !.fields[consoleForm.mode] =
                                     [rule |-> rule, version |-> IF goal = "create" THEN 0 ELSE @.version]]
        /\ Ask({}, "versions", <<rule, consoleForm.gen + 1>>)
  BY Zenon DEF HandleRuleChange
<1>2. ~consoleForm.submitting
  BY DEF HandleRuleChange
<1> DEFINE field == [rule |-> rule, version |-> IF goal = "create" THEN 0 ELSE Form.fields[Form.mode].version]
           old == Form.fields[Form.mode]
<1>3. consoleForm'.fields = [Form.fields EXCEPT ![Form.mode] = field]
  BY <1>1 DEF FormTyped, Form
<1> QED BY <1>1, <1>2, <1>3 DEF FormBecomes, FormTyped, NoForm, Form

\* The answer lists the approved versions of the rule it was asked for and takes the latest.
LEMMA ListedWrites ==
  ASSUME FormTyped, NEW rule \in DOMAIN Approved, Listed(rule)
  PROVE  \E first \in Approved[rule] \cup {0} :
           FormBecomes(Form.mode, Form.rule, Approved[rule], Form.gen, Form.submitting, TRUE,
             [Form.fields EXCEPT ![Form.mode] = [rule |-> Form.fields[Form.mode].rule, version |-> first]])
<1> DEFINE approved == Approved[rule]
           first == IF approved = {} THEN 0 ELSE CHOOSE v \in approved : \A w \in approved : v >= w
<1>1. first \in approved \cup {0}
  BY ConsoleAssumption
<1>2. consoleForm' = [consoleForm EXCEPT !.versions = approved, !.loading = FALSE, !.listed = TRUE,
                             !.barred = (goal = "create" /\ approved = {} /\ rule \notin Legacy),
                             !.fields = Take(consoleForm.mode, first)]
  BY DEF Listed
<1>3. Take(consoleForm.mode, first) =
        [Form.fields EXCEPT ![Form.mode] = [rule |-> Form.fields[Form.mode].rule, version |-> first]]
  <2>1. Form.fields[Form.mode] \in FieldType
    BY DEF FormTyped, Form
  <2> QED BY <2>1, FieldTakes DEF Take, FormTyped, Form
<1>4. FormBecomes(Form.mode, Form.rule, approved, Form.gen, Form.submitting, TRUE, Take(consoleForm.mode, first))
  BY <1>2 DEF FormBecomes, FormTyped, NoForm, Form
<1> QED BY <1>1, <1>3, <1>4, ZenonT(60)

\* So does the user's own choice among the versions.
LEMMA PickWrites ==
  ASSUME FormTyped, PickVersion
  PROVE  \E v \in Form.versions :
           FormBecomes(Form.mode, Form.rule, Form.versions, Form.gen, Form.submitting, Form.listed,
             [Form.fields EXCEPT ![Form.mode] = [rule |-> Form.fields[Form.mode].rule, version |-> v]])
<1>1. PICK v \in consoleForm.versions : consoleForm' = [consoleForm EXCEPT !.fields = Take(consoleForm.mode, v)]
  BY DEF PickVersion
<1>2. Take(consoleForm.mode, v) =
        [Form.fields EXCEPT ![Form.mode] = [rule |-> Form.fields[Form.mode].rule, version |-> v]]
  <2>1. Form.fields[Form.mode] \in FieldType
    BY DEF FormTyped, Form
  <2> QED BY <2>1, FieldTakes DEF Take, FormTyped, Form
<1>3. FormBecomes(Form.mode, Form.rule, Form.versions, Form.gen, Form.submitting, Form.listed,
                  Take(consoleForm.mode, v))
  BY <1>1 DEF FormBecomes, FormTyped, NoForm, Form
<1> QED BY <1>2, <1>3 DEF Form

\* Who moves the form.
LEMMA FormMoves ==
  ASSUME ConsoleTyped, [ConsoleNext]_consoleVars
  PROVE  \/ consoleForm' = consoleForm
         \/ HandleRuleChange
         \/ PickVersion
         \/ SwitchMode
         \/ /\ Submit
            /\ FormBecomes(Form.mode, Form.rule, Form.versions, Form.gen, TRUE, Form.listed, Form.fields)
         \/ \E r \in reqs : /\ r.kind = "versions" /\ r.query[2] = Form.gen /\ r.stage = "ok"
                            /\ Listed(r.query[1]) /\ reqs' = reqs \ {r}
         \/ \E r \in reqs : /\ r.kind = "versions" /\ reqs' = reqs \ {r}
                            /\ FormBecomes(Form.mode, Form.rule, {}, Form.gen, Form.submitting, Form.listed,
                                           Form.fields)
         \/ \E r \in reqs : /\ r.kind = "submit" /\ reqs' = reqs \ {r}
                            /\ consoleForm' = [NoForm EXCEPT !.gen = Form.gen]
         \/ \E r \in reqs : /\ r.kind = "submit" /\ reqs' = reqs \ {r}
                            /\ FormBecomes(Form.mode, Form.rule, Form.versions, Form.gen, FALSE, Form.listed,
                                           Form.fields)
         \/ \E r \in reqs : AnswerVerify(r) /\ r.kind = "verify" /\ consoleForm' = NoForm
         \/ reqs' = {} /\ consoleForm' = NoForm
<1>0. FormTyped
  BY DEF ConsoleTyped
<1>1. CASE UserActs
  <2>1. Submit => FormBecomes(Form.mode, Form.rule, Form.versions, Form.gen, TRUE, Form.listed, Form.fields)
    BY <1>0 DEF Submit, FormBecomes, FormTyped, NoForm, Form
  <2> QED BY <1>1, <2>1, Zenon DEF UserActs, Login, Logout, RowAction, SetFilter, HandleTableChange, OpenTask, Refresh,
     LoadResults, OpenConfirm, ConfirmOk, CancelConfirm, ChangeTask, HandleExport, pageState
<1>2. ASSUME NEW r \in reqs, r.kind = "versions", AnswerVersions(r)
      PROVE  \/ consoleForm' = consoleForm
             \/ r.query[2] = Form.gen /\ r.stage = "ok" /\ Listed(r.query[1]) /\ reqs' = reqs \ {r}
             \/ /\ reqs' = reqs \ {r}
                /\ FormBecomes(Form.mode, Form.rule, {}, Form.gen, Form.submitting, Form.listed, Form.fields)
  <2>1. consoleForm' = [consoleForm EXCEPT !.versions = {}, !.loading = FALSE] =>
          FormBecomes(Form.mode, Form.rule, {}, Form.gen, Form.submitting, Form.listed, Form.fields)
    BY <1>0 DEF FormBecomes, FormTyped, NoForm, Form
  <2> QED BY <1>2, <2>1 DEF AnswerVersions, AskNothing, Form
<1>3. ASSUME NEW r \in reqs, r.kind = "submit", AnswerSubmit(r)
      PROVE  /\ reqs' = reqs \ {r}
             /\ \/ consoleForm' = [NoForm EXCEPT !.gen = Form.gen]
                \/ FormBecomes(Form.mode, Form.rule, Form.versions, Form.gen, FALSE, Form.listed, Form.fields)
  <2>1. consoleForm' = [consoleForm EXCEPT !.submitting = FALSE] =>
          FormBecomes(Form.mode, Form.rule, Form.versions, Form.gen, FALSE, Form.listed, Form.fields)
    BY <1>0 DEF FormBecomes, FormTyped, NoForm, Form
  <2> QED BY <1>3, <2>1 DEF AnswerSubmit, AskNothing, Form
<1>4. ASSUME NEW r \in reqs, Answer(r)
      PROVE  \/ consoleForm' = consoleForm
             \/ r.kind = "versions" /\ AnswerVersions(r)
             \/ r.kind = "submit" /\ AnswerSubmit(r)
  <2>1. ReqTyped(r)
    BY DEF ConsoleTyped
  <2> QED BY <1>4, <2>1, AnswerByKind, Zenon
          DEF AnswerRowAction, AnswerTaskAction, AnswerList, AnswerDetail, AnswerResults, AnswerExport
<1>5. ASSUME NEW r \in reqs, Serve(r) \/ Fail(r) \/ AnswerUnseen(r) PROVE consoleForm' = consoleForm
  BY <1>5 DEF Serve, Fail, AnswerUnseen, pageState
<1>6. CASE RevokeKey \/ Worker \/ Debounce
  BY <1>6 DEF RevokeKey, Worker, Debounce, pageState
<1>7. ASSUME NEW r \in reqs, AnswerVerify(r) PROVE consoleForm' = consoleForm \/ consoleForm' = NoForm
  BY <1>7 DEF AnswerVerify, Mount, pageState
<1>8. ASSUME NEW r \in reqs, AnswerDenied(r) PROVE reqs' = {} /\ consoleForm' = NoForm
  BY <1>8 DEF AnswerDenied
<1> QED BY <1>1, <1>2, <1>3, <1>4, <1>5, <1>6, <1>7, <1>8 DEF ConsoleNext, Landing, consoleVars, pageState

\* A form has its types when its parts have theirs.
LEMMA FormBecomesTyped ==
  ASSUME NEW mode \in Modes, NEW rule \in DOMAIN Approved \cup {None}, NEW versions \in SUBSET Nat,
         NEW gen \in Nat, NEW submitting \in BOOLEAN, NEW listed \in BOOLEAN,
         NEW fields \in [Modes -> FieldType],
         FormBecomes(mode, rule, versions, gen, submitting, listed, fields)
  PROVE  FormTyped'
BY DEF FormBecomes, FormTyped, NoForm

\* Every step keeps the form's type.
LEMMA FormKeepsType ==
  ASSUME ConsoleTyped, [ConsoleNext]_consoleVars
  PROVE  FormTyped'
<1>0. FormTyped
  BY DEF ConsoleTyped
<1>1. /\ Form.mode \in Modes /\ Form.rule \in DOMAIN Approved \cup {None} /\ Form.versions \in SUBSET Nat
      /\ Form.gen \in Nat /\ Form.submitting \in BOOLEAN /\ Form.listed \in BOOLEAN
      /\ Form.fields \in [Modes -> FieldType]
  BY <1>0 DEF FormTyped, Form
<1>2. ASSUME NEW rule \in DOMAIN Approved \cup {None}, NEW version \in Nat
      PROVE  [Form.fields EXCEPT ![Form.mode] = [rule |-> rule, version |-> version]] \in [Modes -> FieldType]
  BY <1>1 DEF FieldType
<1>3. Form.fields[Form.mode].rule \in DOMAIN Approved \cup {None} /\ Form.fields[Form.mode].version \in Nat
  BY <1>1 DEF FieldType
<1>4. CASE consoleForm' = consoleForm
  BY <1>0, <1>4 DEF FormTyped
<1>5. CASE HandleRuleChange
  <2>1. PICK rule \in DOMAIN Approved :
          FormBecomes(Form.mode, rule, IF goal = "create" THEN {} ELSE Form.versions, Form.gen + 1, FALSE, FALSE,
                [Form.fields EXCEPT ![Form.mode] =
                   [rule |-> rule, version |-> IF goal = "create" THEN 0 ELSE Form.fields[Form.mode].version]])
    BY <1>0, <1>5, RuleChangeWrites
  <2>2. (IF goal = "create" THEN {} ELSE Form.versions) \in SUBSET Nat /\ Form.gen + 1 \in Nat
        /\ (IF goal = "create" THEN 0 ELSE Form.fields[Form.mode].version) \in Nat
    BY <1>1, <1>3
  <2> HIDE DEF Form
  <2> QED BY <1>1, <1>2, <2>1, <2>2, FormBecomesTyped
<1>6. CASE PickVersion
  <2>1. PICK v \in Form.versions :
           FormBecomes(Form.mode, Form.rule, Form.versions, Form.gen, Form.submitting, Form.listed,
             [Form.fields EXCEPT ![Form.mode] = [rule |-> Form.fields[Form.mode].rule, version |-> v]])
    BY <1>0, <1>6, PickWrites
  <2>2. v \in Nat
    BY <1>1
  <2>3. [Form.fields EXCEPT ![Form.mode] = [rule |-> Form.fields[Form.mode].rule, version |-> v]]
          \in [Modes -> FieldType]
    BY <1>2, <1>3, <2>2
  <2> QED BY <1>1, <2>1, <2>3, FormBecomesTyped
<1>7. CASE SwitchMode
  BY <1>0, <1>7 DEF SwitchMode, FormTyped, Modes
<1>8. CASE FormBecomes(Form.mode, Form.rule, Form.versions, Form.gen, TRUE, Form.listed, Form.fields)
  BY <1>1, <1>8, FormBecomesTyped
<1>9. CASE FormBecomes(Form.mode, Form.rule, Form.versions, Form.gen, FALSE, Form.listed, Form.fields)
  BY <1>1, <1>9, FormBecomesTyped
<1>10. CASE FormBecomes(Form.mode, Form.rule, {}, Form.gen, Form.submitting, Form.listed, Form.fields)
  BY <1>1, <1>10, FormBecomesTyped
<1>11. ASSUME NEW rule, rule \in DOMAIN Approved, Listed(rule) PROVE FormTyped'
  <2>1. PICK first \in Approved[rule] \cup {0} :
           FormBecomes(Form.mode, Form.rule, Approved[rule], Form.gen, Form.submitting, TRUE,
             [Form.fields EXCEPT ![Form.mode] = [rule |-> Form.fields[Form.mode].rule, version |-> first]])
    BY <1>0, <1>11, ListedWrites
  <2>2. first \in Nat /\ Approved[rule] \in SUBSET Nat
    BY <1>11, ConsoleAssumption
  <2>3. [Form.fields EXCEPT ![Form.mode] = [rule |-> Form.fields[Form.mode].rule, version |-> first]]
          \in [Modes -> FieldType]
    BY <1>2, <1>3, <2>2
  <2> DEFINE versions == Approved[rule]
             fields == [Form.fields EXCEPT ![Form.mode] = [rule |-> Form.fields[Form.mode].rule, version |-> first]]
  <2>4. FormBecomes(Form.mode, Form.rule, versions, Form.gen, Form.submitting, TRUE, fields)
    BY <2>1
  <2>5. versions \in SUBSET Nat /\ fields \in [Modes -> FieldType]
    BY <2>2, <2>3
  <2> HIDE DEF Form, versions, fields
  <2> QED BY <1>1, <2>4, <2>5, FormBecomesTyped
<1>12. CASE consoleForm' = NoForm \/ consoleForm' = [NoForm EXCEPT !.gen = Form.gen]
  <2>1. [m \in Modes |-> [rule |-> None, version |-> 0]] \in [Modes -> FieldType]
    BY DEF FieldType
  <2>2. /\ NoForm.fields \in [Modes -> FieldType] /\ NoForm.mode = "once" /\ NoForm.rule = None
        /\ NoForm.versions = {} /\ NoForm.gen = 0 /\ NoForm.submitting = FALSE /\ NoForm.listed = FALSE
    BY <2>1 DEF NoForm
  <2>3. \E gen \in Nat : FormBecomes("once", None, {}, gen, FALSE, FALSE, NoForm.fields)
    <3>1. CASE consoleForm' = NoForm
      BY <2>2, <3>1 DEF FormBecomes
    <3>2. CASE consoleForm' = [NoForm EXCEPT !.gen = Form.gen]
      BY <1>1, <3>2 DEF FormBecomes, NoForm
    <3> QED BY <1>12, <3>1, <3>2
  <2> QED BY <2>2, <2>3, FormBecomesTyped DEF Modes
<1>13. \A r \in reqs : r.kind = "versions" => r.query[1] \in DOMAIN Approved
  BY DEF ConsoleTyped, ReqTyped
<1> HIDE DEF Form
<1> QED BY <1>13, <1>4, <1>5, <1>6, <1>7, <1>8, <1>9, <1>10, <1>11, <1>12, FormMoves

\* Who asks, for what, and who takes requests away.
LEMMA ReqsMove ==
  ASSUME ConsoleTyped, [ConsoleNext]_consoleVars
  PROVE  \/ \E gone, kind, q : /\ Ask(gone, kind, q) /\ kind \in Kinds \ {"verify", "gone"} /\ Fits(kind)
                               /\ kind = "versions" => HandleRuleChange /\ q[1] \in DOMAIN Approved /\ q[2] \in Nat
         \/ reqs' \subseteq reqs
         \/ Login \/ Logout
         \/ \E r \in reqs : Serve(r) \/ Fail(r)
<1> DEFINE Asks == \E gone, kind, q : /\ Ask(gone, kind, q) /\ kind \in Kinds \ {"verify", "gone"} /\ Fits(kind)
                                      /\ kind = "versions" =>
                                           HandleRuleChange /\ q[1] \in DOMAIN Approved /\ q[2] \in Nat
<1>0. view \in {"checking", "login", goal}
  BY DEF ConsoleTyped
<1>a. ASSUME NEW gone, NEW kind \in Kinds \ {"verify", "gone", "versions"}, NEW q, Fits(kind), Ask(gone, kind, q)
      PROVE  Asks
  BY <1>a
<1>b. /\ IsTable => Fits("list")
      /\ HasFilter => Fits("list")
      /\ HasRowActions \/ goal = "detail" => Fits("act")
      /\ IsDetail \/ goal = "detail" => Fits("detail")
      /\ goal = "results" => Fits("results") /\ Fits("export")
      /\ IsForm => Fits("versions") /\ Fits("submit")
  BY DEF Fits, HasFilter, IsTable, IsDetail
<1>c. "list" \in Kinds \ {"verify", "gone", "versions"} /\ "act" \in Kinds \ {"verify", "gone", "versions"}
      /\ "detail" \in Kinds \ {"verify", "gone", "versions"} /\ "results" \in Kinds \ {"verify", "gone", "versions"}
      /\ "export" \in Kinds \ {"verify", "gone", "versions"} /\ "submit" \in Kinds \ {"verify", "gone", "versions"}
  BY DEF Kinds
<1>d. ASSUME NEW gone, NEW f, NEW page, NEW t, Fetch(gone, f, page, t), IsTable \/ HasFilter PROVE Asks
  BY <1>a, <1>b, <1>c, <1>d DEF Fetch
<1> SUFFICES Asks \/ reqs' \subseteq reqs \/ Login \/ Logout \/ \E r \in reqs : Serve(r) \/ Fail(r)
  OBVIOUS
<1> HIDE DEF Asks
<1>1. CASE SetFilter
  <2>1. CASE reqs' = reqs
    BY <2>1
  <2>2. CASE \E f : Fetch({}, f, 1, [table EXCEPT !.filter = f])
    BY <1>1, <1>d, <2>2 DEF SetFilter
  <2> QED BY <1>1, <2>1, <2>2 DEF SetFilter
<1>2. CASE Debounce
  <2>1. IsTable
    BY <1>2 DEF Debounce, Guarded, IsTable
  <2> QED BY <1>2, <1>d, <2>1 DEF Debounce
<1>3. CASE HandleTableChange
  BY <1>3, <1>d DEF HandleTableChange
<1>4. CASE RowAction
  BY <1>4, <1>a, <1>b, <1>c DEF RowAction
<1>5. CASE OpenTask
  BY <1>5, <1>a, <1>b, <1>c DEF OpenTask
<1>6. CASE Refresh \/ ConfirmOk \/ ChangeTask
  <2>1. goal = "detail"
    BY <1>0, <1>6 DEF Refresh, ConfirmOk, ChangeTask, Acts
  <2>2. CASE Refresh
    BY <2>1, <2>2, <1>a, <1>b, <1>c DEF Refresh
  <2>3. CASE ConfirmOk
    BY <2>1, <2>3, <1>a, <1>b, <1>c DEF ConfirmOk
  <2>4. CASE ChangeTask
    BY <2>1, <2>4, <1>a, <1>b, <1>c DEF ChangeTask
  <2> QED BY <1>6, <2>2, <2>3, <2>4
<1>7. CASE LoadResults \/ HandleExport
  <2>1. goal = "results"
    BY <1>0, <1>7 DEF LoadResults, HandleExport, Acts
  <2>2. CASE LoadResults
    BY <2>1, <2>2, <1>a, <1>b, <1>c DEF LoadResults
  <2>3. CASE HandleExport
    BY <2>1, <2>3, <1>a, <1>b, <1>c DEF HandleExport
  <2> QED BY <1>7, <2>2, <2>3
<1>8. CASE HandleRuleChange
  <2>1. PICK rule \in DOMAIN Approved : Ask({}, "versions", <<rule, consoleForm.gen + 1>>)
    BY <1>8 DEF HandleRuleChange
  <2>2. consoleForm.gen + 1 \in Nat /\ Fits("versions") /\ "versions" \in Kinds \ {"verify", "gone"}
    BY <1>8, <1>b DEF HandleRuleChange, ConsoleTyped, FormTyped, Kinds
  <2>3. <<rule, consoleForm.gen + 1>>[1] \in DOMAIN Approved /\ <<rule, consoleForm.gen + 1>>[2] \in Nat
    BY <2>2
  <2> QED BY <1>8, <2>1, <2>2, <2>3 DEF Asks
<1>9. CASE Submit
  BY <1>9, <1>a, <1>b, <1>c DEF Submit
<1>10. CASE OpenConfirm \/ CancelConfirm \/ PickVersion \/ SwitchMode
  BY <1>10 DEF OpenConfirm, CancelConfirm, PickVersion, SwitchMode
<1>11. ASSUME NEW r \in reqs, Answer(r) PROVE Asks \/ reqs' \subseteq reqs
  <2>0. ReqTyped(r)
    BY DEF ConsoleTyped
  <2>1. CASE r.kind = "act" /\ IsTable /\ AnswerRowAction(r)
    BY <2>1, <1>d DEF AnswerRowAction, AskNothing
  <2>2. CASE r.kind = "act" /\ ~IsTable /\ AnswerTaskAction(r)
    <3>1. goal = "detail"
      BY <2>0, <2>2 DEF ReqTyped, Fits, HasRowActions, IsTable
    <3> QED BY <2>2, <3>1, <1>a, <1>b, <1>c DEF AnswerTaskAction, AskNothing
  <2>3. CASE r.kind = "export" /\ AnswerExport(r)
    <3>1. goal = "results"
      BY <2>0, <2>3 DEF ReqTyped, Fits
    <3>2. (\E offset : Ask({r}, "export", <<offset, 0>>)) \/ AskNothing({r})
      BY <2>3 DEF AnswerExport
    <3> QED BY <3>1, <3>2, <1>a, <1>b, <1>c DEF AskNothing
  <2>4. CASE AnswerList(r) \/ AnswerDetail(r) \/ AnswerResults(r) \/ AnswerVersions(r) \/ AnswerSubmit(r)
    BY <2>4 DEF AnswerList, AnswerDetail, AnswerResults, AnswerVersions, AnswerSubmit, AskNothing
  <2> QED BY <1>11, <2>0, <2>1, <2>2, <2>3, <2>4, AnswerByKind
<1>12. ASSUME NEW r \in reqs, r.kind = "verify", AnswerVerify(r) PROVE Asks \/ reqs' \subseteq reqs
  <2>1. goal = "dashboard"
    BY <1>12 DEF ConsoleTyped, ReqTyped, Fits
  <2>2. IsTable /\ ~IsForm /\ FirstQuery[1] = "list"
    BY <2>1 DEF IsTable, IsForm, FirstQuery
  <2>3. CASE Mount({r})
    BY <2>2, <2>3, <1>a, <1>b, <1>c DEF Mount
  <2>4. CASE AskNothing({r})
    BY <2>4 DEF AskNothing
  <2> QED BY <1>12, <2>3, <2>4 DEF AnswerVerify
<1>13. ASSUME NEW r \in reqs, AnswerDenied(r) \/ AnswerUnseen(r) PROVE reqs' \subseteq reqs
  BY <1>13 DEF AnswerDenied, AnswerUnseen, AskNothing
<1>14. CASE RevokeKey \/ Worker \/ UNCHANGED consoleVars
  BY <1>14 DEF RevokeKey, Worker, consoleVars
<1>15. UserActs => \/ Login \/ Logout \/ SetFilter \/ HandleTableChange \/ RowAction
                   \/ OpenTask \/ Refresh \/ LoadResults \/ OpenConfirm \/ ConfirmOk \/ CancelConfirm \/ ChangeTask
                   \/ HandleExport \/ HandleRuleChange \/ PickVersion \/ SwitchMode \/ Submit
  BY DEF UserActs
<1>16. ASSUME NEW r \in reqs, Landing(r) PROVE Asks \/ reqs' \subseteq reqs \/ Serve(r)
  BY <1>16, <1>11, <1>12, <1>13 DEF Landing
<1> QED BY <1>1, <1>2, <1>3, <1>4, <1>5, <1>6, <1>7, <1>8, <1>9, <1>10, <1>14, <1>15, <1>16 DEF ConsoleNext

\* Every step keeps the requests' types.
LEMMA ReqsKeepType ==
  ASSUME ConsoleTyped, [ConsoleNext]_consoleVars
  PROVE  \A r \in reqs' : ReqTyped(r)'
<1>0. goal' = goal /\ BackTyped /\ \A r \in reqs : ReqTyped(r)
  BY GoalStays DEF ConsoleTyped
<1>1. CASE Login
  <2> DEFINE s == [Request("verify", "login") EXCEPT !.key = "new"]
  <2>1. reqs' = reqs \cup {s} /\ goal = "dashboard"
    BY <1>1 DEF Login
  <2>2. DOMAIN s = {"n", "kind", "query", "key", "stage", "ans"} /\ s.kind = "verify" /\ s.stage = "sent"
    BY DEF Request
  <2>3. ReqTyped(s)
    BY <2>1, <2>2 DEF ReqTyped, Kinds, Fits
  <2>4. \A kd : Fits(kd)' = Fits(kd)
    BY <1>0 DEF Fits, IsTable, HasRowActions, IsDetail, IsForm
  <2> HIDE DEF s
  <2>5. \A r \in reqs' : ReqTyped(r)
    BY <1>0, <2>1, <2>3
  <2> QED BY <2>4, <2>5 DEF ReqTyped
<1>2. CASE Logout
  <2>1. reqs' = {[r EXCEPT !.kind = "gone", !.query = <<>>] : r \in reqs}
    BY <1>2, Zenon DEF Logout
  <2>2. ASSUME NEW r \in reqs PROVE ReqTyped([r EXCEPT !.kind = "gone", !.query = <<>>])
    BY <1>0 DEF ReqTyped, Kinds, Fits
  <2>3. \A kd : Fits(kd)' = Fits(kd)
    BY <1>0 DEF Fits, IsTable, HasRowActions, IsDetail, IsForm
  <2> QED BY <2>1, <2>2, <2>3, ZenonT(60) DEF ReqTyped
<1>3. ASSUME NEW gone, NEW kind, NEW q, Ask(gone, kind, q), kind \in Kinds, Fits(kind),
             kind = "versions" => q[1] \in DOMAIN Approved /\ q[2] \in Nat
      PROVE  \A r \in reqs' : ReqTyped(r)'
  BY <1>0, <1>3, AskKeepsTyped
<1>4. CASE reqs' \subseteq reqs
  BY <1>0, <1>4, AskNothingKeepsTyped
<1>5. ASSUME NEW r \in reqs, Serve(r) \/ Fail(r) PROVE \A s \in reqs' : ReqTyped(s)'
  BY <1>0, <1>5, ServeKeepsTyped
<1> QED BY <1>1, <1>2, <1>3, <1>4, <1>5, ReqsMove

\* Who moves the session and the view.
LEMMA SessionMoves ==
  ASSUME ConsoleTyped, [ConsoleNext]_consoleVars
  PROVE  \/ UNCHANGED <<session, view>>
         \/ Login \/ Logout
         \/ \E r \in reqs : \/ r.kind = "verify" /\ r.stage \in {"ok", "failed"} /\ AnswerVerify(r)
                            \/ AnswerDenied(r)
<1>1. CASE UserActs
  BY <1>1, Zenon DEF UserActs, SetFilter, HandleTableChange, RowAction, OpenTask, Refresh,
     LoadResults, OpenConfirm, ConfirmOk, CancelConfirm, ChangeTask, HandleExport, HandleRuleChange,
     PickVersion, SwitchMode, Submit, rest
<1>2. ASSUME NEW r \in reqs, Answer(r) \/ Serve(r) \/ Fail(r) \/ AnswerUnseen(r) PROVE UNCHANGED <<session, view>>
  BY <1>2 DEF Answer, Serve, Fail, AnswerUnseen
<1>3. CASE Debounce \/ RevokeKey \/ Worker
  BY <1>3 DEF Debounce, RevokeKey, Worker, rest
<1> QED BY <1>1, <1>2, <1>3 DEF ConsoleNext, Landing, consoleVars

\* Every step keeps the session's type.
LEMMA SessionKeepsType ==
  ASSUME ConsoleTyped, [ConsoleNext]_consoleVars
  PROVE  SessionTyped'
<1>0. SessionTyped
  BY DEF ConsoleTyped
<1>1. CASE UNCHANGED session
  BY <1>0, <1>1 DEF SessionTyped
<1>2. CASE Login \/ Logout
  BY <1>0, <1>2, Zenon DEF Login, Logout, SessionTyped
<1>3. ASSUME NEW r \in reqs, AnswerVerify(r) PROVE SessionTyped'
  BY <1>0, <1>3 DEF AnswerVerify, SessionTyped
<1>4. ASSUME NEW r \in reqs, AnswerDenied(r) PROVE SessionTyped'
  BY <1>4 DEF AnswerDenied, SessionTyped
<1> QED BY <1>1, <1>2, <1>3, <1>4, SessionMoves

\* The server's results grow, and an intervention is decided or asked for again.
LEMMA BackMoves ==
  ASSUME ConsoleTyped, [ConsoleNext]_consoleVars
  PROVE  BackTyped' /\ back'.results >= back.results
<1>0. BackTyped
  BY DEF ConsoleTyped
<1>a. CASE back' = back
  BY <1>0, <1>a DEF BackTyped
<1>1. CASE UserActs
  <2>1. back' = back
    BY <1>1, Zenon DEF UserActs, Login, Logout, SetFilter, HandleTableChange, RowAction, OpenTask, Refresh,
      LoadResults, OpenConfirm, ConfirmOk, CancelConfirm, ChangeTask, HandleExport, HandleRuleChange,
      PickVersion, SwitchMode, Submit, rest
  <2> QED BY <1>a, <2>1
<1>2. ASSUME NEW r \in reqs, Answer(r) \/ Fail(r) \/ AnswerUnseen(r) \/ AnswerVerify(r) \/ AnswerDenied(r)
      PROVE  back' = back
  BY <1>2 DEF Answer, Fail, AnswerUnseen, AnswerVerify, AnswerDenied
<1>3. ASSUME NEW r \in reqs, Serve(r) PROVE back' = back \/ back' = [back EXCEPT !.human = 0]
  BY <1>3 DEF Serve
<1>4. CASE back' = [back EXCEPT !.human = 0]
  BY <1>0, <1>4 DEF BackTyped
<1>5. CASE Debounce
  BY <1>5, <1>a DEF Debounce, rest
<1>6. CASE RevokeKey \/ Worker
  <2>1. \/ \E keys : back' = [back EXCEPT !.keys = keys]
        \/ back' = [back EXCEPT !.results = back.results + 1]
        \/ back' = [back EXCEPT !.human = 2, !.next = 3]
    BY <1>6 DEF RevokeKey, Worker
  <2>2. back.results \in Nat /\ back.human \in 0..2 /\ DOMAIN back = {"keys", "results", "human", "next"}
    BY <1>0 DEF BackTyped
  <2>3. ASSUME NEW keys, back' = [back EXCEPT !.keys = keys] PROVE BackTyped' /\ back'.results >= back.results
    BY <2>2, <2>3 DEF BackTyped
  <2>4. CASE back' = [back EXCEPT !.results = back.results + 1]
    BY <2>2, <2>4 DEF BackTyped
  <2>5. CASE back' = [back EXCEPT !.human = 2, !.next = 3]
    BY <2>2, <2>5 DEF BackTyped
  <2> QED BY <2>1, <2>3, <2>4, <2>5
<1> QED BY <1>a, <1>1, <1>2, <1>3, <1>4, <1>5, <1>6 DEF ConsoleNext, Landing, consoleVars

\* The types of the console are inductive.
LEMMA ConsoleKeepsTypes ==
  ASSUME ConsoleTyped, [ConsoleNext]_consoleVars
  PROVE  ConsoleTyped'
<1>1. view \in {"checking", "login", goal} /\ goal \in ConsolePages
  BY DEF ConsoleTyped
<1>2. goal' \in ConsolePages /\ view' \in {"checking", "login", goal'}
  BY <1>1, GoalStays
<1> QED BY <1>2, TableKeepsType, DetailKeepsType, FormKeepsType, SessionKeepsType, BackMoves, ReqsKeepType
        DEF ConsoleTyped

-----------------------------------------------------------------------------
(* The session.                                                             *)

OneVerify == \A r, s \in reqs : r.kind = "verify" /\ s.kind = "verify" => r = s

\* Only a login asks for a key to be verified.
LEMMA VerifyStays ==
  ASSUME ConsoleTyped, [ConsoleNext]_consoleVars, ~Login
  PROVE  /\ \A s \in reqs' : s.kind = "verify" => \E r \in reqs : r.kind = "verify" /\ r.query = s.query
         /\ OneVerify => OneVerify'
<1>1. CASE Logout
  <2>1. reqs' = {[r EXCEPT !.kind = "gone", !.query = <<>>] : r \in reqs}
    BY <1>1, Zenon DEF Logout
  <2>2. ASSUME NEW r \in reqs PROVE [r EXCEPT !.kind = "gone", !.query = <<>>].kind = "gone"
    BY DEF ConsoleTyped, ReqTyped
  <2>3. \A s \in reqs' : s.kind # "verify"
    BY <2>1, <2>2, Zenon
  <2> QED BY <2>3 DEF OneVerify
<1>2. CASE reqs' \subseteq reqs
  BY <1>2 DEF OneVerify
<1>3. ASSUME NEW gone, NEW kind, NEW q, Ask(gone, kind, q), kind # "verify"
      PROVE  /\ \A s \in reqs' : s.kind = "verify" => s \in reqs
             /\ OneVerify => OneVerify'
  <2>1. reqs' = (reqs \ gone) \cup {Request(kind, q)} /\ Request(kind, q).kind = kind
    BY <1>3, RequestFields DEF Ask
  <2>2. \A s \in reqs' : s.kind = "verify" => s \in reqs
    BY <2>1, <1>3
  <2> QED BY <2>2 DEF OneVerify
<1>4. ASSUME NEW r \in reqs, Serve(r) \/ Fail(r)
      PROVE  /\ \A s \in reqs' : s.kind = "verify" => \E t \in reqs : t.kind = "verify" /\ t.query = s.query
             /\ OneVerify => OneVerify'
  <2>0. ReqTyped(r) /\ BackTyped
    BY DEF ConsoleTyped
  <2>1. PICK s : Goes(r, s) /\ reqs' = (reqs \ {r}) \cup {s}
    BY <1>4, <2>0, ServeMoves
  <2>2. s.kind = r.kind /\ s.query = r.query
    BY <2>1 DEF Goes
  <2> QED BY <2>1, <2>2 DEF OneVerify
<1> QED BY <1>1, <1>2, <1>3, <1>4, ReqsMove

\* A session that is in has its key, unless the UI was opened at the login page:
\* of the stored key's check and a login only one is under way.
LEMMA SessionStays ==
  ASSUME ConsoleTyped, SessionSound, [ConsoleNext]_consoleVars
  PROVE  SessionSound'
<1>0. goal' = goal /\ SessionTyped /\ goal \in Pages /\ view \in {"checking", "login", goal}
  BY GoalStays, ConsoleAssumption DEF ConsoleTyped, Pages
<1>1. CASE UNCHANGED <<session, view>> /\ ~Login
  <2>1. ASSUME session.at # "login", NEW s \in reqs', s.kind = "verify"
        PROVE  view = (IF s.query = "login" THEN "login" ELSE "checking") /\ session.key # None
    <3>1. PICK r \in reqs : r.kind = "verify" /\ r.query = s.query
      BY <1>1, <2>1, VerifyStays
    <3> QED BY <2>1, <3>1 DEF SessionSound
  <2>2. session.at # "login" => OneVerify'
    BY <1>1, VerifyStays DEF SessionSound, OneVerify
  <2> QED BY <1>0, <1>1, <2>1, <2>2 DEF SessionSound, OneVerify
<1>2. CASE Login
  <2> DEFINE s == [Request("verify", "login") EXCEPT !.key = "new"]
  <2>1. /\ reqs' = reqs \cup {s} /\ view = "login" /\ view' = view /\ goal = "dashboard"
        /\ session' = [session EXCEPT !.key = "new"]
        /\ \A r \in reqs : ~(r.kind = "verify" /\ r.query = "login")
    BY <1>2 DEF Login, Acts
  <2>2. s.kind = "verify" /\ s.query = "login"
    BY DEF Request
  <2>3. session'.key = "new" /\ session'.at = session.at /\ session'.in = session.in
    BY <1>0, <2>1 DEF SessionTyped
  <2>4. session.at # "login" => \A r \in reqs : r.kind # "verify"
    BY <2>1 DEF SessionSound
  <2> HIDE DEF s
  <2> QED BY <1>0, <2>1, <2>2, <2>3, <2>4 DEF SessionSound, None
<1>3. CASE Logout
  <2>1. /\ reqs' = {[r EXCEPT !.kind = "gone", !.query = <<>>] : r \in reqs}
        /\ view' = "login" /\ session' = [session EXCEPT !.key = None, !.in = FALSE]
    BY <1>3, Zenon DEF Logout
  <2>2. ASSUME NEW r \in reqs PROVE [r EXCEPT !.kind = "gone", !.query = <<>>].kind = "gone"
    BY DEF ConsoleTyped, ReqTyped
  <2>3. \A s \in reqs' : s.kind # "verify"
    BY <2>1, <2>2, Zenon
  <2>4. session'.in = FALSE
    BY <1>0, <2>1, Zenon DEF SessionTyped
  <2> QED BY <2>1, <2>3, <2>4, Zenon DEF SessionSound
<1>4. ASSUME NEW r \in reqs, r.kind = "verify", AnswerVerify(r), ~Login PROVE SessionSound'
  <2>0. goal = "dashboard"
    BY <1>4 DEF ConsoleTyped, ReqTyped, Fits
  <2>1. CASE r.stage = "ok" /\ session.at # "login"
    <3>1. session' = [session EXCEPT !.in = TRUE]
      BY <1>4, <2>1 DEF AnswerVerify
    <3>2. session'.in = TRUE /\ session'.at = session.at /\ session'.key = session.key
      BY <1>0, <3>1 DEF SessionTyped
    <3>3. session.key # None /\ (r.query = "login" \/ view = "checking")
      BY <1>4, <2>1 DEF SessionSound
    <3>4. Mount({r})
      BY <1>4, <2>1, <3>3 DEF AnswerVerify
    <3>5. view' = goal /\ Ask({r}, FirstQuery[1], FirstQuery[2]) /\ FirstQuery[1] = "list"
      BY <2>0, <3>4 DEF Mount, IsForm, IsTable, FirstQuery
    <3>6. reqs' = (reqs \ {r}) \cup {Request("list", FirstQuery[2])} /\ Request("list", FirstQuery[2]).kind = "list"
      BY <3>5, RequestFields DEF Ask
    <3>7. \A s \in reqs : s.kind = "verify" => s = r
      BY <1>4, <2>1 DEF SessionSound
    <3>8. \A s \in reqs' : s.kind # "verify"
      BY <3>6, <3>7
    <3> QED BY <1>0, <2>0, <3>2, <3>3, <3>5, <3>8 DEF SessionSound
  <2>2. CASE r.stage # "ok" /\ session.at # "login"
    <3>1. /\ session' = [session EXCEPT !.key = None, !.in = (@ /\ r.query = "login")]
          /\ view' = "login" /\ reqs' = reqs \ {r}
      BY <1>4, <2>2 DEF AnswerVerify, AskNothing
    <3>2. view # goal
      BY <1>4, <2>0, <2>2 DEF SessionSound
    <3>3. session.in = FALSE
      BY <1>0, <2>2, <3>2 DEF SessionSound, SessionTyped
    <3>4. session'.in = FALSE /\ session'.at = session.at
      BY <1>0, <3>1, <3>3 DEF SessionTyped
    <3>5. \A s \in reqs' : s.kind # "verify"
      BY <1>4, <2>2, <3>1 DEF SessionSound
    <3> QED BY <3>1, <3>4, <3>5 DEF SessionSound
  <2>3. CASE session.at = "login"
    <3>1. session'.at = "login"
      BY <1>0, <1>4, <2>3 DEF AnswerVerify, SessionTyped
    <3>2. view' = "checking" => view = "checking"
      BY <1>4, <2>0 DEF AnswerVerify, Mount
    <3> QED BY <1>0, <3>1, <3>2 DEF SessionSound
  <2> QED BY <2>1, <2>2, <2>3
<1>5. ASSUME NEW r \in reqs, AnswerDenied(r) PROVE SessionSound'
  BY <1>5 DEF AnswerDenied, SessionSound
<1> QED BY <1>1, <1>2, <1>3, <1>4, <1>5, SessionMoves

-----------------------------------------------------------------------------
(* Decisions.                                                               *)

\* Only the dialogue's own intervention is sent, and the server leaves a request as it is.
LEMMA ActStays ==
  ASSUME ConsoleTyped, ActSound, [ConsoleNext]_consoleVars
  PROVE  ActSound'
<1>0. goal' = goal /\ \A r \in reqs : ReqTyped(r)
  BY GoalStays DEF ConsoleTyped
<1> SUFFICES ASSUME goal = "detail"
             PROVE  \A s \in reqs' : s.kind = "act" => s.query[2] = s.query[3]
  BY <1>0 DEF ActSound
<1>1. \A r \in reqs : r.kind = "act" => r.query[2] = r.query[3]
  BY DEF ActSound
<1>a. ASSUME NEW gone, NEW kind, NEW q, Ask(gone, kind, q), kind = "act" => q[2] = q[3]
      PROVE  \A s \in reqs' : s.kind = "act" => s.query[2] = s.query[3]
  <2>1. /\ reqs' = (reqs \ gone) \cup {Request(kind, q)}
        /\ Request(kind, q).kind = kind /\ Request(kind, q).query = q
    BY <1>a, RequestFields DEF Ask
  <2> QED BY <1>1, <1>a, <2>1
<1>2. CASE reqs' \subseteq reqs
  BY <1>1, <1>2
<1>3. ASSUME NEW r \in reqs, Serve(r) \/ Fail(r)
      PROVE  \A s \in reqs' : s.kind = "act" => s.query[2] = s.query[3]
  <2>0. ReqTyped(r) /\ BackTyped
    BY DEF ConsoleTyped
  <2>1. PICK s : Goes(r, s) /\ reqs' = (reqs \ {r}) \cup {s}
    BY <1>3, <2>0, ServeMoves
  <2> QED BY <1>1, <2>1 DEF Goes
<1>4. ~HasFilter /\ ~HasRowActions /\ ~IsTable /\ ~Guarded /\ ~IsForm
  BY DEF HasFilter, HasRowActions, IsTable, Guarded, IsForm
<1>5. CASE UserActs \/ Debounce
  <2>1. CASE OpenTask \/ Refresh \/ LoadResults \/ HandleExport
    BY <1>a, <2>1 DEF OpenTask, Refresh, LoadResults, HandleExport
  <2>2. CASE ConfirmOk
    <3>1. Ask({}, "act", <<detail.task, detail.confirm, detail.confirm>>)
      BY <2>2 DEF ConfirmOk
    <3> QED BY <1>a, <3>1
  <2>3. CASE ChangeTask
    <3>1. Ask({}, "act", <<detail.task, 0, 0>>)
      BY <2>3 DEF ChangeTask
    <3> QED BY <1>a, <3>1
  <2>4. CASE OpenConfirm \/ CancelConfirm \/ PickVersion \/ SwitchMode
    BY <1>2, <2>4 DEF OpenConfirm, CancelConfirm, PickVersion, SwitchMode
  <2>5. CASE Login
    BY <2>5 DEF Login
  <2>6. CASE Logout
    <3>1. reqs' = {[r EXCEPT !.kind = "gone", !.query = <<>>] : r \in reqs}
      BY <2>6, Zenon DEF Logout
    <3>2. ASSUME NEW r \in reqs PROVE [r EXCEPT !.kind = "gone", !.query = <<>>].kind = "gone"
      BY DEF ConsoleTyped, ReqTyped
    <3> QED BY <3>1, <3>2, Zenon
  <2> QED BY <1>4, <1>5, <2>1, <2>2, <2>3, <2>4, <2>5, <2>6, Zenon
          DEF UserActs, SetFilter, HandleTableChange, RowAction, HandleRuleChange, Submit, Debounce
<1>6. ASSUME NEW r \in reqs, Answer(r)
      PROVE  \A s \in reqs' : s.kind = "act" => s.query[2] = s.query[3]
  <2>1. ReqTyped(r)
    BY <1>0
  <2>2. CASE AnswerTaskAction(r)
    BY <1>2, <1>a, <2>2 DEF AnswerTaskAction, AskNothing
  <2>3. CASE AnswerExport(r)
    <3>1. (\E offset : Ask({r}, "export", <<offset, 0>>)) \/ AskNothing({r})
      BY <2>3 DEF AnswerExport
    <3> QED BY <1>2, <1>a, <3>1 DEF AskNothing
  <2>4. CASE AnswerList(r) \/ AnswerDetail(r) \/ AnswerResults(r) \/ AnswerVersions(r) \/ AnswerSubmit(r)
    BY <1>2, <2>4 DEF AnswerList, AnswerDetail, AnswerResults, AnswerVersions, AnswerSubmit, AskNothing
  <2> QED BY <1>4, <1>6, <2>1, <2>2, <2>3, <2>4, AnswerByKind
<1>7. ASSUME NEW r \in reqs, r.kind = "verify" PROVE FALSE
  BY <1>0, <1>7 DEF ReqTyped, Fits
<1>8. ASSUME NEW r \in reqs, AnswerDenied(r) \/ AnswerUnseen(r)
      PROVE  \A s \in reqs' : s.kind = "act" => s.query[2] = s.query[3]
  BY <1>2, <1>8 DEF AnswerDenied, AnswerUnseen, AskNothing
<1>9. CASE RevokeKey \/ Worker \/ UNCHANGED consoleVars
  BY <1>2, <1>9 DEF RevokeKey, Worker, consoleVars
<1> QED BY <1>3, <1>5, <1>6, <1>7, <1>8, <1>9 DEF ConsoleNext, Landing

\* A decision is taken by the server, on what was asked.
LEMMA DecidedStays ==
  ASSUME ConsoleTyped, ActSound, DecidedAsSeen, [ConsoleNext]_consoleVars
  PROVE  DecidedAsSeen'
<1>1. CASE decided' = decided
  BY <1>1 DEF DecidedAsSeen
<1>2. CASE UserActs
  <2>1. decided' = decided
    BY <1>2, Zenon DEF UserActs, Login, Logout, SetFilter, HandleTableChange, RowAction, OpenTask, Refresh,
      LoadResults, OpenConfirm, ConfirmOk, CancelConfirm, ChangeTask, HandleExport, HandleRuleChange,
      PickVersion, SwitchMode, Submit, rest, ghosts
  <2> QED BY <1>1, <2>1
<1>3. ASSUME NEW r \in reqs, Answer(r) \/ Fail(r) \/ AnswerUnseen(r) \/ AnswerVerify(r) \/ AnswerDenied(r)
      PROVE  decided' = decided
  BY <1>3 DEF Answer, Fail, AnswerUnseen, AnswerVerify, AnswerDenied, ghosts
<1>4. ASSUME NEW r \in reqs, Serve(r) PROVE DecidedAsSeen'
  <2>1. \/ decided' = decided
        \/ /\ decided' = decided \cup {<<r.query[3], r.query[2]>>}
           /\ r.kind = "act" /\ ~IsTable
    BY <1>4 DEF Serve
  <2>2. r.kind = "act" /\ ~IsTable => r.query[2] = r.query[3]
    BY DEF ConsoleTyped, ReqTyped, Fits, HasRowActions, IsTable, ActSound
  <2>3. \A a : <<a, a>>[1] = <<a, a>>[2]
    OBVIOUS
  <2> QED BY <1>1, <2>1, <2>2, <2>3 DEF DecidedAsSeen
<1>5. CASE Debounce \/ RevokeKey \/ Worker
  BY <1>1, <1>5 DEF Debounce, RevokeKey, Worker, rest, ghosts
<1> QED BY <1>1, <1>2, <1>3, <1>4, <1>5 DEF ConsoleNext, Landing, consoleVars, ghosts

-----------------------------------------------------------------------------
(* The lists.                                                               *)

\* What happens on the page of a list with a filter.
LEMMA ListSteps ==
  ASSUME ConsoleTyped, [ConsoleNext]_consoleVars, view' = goal, HasFilter
  PROVE  /\ view = goal /\ goal' = goal
         /\ \/ SetFilter \/ Debounce \/ HandleTableChange \/ RowAction
            \/ \E r \in reqs : \/ r.kind = "act" /\ AnswerRowAction(r)
                               \/ r.kind = "list" /\ AnswerList(r)
                               \/ Serve(r) \/ Fail(r)
                               \/ r.kind = "gone" /\ AnswerUnseen(r)
            \/ UNCHANGED <<table, reqs, crossed>>
<1>0. goal' = goal /\ view \in {"checking", "login", goal} /\ goal \in Pages /\ \A r \in reqs : ReqTyped(r)
  BY GoalStays, ConsoleAssumption DEF ConsoleTyped, Pages
<1>1. /\ IsTable /\ ~IsDetail /\ ~IsForm /\ goal \notin {"dashboard", "detail", "results", "create", "modal"}
      /\ goal # "login"
  BY DEF HasFilter, IsTable, IsDetail, IsForm
<1>2. \A r \in reqs : r.kind \in {"list", "act", "gone"}
  BY <1>0, <1>1 DEF ReqTyped, Fits, Kinds
<1>3. CASE UserActs
  <2>1. ~Login /\ ~Logout
    BY <1>1, Zenon DEF Login, Logout
  <2>2. /\ ~OpenTask /\ ~LoadResults /\ ~Refresh /\ ~OpenConfirm /\ ~ConfirmOk /\ ~CancelConfirm /\ ~ChangeTask
        /\ ~HandleExport /\ ~SwitchMode /\ ~HandleRuleChange /\ ~PickVersion /\ ~Submit
    BY <1>0, <1>1, Zenon DEF OpenTask, LoadResults, Refresh, OpenConfirm, ConfirmOk, CancelConfirm, ChangeTask, HandleExport,
       SwitchMode, HandleRuleChange, PickVersion, Submit, Acts
  <2> QED BY <1>0, <1>3, <2>1, <2>2, Zenon DEF UserActs, SetFilter, HandleTableChange, RowAction, Acts
<1>4. ASSUME NEW r \in reqs, Answer(r)
      PROVE  view = goal /\ ((r.kind = "act" /\ AnswerRowAction(r)) \/ (r.kind = "list" /\ AnswerList(r)))
  <2>1. ReqTyped(r) /\ r.kind \in {"list", "act", "gone"}
    BY <1>0, <1>2
  <2> QED BY <1>1, <1>4, <2>1, AnswerByKind
<1>5. ASSUME NEW r \in reqs, Serve(r) \/ Fail(r) \/ AnswerUnseen(r)
      PROVE  view = goal /\ (AnswerUnseen(r) => r.kind = "gone")
  BY <1>5 DEF Serve, Fail, AnswerUnseen
<1>6. ASSUME NEW r \in reqs, AnswerDenied(r) PROVE FALSE
  BY <1>1, <1>6 DEF AnswerDenied
<1>7. CASE Debounce
  BY <1>0, <1>7 DEF Debounce
<1>8. CASE RevokeKey \/ Worker \/ UNCHANGED consoleVars
  BY <1>0, <1>8 DEF RevokeKey, Worker, consoleVars, pageState, ghosts
<1> QED BY <1>0, <1>2, <1>3, <1>4, <1>5, <1>6, <1>7, <1>8 DEF ConsoleNext, Landing

\* What the table has to be when its page is looked at.
TableAgrees ==
  /\ ~Guarded => ~table.due /\ \A r, s \in reqs : r = s
  /\ \A r \in reqs :
       /\ r.kind = "act" => r.query[1] = table.filter
       /\ r.kind = "list" /\ Guarded => r.query[1] \in 0..table.seq
       /\ Awaited(r) /\ ~table.due => r.query[2] = table.filter
  /\ table.ok /\ ~table.due /\ (\A r \in reqs : ~Awaited(r)) => table.rows[1] = table.filter

\* What is left when a request was made and nothing was crossed.
LEMMA AskAlone ==
  ASSUME NEW gone, NEW kind, NEW q, Ask(gone, kind, q), kind # "verify", ~crossed', IsTable
  PROVE  /\ ~crossed
         /\ reqs' = (reqs \ gone) \cup {Request(kind, q)}
         /\ \A r \in reqs \ gone : r.kind # "act" /\ Guarded
BY DEF Ask, Crosses

\* Another fetch is the one that is awaited.
LEMMA FetchAgrees ==
  ASSUME NEW gone, NEW f, NEW page, NEW t, Fetch(gone, f, page, t), ~crossed', IsTable, goal' = goal,
         DOMAIN t = {"loading", "filter", "due", "page", "rows", "seq", "ok"},
         t.seq = table.seq, t.seq \in Nat, t.filter = f, ~Guarded => ~t.due,
         \A r \in reqs : r.kind = "list" /\ Guarded => r.query[1] \in 0..table.seq
  PROVE  TableAgrees'
<1> DEFINE q == <<t.seq + 1, f, page>>
<1>0. PICK new : new = Request("list", q)
  OBVIOUS
<1>1. /\ table' = [t EXCEPT !.loading = TRUE, !.seq = t.seq + 1]
      /\ Ask(gone, "list", q)
  BY DEF Fetch
<1>2. table'.filter = f /\ table'.due = t.due /\ table'.seq = t.seq + 1
  BY <1>1
<1>3. new.kind = "list" /\ new.query = q /\ q[1] = t.seq + 1 /\ q[2] = f
  BY <1>0, RequestFields
<1> HIDE DEF q
<1>4. reqs' = (reqs \ gone) \cup {new} /\ \A r \in reqs \ gone : r.kind # "act" /\ Guarded
  BY <1>0, <1>1, AskAlone
<1>5. Guarded' = Guarded
  BY DEF Guarded
<1>6. ~Guarded => reqs' = {new}
  BY <1>4
<1>7. \A r \in reqs' : r.kind = "act" => r.query[1] = table'.filter
  BY <1>3, <1>4
<1>8. \A r \in reqs' : r.kind = "list" /\ Guarded => r.query[1] \in 0..table'.seq
  BY <1>2, <1>3, <1>4
<1>9. \A r \in reqs \ gone : r.kind = "list" /\ Guarded => r.query[1] # table'.seq
  BY <1>2
<1>10. ASSUME NEW r \in reqs', Awaited(r)' PROVE r.query[2] = table'.filter
  <2>1. r = new
    BY <1>4, <1>5, <1>9, <1>10 DEF Awaited
  <2> QED BY <1>2, <1>3, <2>1
<1>11. new \in reqs' /\ Awaited(new)'
  BY <1>2, <1>3, <1>4 DEF Awaited
<1>12. ~Guarded' => ~table'.due /\ \A r, s \in reqs' : r = s
  BY <1>2, <1>5, <1>6
<1> QED BY <1>5, <1>7, <1>8, <1>10, <1>11, <1>12 DEF TableAgrees

\* A request that goes on, or goes away unawaited, leaves the table as it should be.
LEMMA GoesAgrees ==
  ASSUME TableAgrees, table' = table, goal' = goal, NEW r \in reqs, NEW s, Goes(r, s),
         reqs' = (reqs \ {r}) \cup {s}
  PROVE  TableAgrees'
<1>1. s.kind = r.kind /\ s.query = r.query /\ Guarded' = Guarded
  BY DEF Goes, Guarded
<1>2. \A t : Awaited(t)' = Awaited(t)
  BY <1>1 DEF Awaited
<1>3. Awaited(s) = Awaited(r)
  BY <1>1 DEF Awaited
<1>4. ~Guarded => \A t, u \in reqs' : t = u
  BY DEF TableAgrees
<1>5. \A t \in reqs' : \E u \in reqs : t.kind = u.kind /\ t.query = u.query /\ Awaited(t) = Awaited(u)
  BY <1>1, <1>3
<1>6. (\A t \in reqs' : ~Awaited(t)) => \A t \in reqs : ~Awaited(t)
  BY <1>3
<1> QED BY <1>1, <1>2, <1>4, <1>5, <1>6 DEF TableAgrees

\* So it is when one goes away that the table does not wait for.
LEMMA GoneAgrees ==
  ASSUME TableAgrees, table' = table, goal' = goal, NEW r \in reqs, ~Awaited(r), reqs' = reqs \ {r}
  PROVE  TableAgrees'
<1>1. Guarded' = Guarded /\ \A t : Awaited(t)' = Awaited(t)
  BY DEF Guarded, Awaited
<1> QED BY <1>1 DEF TableAgrees

\* Every step on the page of a list keeps it.
LEMMA TableStays ==
  ASSUME ConsoleTyped, TableSound, [ConsoleNext]_consoleVars
  PROVE  TableSound'
<1>0. goal' = goal /\ TableTyped /\ BackTyped /\ \A r \in reqs : ReqTyped(r)
  BY GoalStays DEF ConsoleTyped
<1>1. HasFilter' = HasFilter
  BY <1>0 DEF HasFilter
<1> SUFFICES ASSUME view' = goal, HasFilter, ~crossed'
             PROVE  TableAgrees'
  BY <1>0, <1>1 DEF TableSound, TableAgrees
<1>2. view = goal /\ IsTable
  BY ListSteps DEF HasFilter, IsTable
<1>3. ~crossed => TableAgrees
  BY <1>2 DEF TableSound, TableAgrees
<1>a. ASSUME NEW t, NEW gone, NEW page,
             DOMAIN t = {"loading", "filter", "due", "page", "rows", "seq", "ok"},
             t.seq = table.seq, ~Guarded => ~t.due, Fetch(gone, t.filter, page, t)
      PROVE  TableAgrees'
  <2>1. ~crossed
    BY <1>a DEF Fetch, Ask
  <2>2. t.seq \in Nat
    BY <1>0, <1>a DEF TableTyped
  <2>3. \A r \in reqs : r.kind = "list" /\ Guarded => r.query[1] \in 0..table.seq
    BY <1>3, <2>1 DEF TableAgrees
  <2>4. DEFINE f == t.filter
  <2>5. t.filter = f /\ Fetch(gone, f, page, t)
    BY <1>a
  <2> HIDE DEF f
  <2> QED BY <1>0, <1>2, <1>a, <2>2, <2>3, <2>5, FetchAgrees
<1>4. CASE SetFilter
  <2>1. PICK f : IF Guarded
                 THEN /\ table' = [table EXCEPT !.filter = f, !.due = TRUE]
                      /\ crossed' = (crossed \/ Crosses({})) /\ UNCHANGED <<reqs, asked>>
                 ELSE Fetch({}, f, 1, [table EXCEPT !.filter = f])
    BY <1>4, Zenon DEF SetFilter
  <2>2. CASE Guarded
    <3>1. table'.due = TRUE /\ table'.seq = table.seq /\ reqs' = reqs /\ ~crossed /\ Guarded'
      BY <1>0, <2>1, <2>2 DEF TableTyped, Guarded
    <3>2. \A r \in reqs : r.kind # "act"
      BY <2>1, <2>2 DEF Crosses
    <3> QED BY <1>3, <2>2, <3>1, <3>2 DEF TableAgrees
  <2>3. CASE ~Guarded
    <3> DEFINE t == [table EXCEPT !.filter = f]
    <3>1. t.filter = f /\ t.seq = table.seq /\ t.due = table.due
          /\ DOMAIN t = {"loading", "filter", "due", "page", "rows", "seq", "ok"}
      BY <1>0 DEF TableTyped
    <3>2. Fetch({}, f, 1, t)
      BY <2>1, <2>3
    <3>3. ~crossed
      BY <3>2 DEF Fetch, Ask
    <3>4. ~t.due
      BY <1>3, <2>3, <3>1, <3>3 DEF TableAgrees
    <3> HIDE DEF t
    <3> QED BY <1>a, <3>1, <3>2, <3>4
  <2> QED BY <2>2, <2>3
<1>5. CASE Debounce
  <2> DEFINE t == [table EXCEPT !.due = FALSE]
  <2>1. t.filter = table.filter /\ t.seq = table.seq /\ t.due = FALSE
        /\ DOMAIN t = {"loading", "filter", "due", "page", "rows", "seq", "ok"}
    BY <1>0 DEF TableTyped
  <2>2. Fetch({}, table.filter, 1, t)
    BY <1>5 DEF Debounce
  <2> HIDE DEF t
  <2> QED BY <1>a, <2>1, <2>2
<1>6. CASE HandleTableChange
  <2> DEFINE t == [table EXCEPT !.page = 3 - @]
             page == 3 - table.page
  <2>1. t.filter = table.filter /\ t.seq = table.seq /\ t.due = table.due
        /\ DOMAIN t = {"loading", "filter", "due", "page", "rows", "seq", "ok"}
    BY <1>0 DEF TableTyped
  <2>2. Fetch({}, table.filter, page, t)
    BY <1>6 DEF HandleTableChange
  <2>3. ~crossed
    BY <2>2 DEF Fetch, Ask
  <2>4. ~Guarded => ~t.due
    BY <1>3, <2>1, <2>3 DEF TableAgrees
  <2> HIDE DEF t, page
  <2> QED BY <1>a, <2>1, <2>2, <2>4
<1>7. CASE RowAction
  <2> DEFINE q == <<table.filter, table.page>>
  <2>0. PICK new : new = Request("act", q)
    OBVIOUS
  <2>1. Ask({}, "act", q) /\ table' = table
    BY <1>7 DEF RowAction, pageState
  <2>2. new.kind = "act" /\ new.query = q /\ q[1] = table.filter
    BY <2>0, RequestFields
  <2> HIDE DEF q
  <2>3. ~crossed /\ reqs' = reqs \cup {new} /\ \A r \in reqs : Guarded
    BY <1>2, <2>0, <2>1, AskAlone
  <2>4. Guarded' = Guarded /\ \A t : Awaited(t)' = Awaited(t)
    BY <1>0, <2>1 DEF Guarded, Awaited
  <2>5. ~Awaited(new)
    BY <2>2 DEF Awaited
  <2>6. ~Guarded => reqs' = {new}
    BY <2>3
  <2> QED BY <1>3, <2>1, <2>2, <2>3, <2>4, <2>5, <2>6 DEF TableAgrees
<1>8. ASSUME NEW r \in reqs, r.kind = "act", AnswerRowAction(r) PROVE TableAgrees'
  <2>1. CASE Fetch({r}, r.query[1], r.query[2], table)
    <3>1. ~crossed
      BY <2>1 DEF Fetch, Ask
    <3>2. r.query[1] = table.filter /\ (~Guarded => ~table.due)
      BY <1>3, <1>8, <3>1 DEF TableAgrees
    <3> QED BY <1>0, <1>a, <2>1, <3>2 DEF TableTyped
  <2>2. CASE AskNothing({r}) /\ table' = table
    <3>1. ~Awaited(r)
      BY <1>8 DEF Awaited
    <3> QED BY <1>0, <1>3, <2>2, <3>1, GoneAgrees DEF AskNothing
  <2> QED BY <1>8, <2>1, <2>2 DEF AnswerRowAction
<1>9. ASSUME NEW r \in reqs, r.kind = "list", AnswerList(r) PROVE TableAgrees'
  <2>0. ~crossed /\ reqs' = reqs \ {r}
    BY <1>9 DEF AnswerList, AskNothing
  <2>1. CASE ~Awaited(r)
    <3>1. table' = table
      BY <1>9, <2>1 DEF AnswerList, Awaited
    <3> QED BY <1>0, <1>3, <2>0, <2>1, <3>1, GoneAgrees
  <2>2. CASE Awaited(r)
    <3>1. table' = IF r.stage = "ok"
                THEN [table EXCEPT !.rows = <<r.query[2], r.query[3]>>, !.loading = FALSE, !.ok = TRUE]
                ELSE [table EXCEPT !.loading = FALSE, !.ok = FALSE]
      BY <1>9, <2>2 DEF AnswerList, Awaited
    <3>2. /\ table'.filter = table.filter /\ table'.due = table.due /\ table'.seq = table.seq
          /\ table'.ok => table'.rows[1] = r.query[2]
      BY <1>0, <3>1 DEF TableTyped
    <3>3. ~table.due => r.query[2] = table.filter
      BY <1>3, <2>0, <2>2 DEF TableAgrees
    <3>4. Guarded' = Guarded /\ \A t : Awaited(t)' = Awaited(t)
      BY <1>0, <3>2 DEF Guarded, Awaited
    <3> QED BY <1>3, <2>0, <3>2, <3>3, <3>4 DEF TableAgrees
  <2> QED BY <2>1, <2>2
<1>10. ASSUME NEW r \in reqs, Serve(r) \/ Fail(r) PROVE TableAgrees'
  <2>1. table' = table /\ ~crossed
    BY <1>10 DEF Serve, Fail, pageState, ghosts
  <2>2. PICK s : Goes(r, s) /\ reqs' = (reqs \ {r}) \cup {s}
    BY <1>0, <1>10, ServeMoves
  <2> QED BY <1>0, <1>3, <2>1, <2>2, GoesAgrees
<1>11. ASSUME NEW r \in reqs, r.kind = "gone", AnswerUnseen(r) PROVE TableAgrees'
  <2>1. table' = table /\ reqs' = reqs \ {r} /\ ~crossed /\ ~Awaited(r)
    BY <1>11 DEF AnswerUnseen, AskNothing, pageState, Awaited
  <2> QED BY <1>0, <1>3, <2>1, GoneAgrees
<1>12. CASE UNCHANGED <<table, reqs, crossed>>
  <2>1. Guarded' = Guarded /\ \A t : Awaited(t)' = Awaited(t)
    BY <1>0, <1>12 DEF Guarded, Awaited
  <2> QED BY <1>3, <1>12, <2>1 DEF TableAgrees
<1> QED BY <1>4, <1>5, <1>6, <1>7, <1>8, <1>9, <1>10, <1>11, <1>12, ListSteps

-----------------------------------------------------------------------------
(* The page of a task.                                                      *)

\* What happens on it.
LEMMA DetailSteps ==
  ASSUME ConsoleTyped, [ConsoleNext]_consoleVars, view' = goal, IsDetail
  PROVE  /\ view = goal /\ goal' = goal
         /\ \/ OpenTask \/ Refresh \/ LoadResults \/ OpenConfirm \/ ConfirmOk \/ CancelConfirm \/ ChangeTask
            \/ HandleExport
            \/ \E r \in reqs : \/ r.kind = "act" /\ AnswerTaskAction(r) /\ exports' = exports
                               \/ r.kind = "detail" /\ AnswerDetail(r) /\ exports' = exports
                               \/ r.kind = "results" /\ AnswerResults(r) /\ exports' = exports
                               \/ r.kind = "export" /\ Answer(r) /\ AnswerExport(r)
                               \/ Serve(r) \/ Fail(r)
                               \/ r.kind = "gone" /\ AnswerUnseen(r)
            \/ UNCHANGED <<detail, reqs, crossed, exports>>
<1>0. goal' = goal /\ view \in {"checking", "login", goal} /\ goal \in Pages /\ \A r \in reqs : ReqTyped(r)
  BY GoalStays, ConsoleAssumption DEF ConsoleTyped, Pages
<1>1. /\ ~IsTable /\ ~HasFilter /\ ~HasRowActions /\ ~Guarded /\ ~IsForm
      /\ goal \notin {"dashboard", "login", "create", "modal", "checking"}
  BY DEF IsDetail, HasFilter, IsTable, HasRowActions, Guarded, IsForm
<1>2. \A r \in reqs : r.kind \in {"act", "detail", "results", "export", "gone"}
  BY <1>0, <1>1 DEF ReqTyped, Fits, Kinds
<1>3. CASE UserActs
  <2>1. ~Login /\ ~Logout
    BY <1>1, Zenon DEF Login, Logout
  <2>2. /\ ~SetFilter /\ ~HandleTableChange /\ ~RowAction /\ ~SwitchMode /\ ~HandleRuleChange /\ ~PickVersion
        /\ ~Submit
    BY <1>0, <1>1, Zenon DEF SetFilter, HandleTableChange, RowAction, SwitchMode, HandleRuleChange, PickVersion, Submit, Acts
  <2>3. view' = view
    BY <1>3, <2>1, <2>2 DEF UserActs, OpenTask, LoadResults, Refresh, OpenConfirm, ConfirmOk, CancelConfirm, ChangeTask,
       HandleExport
  <2> QED BY <1>0, <1>3, <2>1, <2>2, <2>3 DEF UserActs
<1>4. ASSUME NEW r \in reqs, Answer(r)
      PROVE  /\ view = goal
             /\ \/ r.kind = "act" /\ AnswerTaskAction(r) /\ exports' = exports
                \/ r.kind = "detail" /\ AnswerDetail(r) /\ exports' = exports
                \/ r.kind = "results" /\ AnswerResults(r) /\ exports' = exports
                \/ r.kind = "export" /\ Answer(r) /\ AnswerExport(r)
  <2>1. ReqTyped(r) /\ r.kind \in {"act", "detail", "results", "export", "gone"}
    BY <1>0, <1>2
  <2> QED BY <1>1, <1>4, <2>1, AnswerByKind
<1>5. ASSUME NEW r \in reqs, Serve(r) \/ Fail(r) \/ AnswerUnseen(r)
      PROVE  view = goal /\ (AnswerUnseen(r) => r.kind = "gone")
  BY <1>5 DEF Serve, Fail, AnswerUnseen
<1>6. ASSUME NEW r \in reqs, AnswerDenied(r) PROVE FALSE
  BY <1>1, <1>6 DEF AnswerDenied
<1>7. ~Debounce
  BY <1>1 DEF Debounce
<1>8. CASE RevokeKey \/ Worker \/ UNCHANGED consoleVars
  BY <1>0, <1>8 DEF RevokeKey, Worker, consoleVars, pageState, ghosts
<1> QED BY <1>0, <1>2, <1>3, <1>4, <1>5, <1>6, <1>7, <1>8 DEF ConsoleNext, Landing

\* What the page has to be when it is looked at.
DetailAgrees ==
  /\ detail.gen > 0
  /\ \A r \in reqs : r.kind = "detail" => r.query[2] \in 0..detail.gen
  /\ ~crossed =>
       /\ \A r \in reqs : Pending(r) => r.query[1] = detail.id
       /\ detail.ok /\ (\A r \in reqs : ~Pending(r)) => detail.task = detail.id

SameTask == detail'.id = detail.id /\ detail'.gen = detail.gen /\ detail'.task = detail.task /\ detail'.ok = detail.ok

\* Nothing is said of requests for something else.
LEMMA DetailAgreesWith ==
  ASSUME DetailAgrees, SameTask, ~crossed' => ~crossed,
         \A s \in reqs' : s.kind = "detail" => \E r \in reqs : r.kind = "detail" /\ r.query = s.query,
         \A r \in reqs : r.kind = "detail" => \E s \in reqs' : s.kind = "detail" /\ s.query = r.query
  PROVE  DetailAgrees'
<1>1. \A s \in reqs' : Pending(s)' => \E r \in reqs : Pending(r) /\ r.query = s.query
  BY DEF Pending, SameTask
<1>2. \A r \in reqs : Pending(r) => \E s \in reqs' : Pending(s)'
  BY DEF Pending, SameTask
<1> QED BY <1>1, <1>2 DEF DetailAgrees, SameTask

\* One request for something else is asked or answered.
LEMMA OtherAgrees ==
  ASSUME DetailAgrees, SameTask, ~crossed' => ~crossed,
         NEW gone, gone = {} \/ \E r \in reqs : gone = {r} /\ r.kind # "detail",
         \/ reqs' = reqs \ gone
         \/ \E kind, q : kind # "detail" /\ reqs' = (reqs \ gone) \cup {Request(kind, q)}
  PROVE  DetailAgrees'
<1>1. \A s \in reqs' : s.kind = "detail" => s \in reqs
  BY RequestFields
<1>2. \A r \in reqs : r.kind = "detail" => r \in reqs'
  OBVIOUS
<1> QED BY <1>1, <1>2, DetailAgreesWith

\* A request for the task of the address, alone or after what was there.
LEMMA DetailAsked ==
  ASSUME DetailTyped, NEW gone, NEW id, NEW g, NEW last, Ask(gone, "detail", <<id, g, last>>),
         detail'.id = id, g \in {0, detail'.gen}, detail'.gen \in Nat, detail'.gen > 0,
         detail'.gen >= detail.gen, g = 0 => detail'.gen = detail.gen /\ detail'.id = detail.id,
         g # 0 => detail'.gen > detail.gen,
         DetailAgrees
  PROVE  DetailAgrees'
<1>1. PICK new : new = Request("detail", <<id, g, last>>)
  OBVIOUS
<1>2. new.kind = "detail" /\ new.query = <<id, g, last>> /\ new.query[1] = id /\ new.query[2] = g
  BY <1>1, RequestFields
<1>3. reqs' = (reqs \ gone) \cup {new} /\ crossed' = (crossed \/ Crosses(gone))
  BY <1>1 DEF Ask
<1>4. ~crossed' => ~crossed /\ \A r \in reqs \ gone : r.kind = "detail" => r.query[2] # 0
  BY <1>3 DEF Crosses
<1>5. \A r \in reqs' : r.kind = "detail" => r.query[2] \in 0..detail'.gen
  BY <1>2, <1>3 DEF DetailAgrees, DetailTyped
<1>6. Pending(new)'
  BY <1>2 DEF Pending
<1>7. ASSUME ~crossed', NEW r \in reqs \ gone, Pending(r)' PROVE r.query[1] = detail'.id
  <2>1. r.kind = "detail" /\ r.query[2] = detail'.gen /\ r.query[2] \in 0..detail.gen
    BY <1>4, <1>7 DEF Pending, DetailAgrees
  <2>2. detail'.gen = detail.gen /\ g = 0
    BY <2>1 DEF DetailTyped
  <2>3. Pending(r) /\ ~crossed
    BY <1>4, <1>7, <2>1, <2>2 DEF Pending
  <2> QED BY <2>2, <2>3 DEF DetailAgrees
<1> QED BY <1>2, <1>3, <1>5, <1>6, <1>7 DEF DetailAgrees

\* Every step on the page of a task keeps it.
LEMMA DetailStays ==
  ASSUME ConsoleTyped, DetailSound, [ConsoleNext]_consoleVars
  PROVE  DetailSound'
<1>0. goal' = goal /\ DetailTyped /\ BackTyped /\ \A r \in reqs : ReqTyped(r)
  BY GoalStays DEF ConsoleTyped
<1>1. IsDetail' = IsDetail
  BY <1>0 DEF IsDetail
<1> SUFFICES ASSUME view' = goal, IsDetail
             PROVE  DetailAgrees'
  BY <1>0, <1>1 DEF DetailSound, DetailAgrees
<1>2. DetailAgrees
  BY DetailSteps DEF DetailSound, DetailAgrees
<1>3. CASE OpenTask
  <2> DEFINE other == CHOOSE t \in TaskIds : t # detail.id
             g == detail.gen + 1
  <2>1. /\ detail' = [detail EXCEPT !.id = other, !.gen = g, !.loading = TRUE]
        /\ Ask({}, "detail", <<other, g, FALSE>>)
    BY <1>3 DEF OpenTask
  <2>2. detail'.id = other /\ detail'.gen = g /\ g \in Nat /\ g > 0 /\ g > detail.gen
    BY <1>0, <2>1 DEF DetailTyped
  <2> HIDE DEF other, g
  <2> QED BY <1>0, <1>2, <2>1, <2>2, DetailAsked DEF DetailTyped
<1>4. CASE Refresh
  <2>1. detail' = [detail EXCEPT !.loading = TRUE] /\ Ask({}, "detail", <<detail.id, 0, FALSE>>)
    BY <1>4 DEF Refresh
  <2>2. detail'.id = detail.id /\ detail'.gen = detail.gen
    BY <1>0, <2>1 DEF DetailTyped
  <2>3. PICK id : id = detail.id
    OBVIOUS
  <2>4. Ask({}, "detail", <<id, 0, FALSE>>)
    BY <2>1, <2>3
  <2>5. detail.gen \in Nat /\ detail.gen > 0
    BY <1>0, <1>2 DEF DetailTyped, DetailAgrees
  <2> QED BY <1>0, <1>2, <2>2, <2>3, <2>4, <2>5, DetailAsked
<1>5. ASSUME NEW r \in reqs, r.kind = "act", AnswerTaskAction(r) PROVE DetailAgrees'
  <2>1. CASE r.stage = "ok"
    <3>1. detail' = [detail EXCEPT !.loading = TRUE] /\ Ask({r}, "detail", <<detail.id, 0, TRUE>>)
      BY <1>5, <2>1 DEF AnswerTaskAction
    <3>2. detail'.id = detail.id /\ detail'.gen = detail.gen
      BY <1>0, <3>1 DEF DetailTyped
    <3>3. PICK id : id = detail.id
      OBVIOUS
    <3>4. Ask({r}, "detail", <<id, 0, TRUE>>)
      BY <3>1, <3>3
    <3>5. detail.gen \in Nat /\ detail.gen > 0
      BY <1>0, <1>2 DEF DetailTyped, DetailAgrees
    <3> QED BY <1>0, <1>2, <3>2, <3>3, <3>4, <3>5, DetailAsked
  <2>2. CASE r.stage # "ok"
    <3>1. detail' = [detail EXCEPT !.confirm = 0] /\ reqs' = reqs \ {r} /\ crossed' = crossed
      BY <1>5, <2>2 DEF AnswerTaskAction, AskNothing
    <3>2. SameTask
      BY <1>0, <3>1 DEF DetailTyped, SameTask
    <3> QED BY <1>2, <1>5, <3>1, <3>2, OtherAgrees
  <2> QED BY <2>1, <2>2
<1>6. CASE LoadResults \/ HandleExport
  <2>1. SameTask
    BY <1>0, <1>6 DEF LoadResults, HandleExport, DetailTyped, SameTask
  <2>2. \E kind, q : kind # "detail" /\ reqs' = (reqs \ {}) \cup {Request(kind, q)}
    BY <1>6 DEF LoadResults, HandleExport, Ask
  <2>3. ~crossed' => ~crossed
    BY <1>6 DEF LoadResults, HandleExport, Ask
  <2> QED BY <1>2, <2>1, <2>2, <2>3, OtherAgrees
<1>7. CASE ConfirmOk \/ ChangeTask
  <2>1. SameTask
    BY <1>7 DEF ConfirmOk, ChangeTask, pageState, SameTask
  <2>2. \E kind, q : kind # "detail" /\ reqs' = (reqs \ {}) \cup {Request(kind, q)}
    BY <1>7 DEF ConfirmOk, ChangeTask, Ask
  <2>3. ~crossed' => ~crossed
    BY <1>7 DEF ConfirmOk, ChangeTask, Ask
  <2> QED BY <1>2, <2>1, <2>2, <2>3, OtherAgrees
<1>8. CASE OpenConfirm \/ CancelConfirm
  <2>1. SameTask /\ reqs' = reqs \ {} /\ crossed' = crossed
    BY <1>0, <1>8 DEF OpenConfirm, CancelConfirm, DetailTyped, SameTask
  <2> QED BY <1>2, <2>1, OtherAgrees
<1>9. ASSUME NEW r \in reqs, r.kind = "detail", AnswerDetail(r) PROVE DetailAgrees'
  <2>0. reqs' = reqs \ {r} /\ crossed' = crossed
    BY <1>9 DEF AnswerDetail, AskNothing
  <2>1. CASE ~Pending(r)
    <3>1. detail' = detail
      BY <1>9, <2>1 DEF AnswerDetail, Pending
    <3>2. \A s : Pending(s)' = Pending(s)
      BY <3>1 DEF Pending
    <3> QED BY <1>2, <2>0, <2>1, <3>1, <3>2 DEF DetailAgrees
  <2>2. CASE Pending(r)
    <3>1. detail' = IF r.stage = "ok"
                 THEN Fetched(r, [detail EXCEPT !.task = r.query[1], !.human = r.ans, !.loading = FALSE,
                                                !.ok = TRUE])
                 ELSE Fetched(r, [detail EXCEPT !.loading = FALSE, !.ok = FALSE])
      BY <1>9, <2>2 DEF AnswerDetail, Pending
    <3>2. /\ detail'.id = detail.id /\ detail'.gen = detail.gen
          /\ detail'.ok => detail'.task = r.query[1]
      BY <1>0, <3>1 DEF DetailTyped, Fetched
    <3>3. ~crossed => r.query[1] = detail.id
      BY <1>2, <2>2 DEF DetailAgrees
    <3>4. \A s : Pending(s)' = Pending(s)
      BY <3>2 DEF Pending
    <3> QED BY <1>2, <2>0, <3>2, <3>3, <3>4 DEF DetailAgrees
  <2> QED BY <2>1, <2>2
<1>10. ASSUME NEW r \in reqs, r.kind = "results", AnswerResults(r) PROVE DetailAgrees'
  <2>1. SameTask
    BY <1>0, <1>10 DEF AnswerResults, DetailTyped, SameTask
  <2>2. reqs' = reqs \ {r} /\ crossed' = crossed
    BY <1>10 DEF AnswerResults, AskNothing
  <2> QED BY <1>2, <1>10, <2>1, <2>2, OtherAgrees
<1>11. ASSUME NEW r \in reqs, r.kind = "export", AnswerExport(r) PROVE DetailAgrees'
  <2>1. \/ \E got, tries : detail' = [detail EXCEPT !.got = got, !.tries = tries]
        \/ detail' = [detail EXCEPT !.exporting = FALSE, !.got = <<>>, !.tries = 0, !.start = 0]
    BY <1>11, Zenon DEF AnswerExport
  <2>2. SameTask
    BY <1>0, <2>1, Zenon DEF DetailTyped, SameTask
  <2>3. (\E offset : Ask({r}, "export", <<offset, 0>>)) \/ AskNothing({r})
    BY <1>11 DEF AnswerExport
  <2>4. (~crossed' => ~crossed) /\ \/ reqs' = reqs \ {r}
                                   \/ \E q : reqs' = (reqs \ {r}) \cup {Request("export", q)}
    <3>1. ASSUME NEW q, Ask({r}, "export", q)
          PROVE  (~crossed' => ~crossed) /\ reqs' = (reqs \ {r}) \cup {Request("export", q)}
      BY <3>1 DEF Ask
    <3>2. AskNothing({r}) => crossed' = crossed /\ reqs' = reqs \ {r}
      BY DEF AskNothing
    <3>3. CASE \E offset : Ask({r}, "export", <<offset, 0>>)
      <4>1. PICK offset : Ask({r}, "export", <<offset, 0>>)
        BY <3>3
      <4> QED BY <3>1, <4>1
    <3> QED BY <2>3, <3>2, <3>3
  <2> QED BY <1>2, <1>11, <2>2, <2>4, OtherAgrees
<1>12. ASSUME NEW r \in reqs, Serve(r) \/ Fail(r) PROVE DetailAgrees'
  <2>1. detail' = detail /\ crossed' = crossed
    BY <1>12 DEF Serve, Fail, pageState, ghosts
  <2>2. PICK s : Goes(r, s) /\ reqs' = (reqs \ {r}) \cup {s}
    BY <1>0, <1>12, ServeMoves
  <2> QED BY <1>2, <2>1, <2>2, DetailAgreesWith DEF SameTask, Goes
<1>13. ASSUME NEW r \in reqs, r.kind = "gone", AnswerUnseen(r) PROVE DetailAgrees'
  <2>1. SameTask /\ reqs' = reqs \ {r} /\ crossed' = crossed
    BY <1>13 DEF AnswerUnseen, AskNothing, pageState, SameTask
  <2> QED BY <1>2, <1>13, <2>1, OtherAgrees
<1>14. CASE UNCHANGED <<detail, reqs, crossed>>
  BY <1>2, <1>14, DetailAgreesWith DEF SameTask
<1> QED BY <1>3, <1>4, <1>5, <1>6, <1>7, <1>8, <1>9, <1>10, <1>11, <1>12, <1>13, <1>14, DetailSteps

-----------------------------------------------------------------------------
(* Exports.                                                                 *)

\* What an export has when its page is looked at.
ExportAgrees ==
  /\ detail.exporting <=> \E r \in reqs : r.kind = "export"
  /\ \A r, s \in reqs : r.kind = "export" /\ s.kind = "export" => r = s
  /\ \A r \in reqs : r.kind = "export" =>
       /\ detail.got \in Seq(Nat) /\ r.query[1] = Len(detail.got)
       /\ \A i \in 1..Len(detail.got) : detail.got[i] = i
       /\ detail.start \in Nat /\ detail.start <= back.results
       /\ r.stage = "ok" => r.ans \in Nat /\ detail.start <= r.ans

SameExport == detail'.exporting = detail.exporting /\ detail'.got = detail.got /\ detail'.start = detail.start

\* Requests for something else do not touch it.
LEMMA ExportAgreesWith ==
  ASSUME ExportAgrees, SameExport, BackTyped, BackTyped', back'.results >= back.results,
         \A s : s.kind = "export" => (s \in reqs' <=> s \in reqs)
  PROVE  ExportAgrees'
<1>1. \A a, b, c \in Nat : a <= b /\ c >= b => a <= c
  OBVIOUS
<1> QED BY <1>1 DEF ExportAgrees, SameExport, BackTyped

\* One request for something else is asked or answered.
LEMMA ExportAgreesAsked ==
  ASSUME ExportAgrees, SameExport, BackTyped, BackTyped', back'.results >= back.results,
         NEW gone, gone = {} \/ \E r \in reqs : gone = {r} /\ r.kind # "export",
         \/ reqs' = reqs \ gone
         \/ \E kind, q : kind # "export" /\ reqs' = (reqs \ gone) \cup {Request(kind, q)}
  PROVE  ExportAgrees'
<1>1. \A s : s.kind = "export" => (s \in reqs' <=> s \in reqs)
  BY RequestFields
<1> QED BY <1>1, ExportAgreesWith

\* The batches that are answered follow those an export has.
LEMMA ResultPageIs ==
  ASSUME NEW offset \in Nat, NEW total \in Nat
  PROVE  /\ ResultPage(offset, total) \in Seq(Nat)
         /\ Len(ResultPage(offset, total)) = (IF total < offset THEN 0
                 ELSE IF total - offset < PageLimit THEN total - offset ELSE PageLimit)
         /\ \A i \in 1..Len(ResultPage(offset, total)) : ResultPage(offset, total)[i] = offset + i
         /\ ResultPage(offset, total) = <<>> => total <= offset
<1> DEFINE n == IF total < offset THEN 0
                 ELSE IF total - offset < PageLimit THEN total - offset ELSE PageLimit
           s == [i \in 1..n |-> offset + i]
<1>1. n \in Nat /\ PageLimit \in Nat \ {0}
  BY ConsoleAssumption
<1>2. ResultPage(offset, total) = s
  BY DEF ResultPage
<1>3. n = 0 => total <= offset
  BY <1>1
<1> HIDE DEF n
<1>4. s \in Seq(Nat) /\ Len(s) = n
  BY <1>1
<1>5. s = <<>> => n = 0
  BY <1>4
<1>6. \A i \in 1..Len(s) : s[i] = offset + i
  BY <1>4
<1> QED BY <1>2, <1>3, <1>4, <1>5, <1>6 DEF n

\* What is got grows by them and still holds each batch once, in order.
LEMMA GotGrows ==
  ASSUME NEW got \in Seq(Nat), \A i \in 1..Len(got) : got[i] = i,
         NEW batches \in Seq(Nat), \A i \in 1..Len(batches) : batches[i] = Len(got) + i
  PROVE  /\ got \o batches \in Seq(Nat)
         /\ Len(got \o batches) = Len(got) + Len(batches)
         /\ \A i \in 1..Len(got \o batches) : (got \o batches)[i] = i
<1>1. got \o batches \in Seq(Nat) /\ Len(got \o batches) = Len(got) + Len(batches)
  OBVIOUS
<1>2. ASSUME NEW i \in 1..Len(got \o batches) PROVE (got \o batches)[i] = i
  <2>1. CASE i <= Len(got)
    BY <1>1, <2>1
  <2>2. CASE i > Len(got)
    <3>1. i - Len(got) \in 1..Len(batches) /\ (got \o batches)[i] = batches[i - Len(got)]
      BY <1>1, <2>2
    <3> QED BY <3>1
  <2> QED BY <2>1, <2>2
<1> QED BY <1>1, <1>2

\* An answer to an export goes on with it or ends it, with a whole file unless it was cut off.
LEMMA ExportAnswered ==
  ASSUME DetailTyped, BackTyped, back' = back, ExportAgrees, ExportIsWhole,
         NEW r \in reqs, r.kind = "export", r.stage \in {"ok", "failed"}, AnswerExport(r)
  PROVE  ExportAgrees' /\ ExportIsWhole'
<1> DEFINE batches == ResultPage(r.query[1], r.ans)
           offset == NextOffset(r.query[1], batches)
           got == detail.got \o batches
           tries == detail.tries + 1
           more == r.stage = "ok" /\ batches # <<>> /\ offset < r.ans
           file == [rows |-> got, start |-> detail.start, truncated |-> more]
<1>1. /\ detail.got \in Seq(Nat) /\ r.query[1] = Len(detail.got)
      /\ \A i \in 1..Len(detail.got) : detail.got[i] = i
      /\ detail.start \in Nat /\ detail.start <= back.results
      /\ r.stage = "ok" => r.ans \in Nat /\ detail.start <= r.ans
  BY DEF ExportAgrees
<1>2. Len(detail.got) \in Nat
  BY <1>1
<1>3. ASSUME r.stage = "ok"
      PROVE  /\ batches \in Seq(Nat) /\ got \in Seq(Nat)
             /\ Len(got) = offset /\ Len(got) = Len(detail.got) + Len(batches)
             /\ \A i \in 1..Len(got) : got[i] = i
             /\ batches = <<>> => r.ans <= Len(detail.got) /\ Len(batches) = 0
  <2>1. /\ batches \in Seq(Nat)
        /\ \A i \in 1..Len(batches) : batches[i] = Len(detail.got) + i
        /\ batches = <<>> => r.ans <= Len(detail.got)
    <3>1. r.query[1] \in Nat /\ r.ans \in Nat
      BY <1>1, <1>2, <1>3
    <3>2. /\ batches \in Seq(Nat)
          /\ \A i \in 1..Len(batches) : batches[i] = r.query[1] + i
          /\ batches = <<>> => r.ans <= r.query[1]
      BY <3>1, ResultPageIs
    <3> HIDE DEF batches
    <3> QED BY <1>1, <3>2
  <2>2. /\ got \in Seq(Nat) /\ Len(got) = Len(detail.got) + Len(batches)
        /\ \A i \in 1..Len(got) : got[i] = i
    BY <1>1, <2>1, GotGrows
  <2>3. Len(got) = offset
    BY <1>1, <2>2 DEF NextOffset
  <2> QED BY <2>1, <2>2, <2>3
<1>4. \/ /\ more /\ detail' = [detail EXCEPT !.got = got, !.tries = tries]
         /\ Ask({r}, "export", <<offset, 0>>) /\ exports' = exports
      \/ /\ detail' = [detail EXCEPT !.exporting = FALSE, !.got = <<>>, !.tries = 0, !.start = 0]
         /\ exports' = IF r.stage = "ok" THEN exports \cup {file} ELSE exports
         /\ AskNothing({r})
  BY DEF AnswerExport
<1> HIDE DEF batches, offset, got
<1>5. CASE more /\ detail' = [detail EXCEPT !.got = got, !.tries = tries]
           /\ Ask({r}, "export", <<offset, 0>>) /\ exports' = exports
  <2>1. PICK new : new = Request("export", <<offset, 0>>)
    OBVIOUS
  <2>2. new.kind = "export" /\ new.query[1] = offset /\ new.stage = "sent"
    BY <2>1, RequestFields
  <2>3. reqs' = (reqs \ {r}) \cup {new}
    BY <1>5, <2>1 DEF Ask
  <2>4. \A s \in reqs' : s.kind = "export" => s = new
    BY <2>3 DEF ExportAgrees
  <2>5. detail'.exporting = detail.exporting /\ detail'.got = got /\ detail'.start = detail.start
    BY <1>5 DEF DetailTyped
  <2>6. detail.exporting = TRUE
    BY DEF ExportAgrees, DetailTyped
  <2> QED BY <1>1, <1>3, <1>5, <2>2, <2>3, <2>4, <2>5, <2>6 DEF ExportAgrees, ExportIsWhole
<1>6. CASE /\ detail' = [detail EXCEPT !.exporting = FALSE, !.got = <<>>, !.tries = 0, !.start = 0]
           /\ exports' = IF r.stage = "ok" THEN exports \cup {file} ELSE exports
           /\ AskNothing({r})
  <2>1. detail'.exporting = FALSE
    BY <1>6 DEF DetailTyped
  <2>2. \A s \in reqs' : s.kind # "export"
    BY <1>6 DEF AskNothing, ExportAgrees
  <2>3. ExportAgrees'
    BY <2>1, <2>2 DEF ExportAgrees
  <2>4. ASSUME r.stage = "ok"
        PROVE  /\ \A i \in DOMAIN file.rows : file.rows[i] = i
               /\ ~file.truncated => Len(file.rows) >= file.start
    <3>1. file.rows = got /\ file.start = detail.start /\ file.truncated = more
      OBVIOUS
    <3>2. DOMAIN got = 1..Len(got)
      BY <1>3, <2>4
    <3>3. ~more => Len(got) >= detail.start
      BY <1>1, <1>2, <1>3, <2>4
    <3> QED BY <1>3, <2>4, <3>1, <3>2, <3>3
  <2> HIDE DEF file
  <2> QED BY <1>6, <2>3, <2>4 DEF ExportIsWhole
<1> QED BY <1>4, <1>5, <1>6

\* Only the answer to an export saves a file.
LEMMA ExportsMove ==
  ASSUME ConsoleTyped, [ConsoleNext]_consoleVars
  PROVE  \/ exports' = exports
         \/ \E r \in reqs : r.kind = "export" /\ Answer(r) /\ AnswerExport(r)
<1>1. CASE UserActs
  BY <1>1, Zenon DEF UserActs, Login, Logout, SetFilter, HandleTableChange, RowAction, OpenTask, Refresh,
      LoadResults, OpenConfirm, ConfirmOk, CancelConfirm, ChangeTask, HandleExport, HandleRuleChange,
      PickVersion, SwitchMode, Submit, rest, ghosts
<1>2. ASSUME NEW r \in reqs, Serve(r) \/ Fail(r) \/ AnswerUnseen(r) \/ AnswerVerify(r) \/ AnswerDenied(r)
      PROVE  exports' = exports
  BY <1>2 DEF Serve, Fail, AnswerUnseen, AnswerVerify, AnswerDenied, ghosts
<1>3. ASSUME NEW r \in reqs, Answer(r) PROVE exports' = exports \/ (r.kind = "export" /\ AnswerExport(r))
  <2>1. ReqTyped(r)
    BY DEF ConsoleTyped
  <2> QED BY <1>3, <2>1, AnswerByKind
<1>4. CASE Debounce \/ RevokeKey \/ Worker
  BY <1>4 DEF Debounce, RevokeKey, Worker, rest, ghosts
<1> QED BY <1>1, <1>2, <1>3, <1>4 DEF ConsoleNext, Landing, consoleVars, ghosts

\* Every step keeps the export and the files.
LEMMA ExportStays ==
  ASSUME ConsoleTyped, ExportSound, ExportIsWhole, [ConsoleNext]_consoleVars
  PROVE  ExportSound' /\ ExportIsWhole'
<1>0. goal' = goal /\ DetailTyped /\ BackTyped /\ BackTyped' /\ back'.results >= back.results
      /\ (\A r \in reqs : ReqTyped(r)) /\ view \in {"checking", "login", goal}
  BY GoalStays, BackMoves DEF ConsoleTyped
<1>1. ASSUME goal # "results" PROVE ~detail'.exporting /\ exports' = exports
  <2>1. ~detail.exporting
    BY <1>1 DEF ExportSound
  <2>2. \A r \in reqs : r.kind # "export" /\ r.kind # "results"
    BY <1>0, <1>1 DEF ReqTyped, Fits
  <2>3. ~LoadResults /\ ~HandleExport
    BY <1>0, <1>1 DEF LoadResults, HandleExport, Acts
  <2>4. ASSUME OpenTask \/ Refresh \/ OpenConfirm \/ CancelConfirm PROVE ~detail'.exporting
    <3>1. \/ \E id, gen : detail' = [detail EXCEPT !.id = id, !.gen = gen, !.loading = TRUE]
          \/ detail' = [detail EXCEPT !.loading = TRUE]
          \/ \E confirm : detail' = [detail EXCEPT !.confirm = confirm]
      BY <2>4, Zenon DEF OpenTask, Refresh, OpenConfirm, CancelConfirm
    <3> QED BY <1>0, <2>1, <3>1, Zenon DEF DetailTyped
  <2>5. ASSUME NEW r \in reqs, AnswerTaskAction(r) PROVE ~detail'.exporting
    BY <1>0, <2>1, <2>5 DEF AnswerTaskAction, DetailTyped
  <2>6. ASSUME NEW r \in reqs, AnswerDetail(r) PROVE ~detail'.exporting
    BY <1>0, <2>1, <2>6 DEF AnswerDetail, Fetched, DetailTyped
  <2>7. ASSUME NEW r \in reqs, AnswerVerify(r) PROVE ~detail'.exporting
    BY <2>1, <2>7 DEF AnswerVerify, Mount, NoDetail, pageState
  <2>8. ASSUME NEW r \in reqs, AnswerDenied(r) PROVE ~detail'.exporting
    BY <2>8 DEF AnswerDenied, NoDetail
  <2>9. ~detail'.exporting
    BY <2>1, <2>2, <2>3, <2>4, <2>5, <2>6, <2>7, <2>8, DetailMoves
  <2> QED BY <2>2, <2>9, ExportsMove
<1>2. CASE goal # "results"
  BY <1>0, <1>1, <1>2 DEF ExportSound, ExportIsWhole
<1>3. CASE goal = "results" /\ view' # goal
  <2>1. \A r \in reqs : Answer(r) => view' = goal
    BY <1>0, AnswerByKind
  <2> QED BY <1>0, <1>3, <2>1, ExportsMove DEF ExportSound, ExportIsWhole
<1>4. CASE goal = "results" /\ view' = goal
  <2>0. IsDetail /\ view = goal
    BY <1>4, DetailSteps DEF IsDetail
  <2>1. ExportAgrees
    BY <1>4, <2>0 DEF ExportSound, ExportAgrees
  <2> SUFFICES ExportAgrees' /\ ExportIsWhole'
    BY <1>0, <1>4 DEF ExportSound, ExportAgrees
  <2>a. ASSUME exports' = exports PROVE ExportIsWhole'
    BY <2>a DEF ExportIsWhole
  <2>2. CASE OpenTask \/ Refresh \/ LoadResults
    <3>1. SameExport
      BY <1>0, <2>2 DEF OpenTask, Refresh, LoadResults, DetailTyped, SameExport
    <3>2. \E kind, q : kind # "export" /\ reqs' = (reqs \ {}) \cup {Request(kind, q)}
      BY <2>2 DEF OpenTask, Refresh, LoadResults, Ask
    <3>3. exports' = exports
      BY <2>2 DEF OpenTask, Refresh, LoadResults, rest
    <3> QED BY <1>0, <2>1, <2>a, <3>1, <3>2, <3>3, ExportAgreesAsked
  <2>3. CASE OpenConfirm \/ CancelConfirm
    <3>1. SameExport /\ reqs' = reqs \ {} /\ exports' = exports
      BY <1>0, <2>3 DEF OpenConfirm, CancelConfirm, DetailTyped, SameExport, rest
    <3> QED BY <1>0, <2>1, <2>a, <3>1, ExportAgreesAsked
  <2>4. CASE ConfirmOk \/ ChangeTask
    <3>1. SameExport /\ exports' = exports
      BY <2>4 DEF ConfirmOk, ChangeTask, pageState, SameExport, rest
    <3>2. \E kind, q : kind # "export" /\ reqs' = (reqs \ {}) \cup {Request(kind, q)}
      BY <2>4 DEF ConfirmOk, ChangeTask, Ask
    <3> QED BY <1>0, <2>1, <2>a, <3>1, <3>2, ExportAgreesAsked
  <2>5. CASE HandleExport
    <3>1. PICK new : new = Request("export", <<0, 0>>)
      OBVIOUS
    <3>2. new.kind = "export" /\ new.query[1] = 0 /\ new.stage = "sent"
      BY <3>1, RequestFields
    <3>3. /\ reqs' = reqs \cup {new} /\ ~detail.exporting /\ exports' = exports /\ back' = back
          /\ detail' = [detail EXCEPT !.exporting = TRUE, !.got = <<>>, !.tries = 0, !.start = back.results]
      BY <2>5, <3>1 DEF HandleExport, Ask, rest
    <3>4. \A r \in reqs : r.kind # "export"
      BY <2>1, <3>3 DEF ExportAgrees
    <3>5. detail'.exporting = TRUE /\ detail'.got = <<>> /\ detail'.start = back.results
      BY <1>0, <3>3 DEF DetailTyped
    <3>6. <<>> \in Seq(Nat) /\ Len(<<>>) = 0 /\ back.results \in Nat /\ back.results <= back.results
      BY <1>0 DEF BackTyped
    <3>7. ExportAgrees'
      BY <3>2, <3>3, <3>4, <3>5, <3>6 DEF ExportAgrees
    <3> QED BY <2>a, <3>3, <3>7
  <2>6. ASSUME NEW r \in reqs, r.kind = "act", AnswerTaskAction(r), exports' = exports
        PROVE  ExportAgrees' /\ ExportIsWhole'
    <3>1. SameExport
      BY <1>0, <2>6 DEF AnswerTaskAction, DetailTyped, SameExport
    <3>2. reqs' = reqs \ {r} \/ \E q : reqs' = (reqs \ {r}) \cup {Request("detail", q)}
      BY <2>6 DEF AnswerTaskAction, Ask, AskNothing
    <3> QED BY <1>0, <2>1, <2>6, <2>a, <3>1, <3>2, ExportAgreesAsked
  <2>7. ASSUME NEW r \in reqs, r.kind = "detail", AnswerDetail(r), exports' = exports
        PROVE  ExportAgrees' /\ ExportIsWhole'
    <3>1. SameExport
      BY <1>0, <2>7 DEF AnswerDetail, Fetched, DetailTyped, SameExport
    <3>2. reqs' = reqs \ {r}
      BY <2>7 DEF AnswerDetail, AskNothing
    <3> QED BY <1>0, <2>1, <2>7, <2>a, <3>1, <3>2, ExportAgreesAsked
  <2>8. ASSUME NEW r \in reqs, r.kind = "results", AnswerResults(r), exports' = exports
        PROVE  ExportAgrees' /\ ExportIsWhole'
    <3>1. SameExport
      BY <1>0, <2>8 DEF AnswerResults, DetailTyped, SameExport
    <3>2. reqs' = reqs \ {r}
      BY <2>8 DEF AnswerResults, AskNothing
    <3> QED BY <1>0, <2>1, <2>8, <2>a, <3>1, <3>2, ExportAgreesAsked
  <2>9. ASSUME NEW r \in reqs, r.kind = "export", Answer(r), AnswerExport(r)
        PROVE  ExportAgrees' /\ ExportIsWhole'
    <3>1. back' = back /\ r.stage \in {"ok", "failed"}
      BY <2>9 DEF Answer
    <3> QED BY <1>0, <2>1, <2>9, <3>1, ExportAnswered
  <2>10. ASSUME NEW r \in reqs, Serve(r) \/ Fail(r) PROVE ExportAgrees' /\ ExportIsWhole'
    <3>1. detail' = detail /\ exports' = exports
      BY <2>10 DEF Serve, Fail, pageState, ghosts
    <3>2. PICK s : /\ Goes(r, s) /\ reqs' = (reqs \ {r}) \cup {s}
                   /\ r.kind = "export" /\ s.stage = "ok" => s.ans = back.results
      BY <1>0, <2>10, ServeMoves
    <3>3. s.kind = r.kind /\ s.query = r.query
      BY <3>2 DEF Goes
    <3>4. CASE r.kind # "export"
      <4>1. \A t : t.kind = "export" => (t \in reqs' <=> t \in reqs)
        BY <3>2, <3>3, <3>4
      <4> QED BY <1>0, <2>1, <2>a, <3>1, <4>1, ExportAgreesWith DEF SameExport
    <3>5. CASE r.kind = "export"
      <4>1. \A t \in reqs' : t.kind = "export" => t = s
        BY <2>1, <3>2, <3>5 DEF ExportAgrees
      <4>2. /\ detail.got \in Seq(Nat) /\ r.query[1] = Len(detail.got)
            /\ \A i \in 1..Len(detail.got) : detail.got[i] = i
            /\ detail.start \in Nat /\ detail.start <= back.results
            /\ detail.exporting = TRUE
        BY <1>0, <2>1, <3>5 DEF ExportAgrees, DetailTyped
      <4>3. back.results \in Nat /\ detail.start <= back'.results
        BY <1>0, <4>2 DEF BackTyped
      <4>4. ExportAgrees'
        BY <3>1, <3>2, <3>3, <3>5, <4>1, <4>2, <4>3 DEF ExportAgrees
      <4> QED BY <2>a, <3>1, <4>4
    <3> QED BY <3>4, <3>5
  <2>11. ASSUME NEW r \in reqs, r.kind = "gone", AnswerUnseen(r) PROVE ExportAgrees' /\ ExportIsWhole'
    <3>1. SameExport /\ reqs' = reqs \ {r} /\ exports' = exports
      BY <2>11 DEF AnswerUnseen, AskNothing, pageState, SameExport
    <3> QED BY <1>0, <2>1, <2>11, <2>a, <3>1, ExportAgreesAsked
  <2>12. CASE UNCHANGED <<detail, reqs, crossed, exports>>
    <3>1. SameExport /\ reqs' = reqs \ {}
      BY <2>12 DEF SameExport
    <3> QED BY <1>0, <2>1, <2>12, <2>a, <3>1, ExportAgreesAsked
  <2> QED BY <1>4, <2>0, <2>2, <2>3, <2>4, <2>5, <2>6, <2>7, <2>8, <2>9, <2>10, <2>11, <2>12, DetailSteps
<1> QED BY <1>2, <1>3, <1>4

-----------------------------------------------------------------------------
(* The form.                                                                *)

\* Only the choice of a rule asks for its versions.
LEMMA VersionsAsked ==
  ASSUME ConsoleTyped, [ConsoleNext]_consoleVars, ~HandleRuleChange
  PROVE  \A s \in reqs' : s.kind = "versions" => \E r \in reqs : r.kind = "versions" /\ r.query = s.query
<1>1. CASE Logout
  <2>1. reqs' = {[r EXCEPT !.kind = "gone", !.query = <<>>] : r \in reqs}
    BY <1>1, Zenon DEF Logout
  <2>2. ASSUME NEW r \in reqs PROVE [r EXCEPT !.kind = "gone", !.query = <<>>].kind = "gone"
    BY DEF ConsoleTyped, ReqTyped
  <2> QED BY <2>1, <2>2, Zenon
<1>2. CASE Login
  <2>1. reqs' = reqs \cup {[Request("verify", "login") EXCEPT !.key = "new"]}
    BY <1>2 DEF Login
  <2>2. [Request("verify", "login") EXCEPT !.key = "new"].kind = "verify"
    BY DEF Request
  <2> QED BY <2>1, <2>2
<1>3. ASSUME NEW gone, NEW kind, NEW q, Ask(gone, kind, q), kind # "versions"
      PROVE  \A s \in reqs' : s.kind = "versions" => s \in reqs
  BY <1>3, RequestFields DEF Ask
<1>4. ASSUME NEW r \in reqs, Serve(r) \/ Fail(r)
      PROVE  \A s \in reqs' : s.kind = "versions" => \E t \in reqs : t.kind = "versions" /\ t.query = s.query
  <2>0. ReqTyped(r) /\ BackTyped
    BY DEF ConsoleTyped
  <2>1. PICK s : Goes(r, s) /\ reqs' = (reqs \ {r}) \cup {s}
    BY <1>4, <2>0, ServeMoves
  <2> QED BY <2>1 DEF Goes
<1> QED BY <1>1, <1>2, <1>3, <1>4, ReqsMove

\* What the fields of a form have to be.
FormAgrees(mode, rule, versions, listed, fields) ==
  /\ rule # None => fields[mode].rule = rule
  /\ goal = "modal" => mode = "once" /\ fields["once"].rule = rule
  /\ rule # None /\ (goal = "create" \/ listed) => versions \subseteq Approved[rule]
  /\ rule # None /\ goal = "modal" /\ listed => fields["once"].version \in Approved[rule] \cup {0}
FieldsAgree == FormAgrees(Form.mode, Form.rule, Form.versions, Form.listed, Form.fields)

\* Every step keeps the fields the rule's.
LEMMA FieldsStay ==
  ASSUME ConsoleTyped, FormSound, [ConsoleNext]_consoleVars
  PROVE  FieldsAgree'
<1>0. FormTyped /\ goal' = goal /\ FieldsAgree /\ view \in {"checking", "login", goal}
  BY GoalStays DEF ConsoleTyped, FormSound, FieldsAgree, FormAgrees, Form
<1>1. /\ Form.mode \in Modes /\ Form.rule \in DOMAIN Approved \cup {None} /\ Form.versions \in SUBSET Nat
      /\ Form.gen \in Nat /\ Form.fields \in [Modes -> FieldType]
  BY <1>0 DEF FormTyped, Form
<1>2. ASSUME NEW mode, NEW rule, NEW versions, NEW gen, NEW submitting, NEW listed, NEW fields,
             FormBecomes(mode, rule, versions, gen, submitting, listed, fields),
             FormAgrees(mode, rule, versions, listed, fields)
      PROVE  FieldsAgree'
  BY <1>0, <1>2 DEF FormBecomes, FieldsAgree, FormAgrees, Form
<1>3. CASE consoleForm' = consoleForm
  BY <1>0, <1>3 DEF FieldsAgree, FormAgrees, Form
<1>4. ASSUME NEW rule, NEW version
      PROVE  LET fields == [Form.fields EXCEPT ![Form.mode] = [rule |-> rule, version |-> version]]
             IN  fields[Form.mode] = [rule |-> rule, version |-> version]
  BY <1>1
<1>5. CASE HandleRuleChange
  <2> DEFINE written(rule) ==
        [Form.fields EXCEPT ![Form.mode] =
                   [rule |-> rule, version |-> IF goal = "create" THEN 0 ELSE Form.fields[Form.mode].version]]
             offered == IF goal = "create" THEN {} ELSE Form.versions
  <2>1. PICK rule \in DOMAIN Approved :
          FormBecomes(Form.mode, rule, offered, Form.gen + 1, FALSE, FALSE, written(rule))
    BY <1>0, <1>5, RuleChangeWrites
  <2>2. written(rule)[Form.mode].rule = rule
    BY <1>1
  <2>3. goal = "modal" => Form.mode = "once"
    BY <1>0 DEF FieldsAgree, FormAgrees
  <2> HIDE DEF written
  <2>4. FormAgrees(Form.mode, rule, offered, FALSE, written(rule))
    BY <2>2, <2>3 DEF FormAgrees
  <2> HIDE DEF offered, Form
  <2> QED BY <1>2, <2>1, <2>4
<1>6. CASE PickVersion
  <2>1. PICK v \in Form.versions :
           FormBecomes(Form.mode, Form.rule, Form.versions, Form.gen, Form.submitting, Form.listed,
             [Form.fields EXCEPT ![Form.mode] = [rule |-> Form.fields[Form.mode].rule, version |-> v]])
    BY <1>0, <1>6, PickWrites
  <2> DEFINE fields == [Form.fields EXCEPT ![Form.mode] = [rule |-> Form.fields[Form.mode].rule, version |-> v]]
  <2>2. fields[Form.mode].rule = Form.fields[Form.mode].rule /\ fields[Form.mode].version = v
    BY <1>1
  <2>3. FormBecomes(Form.mode, Form.rule, Form.versions, Form.gen, Form.submitting, Form.listed, fields)
    BY <2>1
  <2> HIDE DEF fields, Form
  <2>4. FormAgrees(Form.mode, Form.rule, Form.versions, Form.listed, fields)
    BY <1>0, <2>2 DEF FieldsAgree, FormAgrees
  <2> QED BY <1>2, <2>3, <2>4
<1>7. CASE SwitchMode
  <2>1. goal = "create"
    BY <1>0, <1>7 DEF SwitchMode, Acts
  <2>2. consoleForm'.rule = None
    BY <1>0, <1>7 DEF SwitchMode, FormTyped
  <2> QED BY <1>0, <2>1, <2>2 DEF FieldsAgree, FormAgrees, Form
<1>8. ASSUME NEW submitting,
             FormBecomes(Form.mode, Form.rule, Form.versions, Form.gen, submitting, Form.listed, Form.fields)
      PROVE  FieldsAgree'
  BY <1>0, <1>2, <1>8 DEF FieldsAgree
<1>9. CASE FormBecomes(Form.mode, Form.rule, {}, Form.gen, Form.submitting, Form.listed, Form.fields)
  <2>1. FormAgrees(Form.mode, Form.rule, {}, Form.listed, Form.fields)
    BY <1>0 DEF FieldsAgree, FormAgrees
  <2> QED BY <1>2, <1>9, <2>1
<1>10. ASSUME NEW r \in reqs, r.kind = "versions", r.query[2] = Form.gen, Listed(r.query[1]) PROVE FieldsAgree'
  <2>1. PICK rule : rule = r.query[1]
    OBVIOUS
  <2>2. rule \in DOMAIN Approved /\ Form.rule \in {None, rule}
    BY <1>10, <2>1 DEF ConsoleTyped, ReqTyped, FormSound, Form
  <2>3. PICK first \in Approved[rule] \cup {0} :
           FormBecomes(Form.mode, Form.rule, Approved[rule], Form.gen, Form.submitting, TRUE,
             [Form.fields EXCEPT ![Form.mode] = [rule |-> Form.fields[Form.mode].rule, version |-> first]])
    BY <1>0, <1>10, <2>1, <2>2, ListedWrites
  <2> DEFINE versions == Approved[rule]
             fields == [Form.fields EXCEPT ![Form.mode] = [rule |-> Form.fields[Form.mode].rule, version |-> first]]
  <2>4. fields[Form.mode].rule = Form.fields[Form.mode].rule /\ fields[Form.mode].version = first
    BY <1>1
  <2>5. FormBecomes(Form.mode, Form.rule, versions, Form.gen, Form.submitting, TRUE, fields)
    BY <2>3
  <2> HIDE DEF fields, Form
  <2>6. FormAgrees(Form.mode, Form.rule, versions, TRUE, fields)
    BY <1>0, <2>2, <2>4 DEF FieldsAgree, FormAgrees
  <2> HIDE DEF versions
  <2> QED BY <1>2, <2>5, <2>6
<1>11. CASE consoleForm' = NoForm \/ consoleForm' = [NoForm EXCEPT !.gen = Form.gen]
  <2>1. consoleForm'.rule = None /\ consoleForm'.mode = "once" /\ consoleForm'.fields["once"].rule = None
    BY <1>11 DEF NoForm, Modes
  <2> QED BY <1>0, <2>1 DEF FieldsAgree, FormAgrees, Form
<1> HIDE DEF Form
<1> QED BY <1>3, <1>5, <1>6, <1>7, <1>8, <1>9, <1>10, <1>11, FormMoves

\* What is under way is for this rule, or for an earlier one.
VersionsAgree ==
  \A r \in reqs : r.kind = "versions" =>
    /\ r.query[2] <= consoleForm.gen
    /\ r.query[2] = consoleForm.gen => consoleForm.rule \in {None, r.query[1]}

\* Every step does: the generation tells the answers apart.
LEMMA VersionsStay ==
  ASSUME ConsoleTyped, FormSound, [ConsoleNext]_consoleVars
  PROVE  VersionsAgree'
<1>0. FormTyped /\ goal' = goal /\ VersionsAgree /\ view \in {"checking", "login", goal}
      /\ \A r \in reqs : ReqTyped(r)
  BY GoalStays DEF ConsoleTyped, FormSound, VersionsAgree
<1>1. consoleForm.gen \in Nat /\ Form.gen = consoleForm.gen /\ Form.rule = consoleForm.rule
  BY <1>0 DEF FormTyped, Form
<1>2. CASE HandleRuleChange
  <2>1. PICK rule \in DOMAIN Approved :
          /\ FormBecomes(Form.mode, rule, IF goal = "create" THEN {} ELSE Form.versions, Form.gen + 1, FALSE, FALSE,
                [Form.fields EXCEPT ![Form.mode] =
                   [rule |-> rule, version |-> IF goal = "create" THEN 0 ELSE Form.fields[Form.mode].version]])
          /\ Ask({}, "versions", <<rule, Form.gen + 1>>)
    BY <1>0, <1>2, RuleChangeWrites
  <2>2. consoleForm'.gen = consoleForm.gen + 1 /\ consoleForm'.rule = rule
    BY <1>1, <2>1 DEF FormBecomes
  <2>3. PICK new : new = Request("versions", <<rule, Form.gen + 1>>)
    OBVIOUS
  <2>4. reqs' = reqs \cup {new} /\ new.query[1] = rule /\ new.query[2] = consoleForm.gen + 1
    BY <1>1, <2>1, <2>3, RequestFields DEF Ask
  <2>5. \A r \in reqs : r.kind = "versions" => r.query[2] \in Nat /\ r.query[2] <= consoleForm.gen
    BY <1>0 DEF ReqTyped, VersionsAgree
  <2>6. \A r \in reqs : r.kind = "versions" => r.query[2] <= consoleForm.gen + 1 /\ r.query[2] # consoleForm.gen + 1
    BY <1>1, <2>5
  <2> QED BY <1>1, <2>2, <2>4, <2>6 DEF VersionsAgree
<1>a. ASSUME ~HandleRuleChange, consoleForm'.gen = consoleForm.gen, consoleForm'.rule \in {consoleForm.rule, None}
      PROVE  VersionsAgree'
  BY <1>0, <1>a, VersionsAsked DEF VersionsAgree
<1>3. CASE consoleForm' = consoleForm /\ ~HandleRuleChange
  BY <1>3, <1>a
<1>4. ASSUME NEW mode, NEW versions, NEW submitting, NEW listed, NEW fields, ~HandleRuleChange,
             FormBecomes(mode, Form.rule, versions, Form.gen, submitting, listed, fields)
      PROVE  VersionsAgree'
  BY <1>1, <1>4, <1>a DEF FormBecomes
<1>5. CASE PickVersion /\ ~HandleRuleChange
  <2>1. PICK v : consoleForm' = [consoleForm EXCEPT !.fields = Take(consoleForm.mode, v)]
    BY <1>5 DEF PickVersion
  <2>2. consoleForm'.gen = consoleForm.gen /\ consoleForm'.rule = consoleForm.rule
    BY <1>0, <2>1 DEF FormTyped
  <2> QED BY <1>5, <1>a, <2>2
<1>6. CASE SwitchMode
  <2>1. consoleForm'.gen = consoleForm.gen + 1 /\ consoleForm'.rule = None /\ reqs' = reqs
    BY <1>0, <1>6 DEF SwitchMode, FormTyped
  <2>2. \A r \in reqs : r.kind = "versions" => r.query[2] \in Nat /\ r.query[2] <= consoleForm.gen
    BY <1>0 DEF ReqTyped, VersionsAgree
  <2> QED BY <1>1, <2>1, <2>2 DEF VersionsAgree
<1>7. ASSUME NEW r \in reqs, Listed(r.query[1]), ~HandleRuleChange PROVE VersionsAgree'
  <2>1. consoleForm'.gen = consoleForm.gen /\ consoleForm'.rule = consoleForm.rule
    BY <1>0, <1>7 DEF Listed, FormTyped
  <2> QED BY <1>7, <1>a, <2>1
<1>8. CASE consoleForm' = [NoForm EXCEPT !.gen = Form.gen] /\ ~HandleRuleChange
  <2>1. consoleForm'.gen = consoleForm.gen /\ consoleForm'.rule = None
    BY <1>1, <1>8 DEF NoForm
  <2> QED BY <1>8, <1>a, <2>1
<1>9. ASSUME NEW r \in reqs, r.kind = "verify", ~HandleRuleChange PROVE VersionsAgree'
  <2>1. \A s \in reqs : s.kind # "versions"
    BY <1>0, <1>9 DEF ReqTyped, Fits, IsForm
  <2> QED BY <1>9, <2>1, VersionsAsked DEF VersionsAgree
<1>10. CASE reqs' = {}
  BY <1>10 DEF VersionsAgree
<1> HIDE DEF Form
<1> QED BY <1>2, <1>3, <1>4, <1>5, <1>6, <1>7, <1>8, <1>9, <1>10, FormMoves

\* What happens on the page of a form.
LEMMA FormSteps ==
  ASSUME ConsoleTyped, [ConsoleNext]_consoleVars, view' = goal, IsForm
  PROVE  /\ view = goal /\ goal' = goal
         /\ \/ HandleRuleChange \/ PickVersion \/ SwitchMode \/ Submit
            \/ \E r \in reqs : \/ r.kind = "versions" /\ AnswerVersions(r)
                               \/ r.kind = "submit" /\ AnswerSubmit(r)
                               \/ Serve(r) \/ Fail(r)
                               \/ r.kind = "gone" /\ AnswerUnseen(r)
            \/ UNCHANGED <<consoleForm, reqs>>
<1>0. goal' = goal /\ view \in {"checking", "login", goal} /\ goal \in Pages /\ \A r \in reqs : ReqTyped(r)
  BY GoalStays, ConsoleAssumption DEF ConsoleTyped, Pages
<1>1. /\ ~IsTable /\ ~HasFilter /\ ~HasRowActions /\ ~Guarded /\ ~IsDetail
      /\ goal \notin {"dashboard", "login", "detail", "results", "checking"}
  BY DEF IsDetail, HasFilter, IsTable, HasRowActions, Guarded, IsForm
<1>2. \A r \in reqs : r.kind \in {"versions", "submit", "gone"}
  BY <1>0, <1>1 DEF ReqTyped, Fits, Kinds
<1>3. CASE UserActs
  <2>1. ~Login /\ ~Logout
    BY <1>1, Zenon DEF Login, Logout
  <2>2. /\ ~SetFilter /\ ~HandleTableChange /\ ~RowAction
        /\ ~OpenTask /\ ~LoadResults /\ ~Refresh /\ ~OpenConfirm /\ ~ConfirmOk /\ ~CancelConfirm /\ ~ChangeTask
        /\ ~HandleExport
    BY <1>0, <1>1 DEF SetFilter, HandleTableChange, RowAction, Acts, OpenTask, LoadResults, Refresh, OpenConfirm,
       ConfirmOk, CancelConfirm, ChangeTask, HandleExport
  <2>3. view' = view
    BY <1>3, <2>1, <2>2, Zenon DEF UserActs, HandleRuleChange, PickVersion, SwitchMode, Submit
  <2> QED BY <1>0, <1>3, <2>1, <2>2, <2>3 DEF UserActs
<1>4. ASSUME NEW r \in reqs, Answer(r)
      PROVE  /\ view = goal
             /\ \/ r.kind = "versions" /\ AnswerVersions(r)
                \/ r.kind = "submit" /\ AnswerSubmit(r)
  <2>1. ReqTyped(r) /\ r.kind \in {"versions", "submit", "gone"}
    BY <1>0, <1>2
  <2> QED BY <1>1, <1>4, <2>1, AnswerByKind
<1>5. ASSUME NEW r \in reqs, Serve(r) \/ Fail(r) \/ AnswerUnseen(r)
      PROVE  view = goal /\ (AnswerUnseen(r) => r.kind = "gone")
  BY <1>5 DEF Serve, Fail, AnswerUnseen
<1>6. ASSUME NEW r \in reqs, AnswerDenied(r) PROVE FALSE
  BY <1>1, <1>6 DEF AnswerDenied
<1>7. ~Debounce
  BY <1>1 DEF Debounce
<1>8. CASE RevokeKey \/ Worker \/ UNCHANGED consoleVars
  BY <1>0, <1>8 DEF RevokeKey, Worker, consoleVars, pageState
<1> QED BY <1>0, <1>2, <1>3, <1>4, <1>5, <1>6, <1>7, <1>8 DEF ConsoleNext, Landing

\* Who submits waits for the answer.
LEMMA SubmittingStays ==
  ASSUME ConsoleTyped, FormSound, [ConsoleNext]_consoleVars
  PROVE  consoleForm'.submitting => IsForm' /\ (view' = goal' => Asking("submit")')
<1>0. FormTyped /\ BackTyped /\ goal' = goal /\ \A r \in reqs : ReqTyped(r)
  BY GoalStays DEF ConsoleTyped
<1>1. consoleForm.submitting \in BOOLEAN /\ Form.submitting = consoleForm.submitting
  BY <1>0 DEF FormTyped, Form
<1>2. IsForm' = IsForm
  BY <1>0 DEF IsForm
<1>3. ASSUME ~IsForm PROVE ~consoleForm'.submitting
  <2>0. ~consoleForm.submitting
    BY <1>3 DEF FormSound
  <2>1. ~HandleRuleChange /\ ~PickVersion /\ ~SwitchMode /\ ~Submit
    BY <1>0, <1>3, Zenon DEF HandleRuleChange, PickVersion, SwitchMode, Submit, IsForm, Acts, ConsoleTyped
  <2>2. \A r \in reqs : r.kind # "versions" /\ r.kind # "submit"
    BY <1>0, <1>3 DEF ReqTyped, Fits
  <2>3. consoleForm' = NoForm => ~consoleForm'.submitting
    BY DEF NoForm
  <2> QED BY <2>0, <2>1, <2>2, <2>3, FormMoves
<1>4. ASSUME IsForm, view' = goal, consoleForm'.submitting PROVE Asking("submit")'
  <2>0. view = goal
    BY <1>4, FormSteps
  <2>1. consoleForm.submitting => \E r \in reqs : r.kind = "submit"
    BY <2>0 DEF FormSound, Asking
  <2> SUFFICES \E r \in reqs' : r.kind = "submit"
    BY DEF Asking
  <2>2. CASE HandleRuleChange
    <3>1. ~consoleForm'.submitting
      BY <1>0, <1>1, <2>2, RuleChangeWrites DEF FormBecomes
    <3> QED BY <1>4, <3>1
  <2>3. CASE PickVersion \/ SwitchMode
    <3>1. consoleForm'.submitting = consoleForm.submitting /\ reqs' = reqs
      BY <1>0, <2>3 DEF PickVersion, SwitchMode, FormTyped
    <3> QED BY <1>4, <2>1, <3>1
  <2>4. CASE Submit
    BY <2>4, RequestFields DEF Submit, Ask
  <2>5. ASSUME NEW r \in reqs, r.kind = "versions", AnswerVersions(r) PROVE \E s \in reqs' : s.kind = "submit"
    <3>1. reqs' = reqs \ {r}
      BY <2>5 DEF AnswerVersions, AskNothing
    <3>2. consoleForm'.submitting = consoleForm.submitting
      BY <1>0, <2>5 DEF AnswerVersions, Listed, FormTyped
    <3> QED BY <1>4, <2>1, <2>5, <3>1, <3>2
  <2>6. ASSUME NEW r \in reqs, AnswerSubmit(r) PROVE FALSE
    <3>1. ~consoleForm'.submitting
      BY <1>0, <2>6 DEF AnswerSubmit, FormTyped, NoForm
    <3> QED BY <1>4, <3>1
  <2>7. ASSUME NEW r \in reqs, Serve(r) \/ Fail(r) PROVE \E s \in reqs' : s.kind = "submit"
    <3>1. consoleForm' = consoleForm
      BY <2>7 DEF Serve, Fail, pageState
    <3>2. PICK s : Goes(r, s) /\ reqs' = (reqs \ {r}) \cup {s}
      BY <1>0, <2>7, ServeMoves
    <3> QED BY <1>4, <2>1, <3>1, <3>2 DEF Goes
  <2>8. ASSUME NEW r \in reqs, r.kind = "gone", AnswerUnseen(r) PROVE \E s \in reqs' : s.kind = "submit"
    <3>1. consoleForm' = consoleForm /\ reqs' = reqs \ {r}
      BY <2>8 DEF AnswerUnseen, AskNothing, pageState
    <3> QED BY <1>4, <2>1, <2>8, <3>1
  <2>9. CASE UNCHANGED <<consoleForm, reqs>>
    BY <1>4, <2>1, <2>9
  <2> QED BY <1>4, <2>2, <2>3, <2>4, <2>5, <2>6, <2>7, <2>8, <2>9, FormSteps
<1> QED BY <1>0, <1>2, <1>3, <1>4

\* The form stays sound.
LEMMA FormStays ==
  ASSUME ConsoleTyped, FormSound, [ConsoleNext]_consoleVars
  PROVE  FormSound'
BY FieldsStay, VersionsStay, SubmittingStays DEF FormSound, FieldsAgree, FormAgrees, VersionsAgree, Form

\* Who binds.
LEMMA BindingStays ==
  ASSUME ConsoleTyped, FormSound, BindingIsOfRule, [ConsoleNext]_consoleVars
  PROVE  BindingIsOfRule'
<1>1. CASE bound' = bound
  BY <1>1 DEF BindingIsOfRule
<1>2. CASE UserActs /\ ~Submit
  <2>1. bound' = bound
    BY <1>2, Zenon DEF UserActs, Login, Logout, SetFilter, HandleTableChange, RowAction, OpenTask, Refresh,
      LoadResults, OpenConfirm, ConfirmOk, CancelConfirm, ChangeTask, HandleExport, HandleRuleChange,
      PickVersion, SwitchMode, rest, ghosts
  <2> QED BY <1>1, <2>1
<1>3. ASSUME NEW r \in reqs, Answer(r) \/ Serve(r) \/ Fail(r) \/ AnswerUnseen(r) \/ AnswerVerify(r) \/ AnswerDenied(r)
      PROVE  bound' = bound
  BY <1>3 DEF Answer, Serve, Fail, AnswerUnseen, AnswerVerify, AnswerDenied, ghosts
<1>4. CASE Submit
  <2>1. bound' = bound \cup {Binding} /\ MaySubmit /\ goal \in {"create", "modal"}
    BY <1>4 DEF Submit, IsForm
  <2>2. PICK b : b = Binding
    OBVIOUS
  <2>3. /\ b.rule = Field.rule /\ b.listed = (goal = "create" \/ consoleForm.listed)
        /\ b.version = IF goal = "modal" \/ Field.version \in consoleForm.versions THEN Field.version ELSE 0
    BY <2>2 DEF Binding
  <2>4. ASSUME b.listed PROVE b.version \in Approved[b.rule] \cup {0}
    <3>1. CASE goal = "create"
      BY <2>1, <2>3, <2>4, <3>1 DEF MaySubmit, FormSound, Field
    <3>2. CASE goal = "modal"
      BY <2>1, <2>3, <2>4, <3>2 DEF MaySubmit, FormSound, Field
    <3> QED BY <2>1, <3>1, <3>2
  <2> QED BY <2>1, <2>2, <2>4 DEF BindingIsOfRule
<1>5. CASE Debounce \/ RevokeKey \/ Worker
  BY <1>1, <1>5 DEF Debounce, RevokeKey, Worker, rest, ghosts
<1> QED BY <1>1, <1>2, <1>3, <1>4, <1>5 DEF ConsoleNext, Landing, consoleVars, ghosts

-----------------------------------------------------------------------------
(* The invariant.                                                           *)

\* The console starts with the invariant.
LEMMA ConsoleStarts == ConsoleInit => ConsoleInv
<1> SUFFICES ASSUME ConsoleInit PROVE ConsoleInv
  OBVIOUS
<1>0. goal \in ConsolePages /\ goal \in Pages
  BY ConsoleAssumption DEF ConsoleInit, Pages
<1>1. table = [NoTable EXCEPT !.loading = IsTable, !.seq = 1] /\ TableTyped
  BY DEF ConsoleInit, NoTable, TableTyped
<1>2. detail = [NoDetail EXCEPT !.loading = IsDetail, !.gen = 1] /\ DetailTyped
  BY DEF ConsoleInit, NoDetail, DetailTyped, TaskIds
<1>3. consoleForm = NoForm /\ FormTyped
  BY DEF ConsoleInit, NoForm, FormTyped, FieldType, Modes
<1>4. /\ back = [keys |-> {"old", "new"}, results |-> 1, human |-> 1, next |-> 2]
      /\ crossed = FALSE /\ bound = {} /\ decided = {} /\ exports = {}
  BY DEF ConsoleInit
<1>5. BackTyped
  BY <1>4 DEF BackTyped
<1>6. /\ table.filter = None /\ table.due = FALSE /\ table.rows = <<"empty", 0>> /\ table.seq = 1
      /\ detail.id = "t1" /\ detail.gen = 1 /\ detail.task = None /\ detail.exporting = FALSE
      /\ consoleForm.rule = None /\ consoleForm.mode = "once" /\ consoleForm.fields["once"].rule = None
      /\ consoleForm.submitting = FALSE /\ consoleForm.listed = FALSE
  BY <1>1, <1>2, <1>3 DEF NoTable, NoDetail, NoForm, Modes
<1>7. BindingIsOfRule /\ DecidedAsSeen /\ ExportIsWhole
  BY <1>4 DEF BindingIsOfRule, DecidedAsSeen, ExportIsWhole
<1>8. CASE goal = "dashboard"
  <2>1. /\ view \in {"checking", "login"}
        /\ session = [key |-> "old", in |-> FALSE, at |-> view]
        /\ reqs = {[n |-> 1, kind |-> "verify", query |-> "validate", key |-> "old",
                    stage |-> "sent", ans |-> 0]}
    BY <1>8 DEF ConsoleInit
  <2>2. SessionTyped /\ SessionSound
    BY <1>8, <2>1 DEF SessionTyped, SessionSound, None
  <2>3. \A r \in reqs : ReqTyped(r)
    BY <1>8, <2>1 DEF ReqTyped, Kinds, Fits
  <2>4. ~HasFilter /\ ~IsDetail /\ ~IsForm /\ goal # "results" /\ goal # "detail" /\ goal # "modal"
    BY <1>8 DEF HasFilter, IsDetail, IsForm
  <2>5. TableSound /\ DetailSound /\ ExportSound /\ ActSound
    BY <1>6, <2>4 DEF TableSound, DetailSound, ExportSound, ActSound
  <2>6. \A r \in reqs : r.kind = "verify"
    BY <2>1
  <2>7. FormSound
    BY <1>6, <2>4, <2>6 DEF FormSound
  <2> QED BY <1>0, <1>1, <1>2, <1>3, <1>5, <1>7, <2>1, <2>2, <2>3, <2>5, <2>7 DEF ConsoleInv, ConsoleTyped
<1>9. CASE goal # "dashboard"
  <2>1. /\ view = goal /\ session = [key |-> "old", in |-> TRUE, at |-> view]
        /\ reqs = IF IsForm THEN {}
                  ELSE {[n |-> 1, kind |-> FirstQuery[1], query |-> FirstQuery[2], key |-> "old",
                         stage |-> "sent", ans |-> 0]}
    BY <1>9 DEF ConsoleInit
  <2>2. IsTable \/ IsDetail \/ IsForm
    BY <1>0 DEF Pages, IsTable, IsDetail, IsForm
  <2>3. \A r \in reqs : /\ \/ IsTable /\ r.kind = "list" /\ r.query = <<1, None, 1>>
                           \/ IsDetail /\ r.kind = "detail" /\ r.query = <<"t1", 1, FALSE>>
                        /\ r.stage = "sent" /\ r.ans = 0
                        /\ DOMAIN r = {"n", "kind", "query", "key", "stage", "ans"}
    <3>1. IsTable => FirstQuery[1] = "list" /\ FirstQuery[2] = <<1, None, 1>>
      BY DEF FirstQuery
    <3>2. ~IsTable => FirstQuery[1] = "detail" /\ FirstQuery[2] = <<"t1", 1, FALSE>>
      BY DEF FirstQuery
    <3>3. CASE IsForm
      BY <2>1, <3>3
    <3>4. CASE ~IsForm
      <4>1. PICK r : reqs = {r} /\ r = [n |-> 1, kind |-> FirstQuery[1], query |-> FirstQuery[2], key |-> "old",
                                       stage |-> "sent", ans |-> 0]
        BY <2>1, <3>4
      <4>2. /\ r.kind = FirstQuery[1] /\ r.query = FirstQuery[2] /\ r.stage = "sent" /\ r.ans = 0
            /\ DOMAIN r = {"n", "kind", "query", "key", "stage", "ans"}
        BY <4>1
      <4> QED BY <2>2, <3>1, <3>2, <3>4, <4>1, <4>2
    <3> QED BY <3>3, <3>4
  <2>4. \A r \in reqs : ReqTyped(r)
    <3>1. (IsTable => Fits("list")) /\ (IsDetail => Fits("detail")) /\ "list" \in Kinds /\ "detail" \in Kinds
      BY DEF Fits, Kinds
    <3>2. ASSUME NEW r \in reqs PROVE ReqTyped(r)
      <4>0. r.stage = "sent" /\ r.ans = 0 /\ DOMAIN r = {"n", "kind", "query", "key", "stage", "ans"}
        BY <2>3
      <4>1. r.ans \in 0..2
        BY <4>0
      <4>2. CASE IsTable /\ r.kind = "list"
        BY <3>1, <4>0, <4>1, <4>2 DEF ReqTyped
      <4>3. CASE IsDetail /\ r.kind = "detail"
        BY <3>1, <4>0, <4>1, <4>3 DEF ReqTyped
      <4> QED BY <2>3, <4>2, <4>3
    <3> QED BY <3>2
  <2>5. goal # "checking" /\ session.key = "old" /\ session.in = TRUE /\ SessionTyped
    BY <1>0, <2>1 DEF Pages, SessionTyped
  <2>6. SessionSound
    BY <2>1, <2>3, <2>5 DEF SessionSound, None
  <2>7. \A r, s \in reqs : r = s
    BY <2>1
  <2>8. (HasFilter => IsTable) /\ (IsTable => ~IsDetail) /\ (goal \in {"results", "detail"} => ~IsTable)
    BY DEF HasFilter, IsTable, IsDetail
  <2>9. (~IsForm => reqs # {}) /\ (IsTable \/ IsDetail => ~IsForm)
    BY <2>1 DEF IsTable, IsDetail, IsForm
  <2>10. TableSound
    <3>1. SUFFICES ASSUME HasFilter
                   PROVE /\ \A r \in reqs : r.kind = "list" /\ r.query[1] = 1 /\ r.query[2] = None /\ Awaited(r)
                         /\ reqs # {}
      BY <1>6, <2>7 DEF TableSound
    <3>2. \A r \in reqs : r.kind = "list" /\ r.query = <<1, None, 1>>
      BY <2>3, <2>8, <3>1
    <3>3. <<1, None, 1>>[1] = 1 /\ <<1, None, 1>>[2] = None
      OBVIOUS
    <3> QED BY <1>6, <2>8, <2>9, <3>1, <3>2, <3>3 DEF Awaited
  <2>11. DetailSound
    <3>1. SUFFICES ASSUME IsDetail
                   PROVE /\ \A r \in reqs : r.query[1] = "t1" /\ r.query[2] = 1 /\ Pending(r)
                         /\ reqs # {}
      BY <1>6 DEF DetailSound
    <3>2. \A r \in reqs : r.kind = "detail" /\ r.query = <<"t1", 1, FALSE>>
      BY <2>3, <2>8, <3>1
    <3>3. <<"t1", 1, FALSE>>[1] = "t1" /\ <<"t1", 1, FALSE>>[2] = 1
      OBVIOUS
    <3> QED BY <1>6, <2>8, <2>9, <3>1, <3>2, <3>3 DEF Pending
  <2>12. ExportSound /\ ActSound
    BY <1>6, <2>3 DEF ExportSound, ActSound
  <2>13. FormSound
    BY <1>6, <2>3 DEF FormSound
  <2> QED BY <1>0, <1>1, <1>2, <1>3, <1>5, <1>7, <2>1, <2>4, <2>5, <2>6, <2>10, <2>11, <2>12, <2>13
          DEF ConsoleInv, ConsoleTyped
<1> QED BY <1>8, <1>9

\* Every step keeps it.
LEMMA ConsoleStays == ConsoleInv /\ [ConsoleNext]_consoleVars => ConsoleInv'
<1> SUFFICES ASSUME ConsoleInv, [ConsoleNext]_consoleVars PROVE ConsoleInv'
  OBVIOUS
<1>1. ConsoleTyped /\ SessionSound /\ TableSound /\ DetailSound /\ ExportSound /\ FormSound /\ ActSound
      /\ BindingIsOfRule /\ DecidedAsSeen /\ ExportIsWhole
  BY DEF ConsoleInv
<1> QED BY <1>1, ConsoleKeepsTypes, SessionStays, TableStays, DetailStays, ExportStays, FormStays, ActStays,
           BindingStays, DecidedStays
        DEF ConsoleInv

\* The invariant is as strong as what the run checks.
LEMMA ConsoleHolds == ConsoleInv => ConsoleIsTrue
<1> SUFFICES ASSUME ConsoleInv PROVE ConsoleIsTrue
  OBVIOUS
<1>0. /\ ConsoleTyped /\ SessionSound /\ TableSound /\ DetailSound /\ ExportSound /\ FormSound
      /\ BindingIsOfRule /\ DecidedAsSeen /\ ExportIsWhole
      /\ TableTyped /\ DetailTyped /\ FormTyped /\ SessionTyped
  BY DEF ConsoleInv, ConsoleTyped
<1>1. \A m \in Modes : consoleForm.fields[m].rule \in DOMAIN Approved \cup {None}
  BY <1>0 DEF FormTyped, FieldType
<1>2. detail.exporting /\ view = goal => Asking("export")
  BY <1>0 DEF ExportSound, Asking
<1>3. ConsoleTypeOK
  BY <1>0, <1>1, <1>2 DEF ConsoleTypeOK, ConsoleTyped, TableTyped, DetailTyped, SessionTyped, FormSound
<1>4. ShownIsAsked
  BY <1>0 DEF ShownIsAsked, TableSound, DetailSound
<1>5. SignedInHasKey
  BY <1>0 DEF SignedInHasKey, SessionSound
<1> QED BY <1>0, <1>3, <1>4, <1>5 DEF ConsoleIsTrue

\* The pages of the admin UI always show what was asked, bind a rule's own approved
\* version, decide what the operator had seen and export whole files, whatever the
\* order of the answers: for any pages, filters, versions and limits.
THEOREM ConsoleAlwaysTrue == ConsoleSpec => []ConsoleIsTrue
BY ConsoleStarts, ConsoleStays, ConsoleHolds, PTL DEF ConsoleSpec

-----------------------------------------------------------------------------
(* The replay: its invariant.                                              *)

\* What travels in a sequence of messages.
Mail(s) == {s[i] : i \in 1..Len(s)}

\* The kinds of handlers and of messages, and the types of the parts of the state.
Endings == {"clear", "close", "report"}
TaskJobs == Endings \cup {"retain", "late", "boot", "update", "inject"}
JobKinds == TaskJobs \cup {"start", "abort", "create", "recover", "restore"}
ReplayStatus == {"none", "success", "failure", "cancelled"}
ReplayMessages ==
  [kind : {"context", "complete", "result", "beat"}, task : Tasks, status : ReplayStatus,
   pos : 0..LastStep, got : SUBSET Values]
ReplayNews == [kind : {"complete", "cancelled", "result"}, status : ReplayStatus, got : SUBSET Values]
ReplayJobSet ==
  [kind : JobKinds, task : 0..MaxTasks, status : ReplayStatus, own : BOOLEAN, abort : BOOLEAN,
   close : BOOLEAN, ses : StoredSession, then : {"none", "create", "answer"}]
Verdicts == [att : 0..MaxTasks, status : ReplayStatus, rows : SUBSET Values]

SwSet == [up : BOOLEAN, act : StoredSession, listens : SUBSET Tasks, rows : [Tasks -> SUBSET Values], port : BOOLEAN]
SsSet ==
  [ses : StoredSession, pay : SUBSET Tasks, ctx : [Tasks -> [pos : -1..LastStep, got : SUBSET Values]],
   rows : [Tasks -> SUBSET Values], ret : 0..MaxTasks, dsl : 0..MaxTasks]
TabSet ==
  [open : BOOLEAN, load : {"loading", "complete"}, at : ReplayPages, run : BOOLEAN, abort : BOOLEAN,
   pos : 0..LastStep, got : SUBSET Values, ctl : -1..LastStep]
WizardSet ==
  [open : BOOLEAN, port : BOOLEAN, status : {"idle", "running", "success", "failure", "cancelled"},
   att : 0..MaxTasks, rows : SUBSET Values, asked : {"no", "yes"}, cancel : {"no", "asked"}, sent : Verdicts]
AttemptSet == [status : {"none", "running", "verified", "failed"}, rows : SUBSET Values]

\* A session is none at all or a task's.
OfTask(s) == s = NoReplaySession \/ s.task \in Tasks

SwTyped == sw \in SwSet /\ OfTask(sw.act)
SsTyped ==
  /\ ss \in SsSet /\ OfTask(ss.ses)
  /\ \A n \in Tasks : ss.ctx[n].pos = -1 => ss.ctx[n] = NoContext
TabsTyped ==
  /\ tab \in [Tasks -> TabSet] /\ done \in [Tasks -> SUBSET Steps]
  /\ \A n \in Tasks : ~tab[n].open => tab[n] = NoTab
\* The wizard page deals with the attempt that is remembered, and so does its request.
WizardTyped ==
  /\ wiz \in WizardSet
  /\ ~wiz.open => wiz = NoWizard
  /\ wiz.open => wiz.att = ss.dsl
  /\ wiz.sent # Idle => wiz.open /\ wiz.sent.att = wiz.att
ServerTyped ==
  srv \in [Tasks -> AttemptSet] /\ owner \in [Tasks -> 0..MaxTasks] /\ tasks \in 0..MaxTasks /\ alarms \subseteq Tasks
BoundsTyped == replayLeft \in [ReplayPlanKeys -> Nat] /\ replayMishaps \subseteq ReplayMishaps
WireTyped ==
  /\ inbox \in Seq(ReplayMessages) /\ Len(inbox) <= MaxWire + 1
  /\ news \in Seq(ReplayNews) /\ Len(news) <= MaxWire + 1
JobTyped(j) ==
  /\ j \in ReplayJobSet
  /\ j.kind \in TaskJobs => j.task \in Tasks
  /\ j.kind = "restore" => j.ses.task \in Tasks
  /\ j.then # "none" => j.kind \in Endings
JobsTyped == \A j \in replayJobs : JobTyped(j)

\* The chain works on one request at a time, and for a replay that is asked for there is a task.
ChainSound ==
  /\ \A i, j \in OnChain : i = j
  /\ \A i, j \in replayJobs : i.kind = "start" /\ j.kind = "start" => i = j
  /\ Queued("start") => OnChain = {}
  /\ (Queued("start") \/ \E j \in OnChain : j.then # "answer") => tasks < MaxTasks

\* Nothing is known of a task before it is created.
NothingAhead ==
  /\ \A n \in Tasks : n > tasks => /\ tab[n] = NoTab /\ ss.ctx[n] = NoContext /\ done[n] = {}
                                   /\ n \notin ss.pay /\ owner[n] = 0
  /\ \A j \in replayJobs : j.task <= tasks /\ j.ses.task <= tasks
  /\ \A m \in Mail(inbox) : m.task <= tasks
  /\ sw.act.task <= tasks /\ ss.ses.task <= tasks /\ ss.ret <= tasks

\* Before its only boot a runner has said and kept nothing.
BootsFirst ==
  \A j \in replayJobs : j.kind = "boot" =>
    /\ \A i \in replayJobs : i.kind = "boot" /\ i.task = j.task => i = j
    /\ ~tab[j.task].run /\ tab[j.task].ctl = -1 /\ ss.ctx[j.task] = NoContext
    /\ \A m \in Mail(inbox) : m.task # j.task
    /\ \A i \in replayJobs : i.kind \in {"retain", "late"} => i.task # j.task

\* Whatever says that a step was executed says so rightly.
ProgressIsDone ==
  /\ \A n \in Tasks : 1..tab[n].pos \subseteq done[n] /\ 1..tab[n].ctl \subseteq done[n] /\ 1..ss.ctx[n].pos \subseteq done[n]
  /\ \A m \in Mail(inbox) :
       /\ m.kind = "context" => 1..m.pos \subseteq done[m.task]
       /\ m.kind = "complete" /\ m.status = "success" => done[m.task] = Steps
  /\ \A j \in replayJobs : j.kind = "retain" \/ (j.kind = "late" /\ j.status = "success") => done[j.task] = Steps
  /\ ss.ret # 0 => done[ss.ret] = Steps

\* Unless a runner went on without any context: what travels and is kept has the values of its steps,
\* and a result all of them.
ValuesTo(p) == Values \cap (1..p)
Whole(R) == R = {} \/ R = Values
Sighted == "blind" \notin replayMishaps
ContextsKept ==
  /\ \A n \in Tasks : tab[n].run => ValuesTo(tab[n].pos) \subseteq tab[n].got
  /\ \A n \in Tasks : ValuesTo(ss.ctx[n].pos) \subseteq ss.ctx[n].got
  /\ \A m \in Mail(inbox) : /\ m.kind = "context" => ValuesTo(m.pos) \subseteq m.got
                            /\ m.kind = "result" => m.got = Values
RowsKept ==
  /\ \A n \in Tasks : Whole(sw.rows[n]) /\ Whole(ss.rows[n])
  /\ \A m \in Mail(news) : Whole(m.got)
  /\ Whole(wiz.rows) /\ Whole(wiz.sent.rows)
RowsAccepted == \A a \in Tasks : srv[a].status = "verified" => srv[a].rows = Values
ValuesAreKept == Sighted => ContextsKept /\ RowsKept /\ RowsAccepted

\* As long as no handler outlived its replay and no two replays met:
Clean == replayMishaps \cap {"late", "overlap"} = {}
Ran(a) == \E n \in Tasks : owner[n] = a /\ done[n] = Steps
ReplayAsked == Queued("start") \/ Queued("create")

\* one replay at a time is active, stored, retained or being cleaned up, the last one made, and none
\* while the next one is asked for;
OneReplay ==
  /\ sw.act.task \in {0, tasks} /\ ss.ses.task \in {0, tasks} /\ ss.ret \in {0, tasks}
  /\ \A j \in replayJobs : j.kind \in Endings => j.task = tasks
  /\ sw.listens = IF sw.act = NoReplaySession THEN {} ELSE {sw.act.task}
  /\ \A j \in replayJobs : j.then # "create"
  /\ ReplayAsked => sw.act = NoReplaySession /\ ss.ses = NoReplaySession /\ \A j \in replayJobs : j.kind \notin Endings
  /\ Queued("create") => ss.ret = 0

\* it was made for the attempt that is remembered, and so is every success on its way;
EndIsOwn ==
  /\ sw.act # NoReplaySession => owner[sw.act.task] = ss.dsl
  /\ ss.ses # NoReplaySession => owner[ss.ses.task] = ss.dsl
  /\ \A j \in replayJobs : j.kind \in Endings /\ j.status = "success" => done[j.task] = Steps /\ owner[j.task] = ss.dsl
  /\ (wiz.sent.status = "success" \/ \E m \in Mail(news) : m.status = "success") => Ran(ss.dsl)
  /\ \A a \in Tasks : srv[a].status = "verified" => Ran(a)

\* who reported his end runs no more, nor who is cleaned up without an abort, and a runner is the
\* stored session's;
OneRuns ==
  /\ \A n \in Tasks : Reported(n) => ~tab[n].run
  /\ \A j \in replayJobs : j.kind \in Endings /\ sw.act # NoReplaySession => j.abort /\ j.close
  /\ \A j \in replayJobs : j.kind = "clear" /\ ~j.abort => ~tab[j.task].run
  /\ \A n \in Tasks : tab[n].run /\ ~tab[n].abort => ss.ses.task = n
  /\ sw.act # NoReplaySession /\ sw.act.task \in ss.pay => ss.ses.task = sw.act.task

\* and nobody is about to close a retained tab.
RetainedIsLeft ==
  ss.ret # 0 => sw.act = NoReplaySession /\ \A j \in replayJobs : j.kind \in Endings => ~j.close

WhenClean == Clean => OneReplay /\ EndIsOwn /\ OneRuns /\ RetainedIsLeft

ReplayTyped ==
  SwTyped /\ SsTyped /\ TabsTyped /\ WizardTyped /\ ServerTyped /\ BoundsTyped /\ WireTyped /\ JobsTyped

ReplayInv ==
  /\ ReplayTyped /\ ChainSound /\ NothingAhead /\ BootsFirst /\ ProgressIsDone /\ ValuesAreKept /\ WhenClean

-----------------------------------------------------------------------------
(* The replay: messages and jobs.                                           *)

\* What is added to a sequence of messages, and what is taken from it.
LEMMA MailOfTwo ==
  ASSUME NEW S, NEW s \in Seq(S), NEW a \in S, NEW b \in S
  PROVE  /\ s \o <<>> \in Seq(S) /\ Mail(s \o <<>>) = Mail(s) /\ Len(s \o <<>>) = Len(s)
         /\ s \o <<a>> \in Seq(S) /\ Mail(s \o <<a>>) = Mail(s) \cup {a} /\ Len(s \o <<a>>) = Len(s) + 1
         /\ s \o <<a, b>> \in Seq(S) /\ Mail(s \o <<a, b>>) = Mail(s) \cup {a, b}
         /\ Len(s \o <<a, b>>) = Len(s) + 2
<1>1. /\ s \o <<>> \in Seq(S) /\ Len(s \o <<>>) = Len(s) /\ \A i \in 1..Len(s) : (s \o <<>>)[i] = s[i]
      /\ s \o <<a>> \in Seq(S) /\ Len(s \o <<a>>) = Len(s) + 1 /\ \A i \in 1..Len(s) : (s \o <<a>>)[i] = s[i]
      /\ s \o <<a, b>> \in Seq(S) /\ Len(s \o <<a, b>>) = Len(s) + 2 /\ \A i \in 1..Len(s) : (s \o <<a, b>>)[i] = s[i]
      /\ (s \o <<a>>)[Len(s) + 1] = a
      /\ (s \o <<a, b>>)[Len(s) + 1] = a /\ (s \o <<a, b>>)[Len(s) + 2] = b
  OBVIOUS
<1>2. Len(s) \in Nat
  OBVIOUS
<1>3. Mail(s \o <<>>) = Mail(s)
  BY <1>1 DEF Mail
<1>4. Mail(s \o <<a>>) = Mail(s) \cup {a}
  <2>1. 1..(Len(s) + 1) = (1..Len(s)) \cup {Len(s) + 1}
    BY <1>2
  <2> QED BY <1>1, <2>1 DEF Mail
<1>5. Mail(s \o <<a, b>>) = Mail(s) \cup {a, b}
  <2>1. 1..(Len(s) + 2) = (1..Len(s)) \cup {Len(s) + 1, Len(s) + 2}
    BY <1>2
  <2> QED BY <1>1, <2>1 DEF Mail
<1> QED BY <1>1, <1>3, <1>4, <1>5

\* The first message is taken from the sequence.
LEMMA MailOfTail ==
  ASSUME NEW S, NEW s \in Seq(S)
  PROVE  /\ Mail(s) \subseteq S
         /\ s # <<>> => /\ Head(s) \in Mail(s) /\ Tail(s) \in Seq(S) /\ Len(Tail(s)) = Len(s) - 1
                        /\ Mail(Tail(s)) \subseteq Mail(s)
<1>1. Mail(s) \subseteq S
  BY DEF Mail
<1>2. ASSUME s # <<>>
      PROVE  /\ Head(s) \in Mail(s) /\ Tail(s) \in Seq(S) /\ Len(Tail(s)) = Len(s) - 1
             /\ Mail(Tail(s)) \subseteq Mail(s)
  <2>1. /\ Tail(s) \in Seq(S) /\ Len(Tail(s)) = Len(s) - 1 /\ Head(s) = s[1] /\ 1 \in 1..Len(s)
        /\ \A i \in 1..Len(Tail(s)) : Tail(s)[i] = s[i + 1] /\ i + 1 \in 1..Len(s)
    BY <1>2
  <2> QED BY <2>1 DEF Mail
<1> QED BY <1>1, <1>2

\* Nothing travels in the empty sequence.
LEMMA MailOfNone == Mail(<<>>) = {}
BY DEF Mail

\* An end is reported in the mail or is with a handler.
LEMMA ReportedInMail ==
  ASSUME NEW n
  PROVE  Reported(n) <=> \/ \E m \in Mail(inbox) : m.kind = "complete" /\ m.task = n
                         \/ \E j \in replayJobs : j.kind \in {"retain", "late"} /\ j.task = n
BY DEF Reported, Mail

\* The same of the next state.
LEMMA ReportedInMailNext ==
  ASSUME NEW n
  PROVE  Reported(n)' <=> \/ \E m \in Mail(inbox)' : m.kind = "complete" /\ m.task = n'
                          \/ \E j \in replayJobs' : j.kind \in {"retain", "late"} /\ j.task = n'
BY DEF Reported, Mail

\* No session is the session of no task.
LEMMA NoneIsSession == NoReplaySession \in StoredSession /\ OfTask(NoReplaySession) /\ NoReplaySession.task = 0
BY ReplayAssumption DEF NoReplaySession, StoredSession, OfTask

\* A session that is one has a task.
LEMMA SessionHasTask ==
  ASSUME NEW s \in StoredSession, OfTask(s)
  PROVE  /\ s.task \in 0..MaxTasks /\ s.hops \in 0..HopLimit /\ (s = NoReplaySession <=> s.task = 0)
         /\ s # NoReplaySession => s.task \in Tasks
BY ReplayAssumption DEF NoReplaySession, StoredSession, OfTask, Tasks

\* The fields of a new handler.
LEMMA ReplayJobTyped ==
  ASSUME NEW kind \in JobKinds, NEW n \in 0..MaxTasks
  PROVE  /\ ReplayJob(kind, n).kind = kind /\ ReplayJob(kind, n).task = n
         /\ ReplayJob(kind, n).status = "none" /\ ReplayJob(kind, n).then = "none"
         /\ ReplayJob(kind, n).ses = NoReplaySession
         /\ ReplayJob(kind, n).abort = FALSE /\ ReplayJob(kind, n).close = FALSE
         /\ ReplayJob(kind, n) \in ReplayJobSet
         /\ kind # "restore" /\ (kind \in TaskJobs => n \in Tasks) => JobTyped(ReplayJob(kind, n))
<1>1. /\ ReplayJob(kind, n).kind = kind /\ ReplayJob(kind, n).task = n
      /\ ReplayJob(kind, n).status = "none" /\ ReplayJob(kind, n).then = "none"
      /\ ReplayJob(kind, n).ses = NoReplaySession
      /\ ReplayJob(kind, n).abort = FALSE /\ ReplayJob(kind, n).close = FALSE
  BY DEF ReplayJob, NoReplayJob
<1>2. 0 \in 0..MaxTasks
  BY ReplayAssumption
<1>3. ReplayJob(kind, n) \in ReplayJobSet
  BY <1>2, NoneIsSession DEF ReplayJobSet, ReplayJob, NoReplayJob, ReplayStatus
<1> QED BY <1>1, <1>3 DEF JobTyped

\* j is a cleanup of the task.
IsCleanup(j, n, status, abort, close, then) ==
  /\ JobTyped(j) /\ j.kind = "clear" /\ j.task = n /\ j.status = status /\ j.abort = abort
  /\ j.close = close /\ j.then = then /\ j.ses = NoReplaySession

\* The fields of a new cleanup.
LEMMA CleanupJob ==
  ASSUME NEW n \in Tasks, NEW status \in ReplayStatus, NEW abort \in BOOLEAN, NEW close \in BOOLEAN,
         NEW then \in {"none", "create", "answer"}
  PROVE  IsCleanup([ReplayJob("clear", n) EXCEPT !.status = status, !.abort = abort, !.close = close, !.then = then],
                   n, status, abort, close, then)
<1> DEFINE r == ReplayJob("clear", n)
           j == [r EXCEPT !.status = status, !.abort = abort, !.close = close, !.then = then]
<1>1. n \in 0..MaxTasks /\ "clear" \in JobKinds
  BY ReplayAssumption DEF Tasks, JobKinds, TaskJobs, Endings
<1>2. r \in ReplayJobSet /\ r.kind = "clear" /\ r.task = n /\ r.ses = NoReplaySession
  BY <1>1, ReplayJobTyped, ZenonT(60)
<1> HIDE DEF r
<1>3. j \in ReplayJobSet
  BY <1>2 DEF ReplayJobSet
<1>4. /\ j.kind = "clear" /\ j.task = n /\ j.status = status /\ j.abort = abort
      /\ j.close = close /\ j.then = then /\ j.ses = NoReplaySession
  BY <1>2 DEF ReplayJobSet
<1>5. IsCleanup(j, n, status, abort, close, then)
  <2> HIDE DEF j
  <2> QED BY <1>3, <1>4 DEF IsCleanup, JobTyped, Endings
<1> QED BY <1>5 DEF r

\* The cleanup of the active replay, when there is one (cleanupReplaySession).
LEMMA CleanupIs ==
  ASSUME SwTyped, NEW status \in ReplayStatus, NEW abort \in BOOLEAN, NEW close \in BOOLEAN,
         NEW then \in {"none", "create", "answer"}
  PROVE  /\ sw.act = NoReplaySession => CleanupOf(sw, status, abort, close, then) = {}
         /\ sw.act # NoReplaySession =>
              \E j : CleanupOf(sw, status, abort, close, then) = {j} /\ IsCleanup(j, sw.act.task, status, abort, close, then)
<1>1. CASE sw.act = NoReplaySession
  BY <1>1, SMTT(60) DEF CleanupOf
<1>2. CASE sw.act # NoReplaySession
  <2>1. sw.act.task \in Tasks
    BY <1>2, SessionHasTask DEF SwTyped, SwSet
  <2> QED BY <1>2, <2>1, CleanupJob, ZenonT(60) DEF CleanupOf
<1> QED BY <1>1, <1>2

\* A tab that is closed ends the active replay if its listener hears it.
Hears(n) == n \in sw.listens /\ tab[n].open /\ sw.act # NoReplaySession

\* A closed tab starts the cleanup of the active replay if the listener hears it (onTabRemoved).
LEMMA ClosedIs ==
  ASSUME SwTyped, NEW n
  PROVE  /\ ~Hears(n) => ClosedJobs(n) = {} /\ ClosedSw(n, sw) = sw
         /\ Hears(n) => /\ \E j : ClosedJobs(n) = {j} /\ IsCleanup(j, sw.act.task, "failure", FALSE, FALSE, "none")
                        /\ ClosedSw(n, sw) = Dropped(sw)
<1>1. CASE ~Hears(n)
  BY <1>1 DEF Hears, ClosedJobs, ClosedSw
<1>2. CASE Hears(n)
  <2>1. sw.act.task \in Tasks /\ sw.act.task \in 0..MaxTasks /\ "clear" \in JobKinds
    BY <1>2, SessionHasTask DEF SwTyped, SwSet, Hears, JobKinds, TaskJobs, Endings
  <2> DEFINE r == ReplayJob("clear", sw.act.task)
             j == [r EXCEPT !.status = "failure"]
  <2>2. /\ r \in ReplayJobSet /\ r.kind = "clear" /\ r.task = sw.act.task /\ r.ses = NoReplaySession
        /\ r.abort = FALSE /\ r.close = FALSE /\ r.then = "none"
    BY <2>1, ReplayJobTyped, ZenonT(60)
  <2>3. ClosedJobs(n) = {j}
    BY <1>2 DEF ClosedJobs, Hears
  <2> HIDE DEF r
  <2>4. j \in ReplayJobSet
    BY <2>2 DEF ReplayJobSet, ReplayStatus
  <2>5. /\ j.kind = "clear" /\ j.task = sw.act.task /\ j.status = "failure" /\ j.ses = NoReplaySession
        /\ j.abort = FALSE /\ j.close = FALSE /\ j.then = "none"
    BY <2>2 DEF ReplayJobSet, ReplayStatus
  <2>6. IsCleanup(j, sw.act.task, "failure", FALSE, FALSE, "none")
    <3> HIDE DEF j
    <3> QED BY <2>1, <2>4, <2>5 DEF IsCleanup, JobTyped, Endings
  <2>7. ClosedSw(n, sw) = Dropped(sw)
    BY <1>2 DEF ClosedSw, Dropped, Hears
  <2> QED BY <1>2, <2>3, <2>6, <2>7
<1> QED BY <1>1, <1>2

\* The service worker's memory after a cleanup has begun.
LEMMA DroppedIs ==
  ASSUME SwTyped
  PROVE  /\ Dropped(sw).act = NoReplaySession /\ Dropped(sw).listens = sw.listens \ {sw.act.task}
         /\ Dropped(sw).rows = sw.rows /\ Dropped(sw).up = sw.up /\ Dropped(sw).port = sw.port
         /\ Dropped(sw) \in SwSet
<1>1. sw \in SwSet
  BY DEF SwTyped, SwSet
<1>2. /\ Dropped(sw).act = NoReplaySession /\ Dropped(sw).listens = sw.listens \ {sw.act.task}
      /\ Dropped(sw).rows = sw.rows
  BY <1>1 DEF Dropped, SwSet
<1>3. Dropped(sw).up = sw.up /\ Dropped(sw).port = sw.port
  BY <1>1 DEF Dropped, SwSet
<1>4. Dropped(sw) \in SwSet
  BY <1>1, NoneIsSession DEF Dropped, SwSet
<1> QED BY <1>2, <1>3, <1>4

\* Closing a tab.
LEMMA TabCloses ==
  ASSUME TabsTyped, NEW n \in 0..MaxTasks, CloseReplayTab(n)
  PROVE  tab' \in [Tasks -> TabSet] /\ \A i \in Tasks : tab'[i] = IF i = n THEN NoTab ELSE tab[i]
<1>1. NoTab \in TabSet
  BY ReplayAssumption DEF NoTab, TabSet, ReplayPages
<1>2. 0 \notin Tasks
  BY DEF Tasks
<1> QED BY <1>1, <1>2 DEF TabsTyped, CloseReplayTab

\* The chain takes on nothing: what is new is off the chain.
OffChain(j) == j.kind \notin {"create", "start"} /\ j.then = "none"

\* The chain stays sound when all that is new is off the chain.
LEMMA ChainShrinks ==
  ASSUME ChainSound, tasks' = tasks, \A j \in replayJobs' : j \in replayJobs \/ OffChain(j)
  PROVE  ChainSound'
BY DEF ChainSound, OnChain, Queued, OffChain

\* A job of the chain becomes another one.
LEMMA ChainPasses ==
  ASSUME ChainSound, tasks' = tasks, NEW j \in OnChain, NEW k,
         k.kind # "start", j.then = "answer" => k.then = "answer" /\ k.kind # "create",
         \A i \in replayJobs' : (i \in replayJobs /\ i # j) \/ i = k \/ OffChain(i)
  PROVE  ChainSound'
BY DEF ChainSound, OnChain, Queued, OffChain

\* A message of the runner, and an outside event.
LEMMA MessageIs ==
  ASSUME NEW kind \in {"context", "complete", "result", "beat"}, NEW n \in Tasks, NEW st \in ReplayStatus,
         NEW p \in 0..LastStep, NEW got \in SUBSET Values
  PROVE  /\ Message(kind, n, st, p, got) \in ReplayMessages
         /\ Message(kind, n, st, p, got).kind = kind /\ Message(kind, n, st, p, got).task = n
         /\ Message(kind, n, st, p, got).status = st /\ Message(kind, n, st, p, got).pos = p
         /\ Message(kind, n, st, p, got).got = got
BY DEF Message, ReplayMessages

\* The message that ends a run.
LEMMA CompleteIs ==
  ASSUME NEW n \in Tasks, NEW st \in ReplayStatus
  PROVE  /\ Complete(n, st) \in ReplayMessages
         /\ Complete(n, st).kind = "complete" /\ Complete(n, st).task = n /\ Complete(n, st).status = st
<1>1. 0 \in 0..LastStep /\ {} \in SUBSET Values
  BY ReplayAssumption
<1> QED BY <1>1, MessageIs DEF Complete

\* An outside event takes one from its bound.
LEMMA Spends ==
  ASSUME BoundsTyped, NEW k, SpendMishap(k)
  PROVE  replayLeft' \in [ReplayPlanKeys -> Nat] /\ \A i \in ReplayPlanKeys \ {k} : replayLeft'[i] = replayLeft[i]
<1>1. replayLeft[k] > 0 /\ replayLeft' = [replayLeft EXCEPT ![k] = @ - 1] /\ replayLeft \in [ReplayPlanKeys -> Nat]
  BY DEF BoundsTyped, SpendMishap
<1>2. k \in ReplayPlanKeys => replayLeft[k] - 1 \in Nat
  BY <1>1
<1> QED BY <1>1, <1>2

\* What is in the mail.
LEMMA Posts ==
  ASSUME WireTyped, Len(inbox) < MaxWire, NEW a \in ReplayMessages, NEW b \in ReplayMessages
  PROVE  /\ PostReplay(<<>>) => inbox' \in Seq(ReplayMessages) /\ Len(inbox') <= MaxWire + 1 /\ Mail(inbox)' = Mail(inbox)
         /\ PostReplay(<<a>>) =>
              inbox' \in Seq(ReplayMessages) /\ Len(inbox') <= MaxWire + 1 /\ Mail(inbox)' = Mail(inbox) \cup {a}
         /\ PostReplay(<<a, b>>) =>
              inbox' \in Seq(ReplayMessages) /\ Len(inbox') <= MaxWire + 1 /\ Mail(inbox)' = Mail(inbox) \cup {a, b}
<1>1. inbox \in Seq(ReplayMessages) /\ Len(inbox) \in Nat /\ MaxWire \in Nat
  BY ReplayAssumption DEF WireTyped
<1>2. /\ inbox \o <<>> \in Seq(ReplayMessages) /\ Mail(inbox \o <<>>) = Mail(inbox) /\ Len(inbox \o <<>>) = Len(inbox)
      /\ inbox \o <<a>> \in Seq(ReplayMessages) /\ Mail(inbox \o <<a>>) = Mail(inbox) \cup {a}
      /\ Len(inbox \o <<a>>) = Len(inbox) + 1
      /\ inbox \o <<a, b>> \in Seq(ReplayMessages) /\ Mail(inbox \o <<a, b>>) = Mail(inbox) \cup {a, b}
      /\ Len(inbox \o <<a, b>>) = Len(inbox) + 2
  BY <1>1, MailOfTwo
<1>3. Len(inbox) + 1 <= MaxWire + 1 /\ Len(inbox) + 2 <= MaxWire + 1 /\ Len(inbox) <= MaxWire + 1
  BY <1>1
<1>4. ASSUME NEW t, inbox' = t PROVE Mail(inbox)' = Mail(t)
  BY <1>4 DEF Mail
<1> QED BY <1>1, <1>2, <1>3, <1>4 DEF PostReplay

\* What is told to the wizard page.
LEMMA Tells ==
  ASSUME WireTyped, Len(news) < MaxWire, NEW a \in ReplayNews, NEW b \in ReplayNews
  PROVE  /\ Tell(<<>>) => news' \in Seq(ReplayNews) /\ Len(news') <= MaxWire + 1 /\ Mail(news)' = Mail(news)
         /\ Tell(<<a>>) =>
              news' \in Seq(ReplayNews) /\ Len(news') <= MaxWire + 1 /\ Mail(news)' = Mail(news) \cup {a}
         /\ Tell(<<a, b>>) =>
              news' \in Seq(ReplayNews) /\ Len(news') <= MaxWire + 1 /\ Mail(news)' = Mail(news) \cup {a, b}
<1>1. news \in Seq(ReplayNews) /\ Len(news) \in Nat /\ MaxWire \in Nat
  BY ReplayAssumption DEF WireTyped
<1>2. /\ news \o <<>> \in Seq(ReplayNews) /\ Mail(news \o <<>>) = Mail(news) /\ Len(news \o <<>>) = Len(news)
      /\ news \o <<a>> \in Seq(ReplayNews) /\ Mail(news \o <<a>>) = Mail(news) \cup {a}
      /\ Len(news \o <<a>>) = Len(news) + 1
      /\ news \o <<a, b>> \in Seq(ReplayNews) /\ Mail(news \o <<a, b>>) = Mail(news) \cup {a, b}
      /\ Len(news \o <<a, b>>) = Len(news) + 2
  BY <1>1, MailOfTwo
<1>3. Len(news) + 1 <= MaxWire + 1 /\ Len(news) + 2 <= MaxWire + 1 /\ Len(news) <= MaxWire + 1
  BY <1>1
<1>4. ASSUME NEW t, news' = t PROVE Mail(news)' = Mail(t)
  BY <1>4 DEF Mail
<1> QED BY <1>1, <1>2, <1>3, <1>4 DEF Tell

\* Every message is of a task.
LEMMA MailTyped ==
  ASSUME NEW s \in Seq(ReplayMessages)
  PROVE  \A m \in Mail(s) : m \in ReplayMessages /\ m.task \in Tasks
<1>1. Mail(s) \subseteq ReplayMessages
  BY MailOfTail
<1> QED BY <1>1 DEF ReplayMessages

\* A task that has a tab was created, and a job that deals with one names it.
LEMMA TaskIsMade ==
  ASSUME ReplayTyped, NothingAhead, NEW n \in Tasks
  PROVE  tab[n].open \/ done[n] # {} \/ ss.ctx[n] # NoContext \/ n \in ss.pay => n <= tasks /\ ~(n > tasks)
<1>1. n \in Nat /\ tasks \in Nat
  BY DEF ReplayTyped, ServerTyped, Tasks
<1>2. ~NoTab.open
  BY DEF NoTab
<1> QED BY <1>1, <1>2 DEF NothingAhead

\* Every handler but the requests of the page has a task.
LEMMA JobNamesTask ==
  ASSUME JobsTyped, NEW j \in replayJobs
  PROVE  /\ j \in ReplayJobSet
         /\ j.kind \in Endings \cup {"clear", "close", "report", "retain", "late", "boot", "update", "inject"} => j.task \in Tasks
         /\ j.kind = "restore" => j.ses.task \in Tasks
BY DEF JobsTyped, JobTyped, TaskJobs, Endings

-----------------------------------------------------------------------------
(* The replay: the runner.                                                  *)

\* A value that is kept from step to step.
LEMMA ValuesOfStep ==
  ASSUME NEW s \in Steps
  PROVE  /\ 1..s = (1..(s - 1)) \cup {s} /\ s - 1 \in 0..LastStep /\ s \in 0..LastStep /\ s \in -1..LastStep
         /\ ValuesTo(s) = ValuesTo(s - 1) \cup ({s} \cap Values)
<1>1. s \in Nat /\ 1 <= s /\ s <= LastStep /\ LastStep \in Nat
  BY ReplayAssumption DEF Steps
<1>2. 1..s = (1..(s - 1)) \cup {s} /\ s - 1 \in 0..LastStep /\ s \in 0..LastStep /\ s \in -1..LastStep
  BY <1>1
<1> QED BY <1>2 DEF ValuesTo

\* What a step of the runner does, on the page or leaving it.
LEMMA StepIs ==
  ASSUME ReplayTyped, NEW n \in Tasks, RunnerStep(n)
  PROVE  LET s == tab[n].pos + 1 IN
         /\ s \in Steps /\ tab[n].open /\ tab[n].run
         /\ \E got, m :
              /\ got = tab[n].got \cup ({s} \cap Values)
              /\ tab' \in [Tasks -> TabSet] /\ \A i \in Tasks \ {n} : tab'[i] = tab[i]
              /\ tab'[n].pos = s /\ tab'[n].ctl = s /\ tab'[n].got = got
              /\ tab'[n].open /\ ~tab'[n].abort /\ ~tab[n].abort
              /\ m \in ReplayMessages /\ m.kind = "context" /\ m.task = n /\ m.pos = s /\ m.got = got
              /\ inbox' \in Seq(ReplayMessages) /\ Len(inbox') <= MaxWire + 1 /\ Mail(inbox)' = Mail(inbox) \cup {m}
         /\ done' \in [Tasks -> SUBSET Steps] /\ done'[n] = done[n] \cup {s} /\ \A i \in Tasks \ {n} : done'[i] = done[i]
         /\ replayLeft' \in [ReplayPlanKeys -> Nat]
         /\ UNCHANGED <<sw, ss, alarms, replayJobs, news, wiz, srv, tasks, owner, replayMishaps>>
<1> DEFINE s == tab[n].pos + 1
           got == tab[n].got \cup ({s} \cap Values)
           m == Message("context", n, "none", s, got)
<1>1. tab[n] \in TabSet /\ tab \in [Tasks -> TabSet] /\ done \in [Tasks -> SUBSET Steps]
  BY DEF ReplayTyped, TabsTyped
<1>2. tab[n].pos \in 0..LastStep /\ tab[n].got \subseteq Values
  BY <1>1 DEF TabSet
<1>3. /\ tab[n].open /\ tab[n].run /\ ~tab[n].abort /\ s <= LastStep /\ Len(inbox) < MaxWire
      /\ done' = [done EXCEPT ![n] = @ \cup {s}]
      /\ UNCHANGED <<sw, ss, alarms, replayJobs, news, wiz, srv, tasks, owner, replayMishaps>>
  BY DEF RunnerStep, RunnerReady
<1>4. s \in Steps
  BY <1>2, <1>3, ReplayAssumption DEF Steps
<1>5. s \in 0..LastStep /\ s \in -1..LastStep
  BY <1>4, ValuesOfStep
<1>6. got \in SUBSET Values /\ "none" \in ReplayStatus
  BY <1>2 DEF ReplayStatus
<1>7. m \in ReplayMessages /\ m.kind = "context" /\ m.task = n /\ m.pos = s /\ m.got = got
  BY <1>5, <1>6, MessageIs
<1>8. PostReplay(<<m>>) => inbox' \in Seq(ReplayMessages) /\ Len(inbox') <= MaxWire + 1 /\ Mail(inbox)' = Mail(inbox) \cup {m}
  BY <1>3, <1>7, Posts DEF ReplayTyped
<1>9. replayLeft' \in [ReplayPlanKeys -> Nat]
  BY Spends DEF RunnerStep, ReplayTyped, BoundsTyped
<1>10. done' \in [Tasks -> SUBSET Steps] /\ done'[n] = done[n] \cup {s} /\ \A i \in Tasks \ {n} : done'[i] = done[i]
  BY <1>1, <1>3, <1>4
<1>11. CASE RunnerStays(n, s)
  <2>1. PostReplay(<<m>>) /\ tab' = [tab EXCEPT ![n] = [tab[n] EXCEPT !.pos = s, !.got = got, !.ctl = s]]
    BY <1>11 DEF RunnerStays, Checkpoint
  <2> DEFINE t == [tab[n] EXCEPT !.pos = s, !.got = got, !.ctl = s]
  <2>2. t \in TabSet /\ t.pos = s /\ t.ctl = s /\ t.got = got
    BY <1>1, <1>5, <1>6 DEF TabSet
  <2>3. t.open /\ ~t.abort
    BY <1>1, <1>3 DEF TabSet
  <2> HIDE DEF t
  <2>4. tab' = [tab EXCEPT ![n] = t]
    BY <2>1 DEF t
  <2>5. tab' \in [Tasks -> TabSet] /\ tab'[n] = t /\ \A i \in Tasks \ {n} : tab'[i] = tab[i]
    BY <1>1, <2>2, <2>4
  <2> QED BY <1>3, <1>4, <1>7, <1>8, <1>9, <1>10, <2>1, <2>2, <2>3, <2>5, ZenonT(60)
<1>12. ASSUME NEW at \in ReplayPages, RunnerLeaves(n, s, at), s \in Navigates
       PROVE  /\ PostReplay(<<m>>)
              /\ tab' \in [Tasks -> TabSet] /\ \A i \in Tasks \ {n} : tab'[i] = tab[i]
              /\ tab'[n].pos = s /\ tab'[n].ctl = s /\ tab'[n].got = got
              /\ tab'[n].open /\ ~tab'[n].abort
  <2>1. got = tab[n].got
    BY <1>12 DEF Values
  <2> DEFINE t == [[tab[n] EXCEPT !.pos = s, !.got = tab[n].got, !.ctl = s]
                     EXCEPT !.run = FALSE, !.abort = FALSE, !.load = "loading", !.at = at]
  <2>2. PostReplay(<<m>>) /\ tab' = [tab EXCEPT ![n] = t]
    BY <1>12, <2>1 DEF RunnerLeaves, Checkpoint
  <2>3. t \in TabSet
    BY <1>1, <1>5 DEF TabSet
  <2>4. t.pos = s /\ t.ctl = s /\ t.got = got
    BY <1>1, <2>1 DEF TabSet
  <2>5. t.open /\ ~t.abort
    BY <1>1, <1>3 DEF TabSet
  <2> HIDE DEF t
  <2>6. tab' \in [Tasks -> TabSet] /\ tab'[n] = t /\ \A i \in Tasks \ {n} : tab'[i] = tab[i]
    BY <1>1, <2>2, <2>3
  <2> QED BY <2>2, <2>4, <2>5, <2>6
<1>13. CASE \E at \in ReplayPages : s \in Navigates /\ RunnerLeaves(n, s, at)
  <2>1. PICK at \in ReplayPages : s \in Navigates /\ RunnerLeaves(n, s, at)
    BY <1>13
  <2> QED BY <1>3, <1>4, <1>7, <1>8, <1>9, <1>10, <1>12, <2>1
<1>14. RunnerStays(n, s) \/ \E at \in ReplayPages : s \in Navigates /\ RunnerLeaves(n, s, at)
  BY DEF RunnerStep, ReplayPages
<1> QED BY <1>11, <1>13, <1>14

\* A step of the runner keeps the invariant.
LEMMA RunnerStepKeeps ==
  ASSUME ReplayInv, NEW n \in Tasks, RunnerStep(n)
  PROVE  ReplayInv'
<1> DEFINE s == tab[n].pos + 1
<1>1. /\ s \in Steps /\ tab[n].open /\ tab[n].run
      /\ done' \in [Tasks -> SUBSET Steps] /\ done'[n] = done[n] \cup {s} /\ \A i \in Tasks \ {n} : done'[i] = done[i]
      /\ replayLeft' \in [ReplayPlanKeys -> Nat]
      /\ UNCHANGED <<sw, ss, alarms, replayJobs, news, wiz, srv, tasks, owner, replayMishaps>>
  BY StepIs DEF ReplayInv
<1>2. PICK got, m :
        /\ got = tab[n].got \cup ({s} \cap Values)
        /\ tab' \in [Tasks -> TabSet] /\ \A i \in Tasks \ {n} : tab'[i] = tab[i]
        /\ tab'[n].pos = s /\ tab'[n].ctl = s /\ tab'[n].got = got
        /\ tab'[n].open /\ ~tab'[n].abort /\ ~tab[n].abort
        /\ m \in ReplayMessages /\ m.kind = "context" /\ m.task = n /\ m.pos = s /\ m.got = got
        /\ inbox' \in Seq(ReplayMessages) /\ Len(inbox') <= MaxWire + 1 /\ Mail(inbox)' = Mail(inbox) \cup {m}
  BY StepIs DEF ReplayInv
<1>3. /\ 1..s = (1..tab[n].pos) \cup {s} /\ ValuesTo(s) = ValuesTo(tab[n].pos) \cup ({s} \cap Values)
  <2>1. s - 1 = tab[n].pos
    BY DEF ReplayInv, ReplayTyped, TabsTyped, TabSet
  <2> QED BY <1>1, <2>1, ValuesOfStep
<1>4. n <= tasks /\ ~(n > tasks)
  BY <1>1, TaskIsMade DEF ReplayInv
<1> HIDE DEF s
<1>5. ReplayTyped'
  BY <1>1, <1>2, ZenonT(60) DEF ReplayInv, ReplayTyped, SwTyped, SsTyped, TabsTyped, WizardTyped, ServerTyped, BoundsTyped,
     WireTyped, JobsTyped, JobTyped
<1>6. ChainSound'
  BY <1>1 DEF ReplayInv, ChainSound, OnChain, Queued
<1>7. NothingAhead'
  BY <1>1, <1>2, <1>4 DEF ReplayInv, NothingAhead
<1>8. BootsFirst'
  BY <1>1, <1>2, <1>4 DEF ReplayInv, BootsFirst, ReplayTyped, JobsTyped, JobTyped, TaskJobs
<1>9. ProgressIsDone'
  <2>1. \A i \in Tasks : done[i] \subseteq done'[i] /\ done'[i] \subseteq Steps
    BY <1>1
  <2>2. \A i \in Tasks : 1..tab'[i].pos \subseteq done'[i] /\ 1..tab'[i].ctl \subseteq done'[i]
    BY <1>1, <1>2, <1>3 DEF ReplayInv, ProgressIsDone
  <2>3. \A i \in Tasks : done[i] = Steps => done'[i] = Steps
    BY <2>1
  <2>4. \A x \in Mail(inbox)' : x.task \in Tasks
    BY <1>2, MailTyped
  <2>5. \A x \in Mail(inbox)' : /\ x.kind = "context" => 1..x.pos \subseteq done'[x.task]
                                /\ x.kind = "complete" /\ x.status = "success" => done'[x.task] = Steps
    BY <1>1, <1>2, <1>3, <2>1, <2>2, <2>3, <2>4 DEF ReplayInv, ProgressIsDone
  <2>6. \A j \in replayJobs : j.kind \in {"retain", "late"} => j.task \in Tasks
    BY DEF ReplayInv, ReplayTyped, JobsTyped, JobTyped, TaskJobs
  <2>7. ss.ret # 0 => ss.ret \in Tasks
    BY DEF ReplayInv, ReplayTyped, SsTyped, SsSet, Tasks
  <2> QED BY <1>1, <2>1, <2>2, <2>3, <2>5, <2>6, <2>7 DEF ReplayInv, ProgressIsDone
<1>10. ValuesAreKept'
  <2>1. ContextsKept => ContextsKept'
    BY <1>1, <1>2, <1>3 DEF ContextsKept
  <2>2. (RowsKept => RowsKept') /\ (RowsAccepted => RowsAccepted')
    BY <1>1 DEF RowsKept, RowsAccepted, Whole
  <2> QED BY <1>1, <2>1, <2>2 DEF ReplayInv, ValuesAreKept, Sighted
<1>11. OneReplay => OneReplay'
  BY <1>1 DEF OneReplay, ReplayAsked, Queued
<1>12. EndIsOwn => EndIsOwn'
  <2>1. \A i \in Tasks : done[i] = Steps => done'[i] = Steps
    BY <1>1
  <2>2. \A j \in replayJobs : j.kind \in Endings => j.task \in Tasks
    BY DEF ReplayInv, ReplayTyped, JobsTyped, JobTyped, TaskJobs
  <2>3. \A a : Ran(a) => Ran(a)'
    BY <1>1, <2>1 DEF Ran
  <2> QED BY <1>1, <2>1, <2>2, <2>3 DEF EndIsOwn
<1>13. OneRuns => OneRuns'
  <2>1. \A i : Reported(i)' <=> Reported(i)
    BY <1>1, <1>2, ReportedInMail, ReportedInMailNext
  <2>2. \A i \in Tasks : tab'[i].run => tab[i].run
    BY <1>1, <1>2
  <2>3. \A j \in replayJobs : j.kind = "clear" => j.task \in Tasks
    BY DEF ReplayInv, ReplayTyped, JobsTyped, JobTyped, TaskJobs, Endings
  <2> QED BY <1>1, <1>2, <2>1, <2>2, <2>3 DEF OneRuns
<1>14. RetainedIsLeft => RetainedIsLeft'
  BY <1>1 DEF RetainedIsLeft
<1> QED BY <1>1, <1>5, <1>6, <1>7, <1>8, <1>9, <1>10, <1>11, <1>12, <1>13, <1>14 DEF ReplayInv, WhenClean, Clean

\* What the end of a run does.
LEMMA RunnerEndIs ==
  ASSUME ReplayTyped, NEW n \in Tasks, RunnerEnd(n)
  PROVE  /\ tab[n].open /\ tab[n].run
         /\ tab' \in [Tasks -> TabSet] /\ \A i \in Tasks \ {n} : tab'[i] = tab[i]
         /\ tab'[n].pos = tab[n].pos /\ tab'[n].got = tab[n].got /\ tab'[n].ctl = -1
         /\ tab'[n].open /\ ~tab'[n].run
         /\ \E M \in SUBSET ReplayMessages :
              /\ inbox' \in Seq(ReplayMessages) /\ Len(inbox') <= MaxWire + 1 /\ Mail(inbox)' = Mail(inbox) \cup M
              /\ \A m \in M : /\ m.task = n /\ m.kind \in {"complete", "result"}
                              /\ m.kind = "result" => m.got = tab[n].got /\ tab[n].pos = LastStep
                              /\ m.kind = "complete" /\ m.status = "success" => tab[n].pos = LastStep
         /\ replayLeft' \in [ReplayPlanKeys -> Nat]
         /\ UNCHANGED <<sw, ss, alarms, replayJobs, news, wiz, srv, tasks, owner, done, replayMishaps>>
<1>1. tab[n] \in TabSet /\ tab \in [Tasks -> TabSet]
  BY DEF ReplayTyped, TabsTyped
<1>2. tab[n].got \in SUBSET Values /\ 0 \in 0..LastStep /\ -1 \in -1..LastStep
  BY <1>1, ReplayAssumption DEF TabSet
<1>3. /\ tab[n].open /\ tab[n].run /\ Len(inbox) < MaxWire
      /\ tab' = [tab EXCEPT ![n] = Ended(tab[n])]
      /\ UNCHANGED <<sw, ss, alarms, replayJobs, news, wiz, srv, tasks, owner, done, replayMishaps>>
  BY DEF RunnerEnd, RunnerReady
<1> DEFINE t == Ended(tab[n])
<1>4. t \in TabSet
  BY <1>1, <1>2 DEF TabSet, Ended
<1>5. t.pos = tab[n].pos /\ t.got = tab[n].got /\ t.ctl = -1
  BY <1>1 DEF TabSet, Ended
<1>6. t.open /\ ~t.run
  BY <1>1, <1>3 DEF TabSet, Ended
<1> HIDE DEF t
<1>7. tab' \in [Tasks -> TabSet] /\ tab'[n] = t /\ \A i \in Tasks \ {n} : tab'[i] = tab[i]
  BY <1>1, <1>3, <1>4 DEF t
<1>8. replayLeft' \in [ReplayPlanKeys -> Nat]
  BY Spends DEF RunnerEnd, ReplayTyped, BoundsTyped
<1>9. ASSUME NEW st \in ReplayStatus, PostReplay(<<Complete(n, st)>>), st = "success" => tab[n].pos = LastStep
      PROVE  \E M \in SUBSET ReplayMessages :
              /\ inbox' \in Seq(ReplayMessages) /\ Len(inbox') <= MaxWire + 1 /\ Mail(inbox)' = Mail(inbox) \cup M
              /\ \A m \in M : /\ m.task = n /\ m.kind \in {"complete", "result"}
                              /\ m.kind = "result" => m.got = tab[n].got /\ tab[n].pos = LastStep
                              /\ m.kind = "complete" /\ m.status = "success" => tab[n].pos = LastStep
  <2> DEFINE a == Complete(n, st)
  <2>1. a \in ReplayMessages /\ a.kind = "complete" /\ a.task = n /\ a.status = st
    BY CompleteIs
  <2>2. inbox' \in Seq(ReplayMessages) /\ Len(inbox') <= MaxWire + 1 /\ Mail(inbox)' = Mail(inbox) \cup {a}
    BY <1>3, <1>9, <2>1, Posts DEF ReplayTyped
  <2> HIDE DEF a
  <2>3. {a} \in SUBSET ReplayMessages
    BY <2>1
  <2> QED BY <1>9, <2>1, <2>2, <2>3
<1>10. ASSUME PostReplay(<<Message("result", n, "none", 0, tab[n].got), Complete(n, "success")>>), tab[n].pos = LastStep
      PROVE  \E M \in SUBSET ReplayMessages :
              /\ inbox' \in Seq(ReplayMessages) /\ Len(inbox') <= MaxWire + 1 /\ Mail(inbox)' = Mail(inbox) \cup M
              /\ \A m \in M : /\ m.task = n /\ m.kind \in {"complete", "result"}
                              /\ m.kind = "result" => m.got = tab[n].got /\ tab[n].pos = LastStep
                              /\ m.kind = "complete" /\ m.status = "success" => tab[n].pos = LastStep
  <2> DEFINE a == Message("result", n, "none", 0, tab[n].got)
             b == Complete(n, "success")
  <2>1. "none" \in ReplayStatus /\ "success" \in ReplayStatus
    BY DEF ReplayStatus
  <2>2. a \in ReplayMessages /\ a.kind = "result" /\ a.task = n /\ a.got = tab[n].got
    BY <1>2, <2>1, MessageIs
  <2>3. b \in ReplayMessages /\ b.kind = "complete" /\ b.task = n
    BY <2>1, CompleteIs
  <2>4. inbox' \in Seq(ReplayMessages) /\ Len(inbox') <= MaxWire + 1 /\ Mail(inbox)' = Mail(inbox) \cup {a, b}
    BY <1>3, <1>10, <2>2, <2>3, Posts DEF ReplayTyped
  <2> HIDE DEF a, b
  <2>5. {a, b} \in SUBSET ReplayMessages
    BY <2>2, <2>3
  <2> QED BY <1>10, <2>2, <2>3, <2>4, <2>5
<1>11. /\ "cancelled" \in ReplayStatus /\ "failure" \in ReplayStatus
  BY DEF ReplayStatus
<1>12. \/ PostReplay(<<Complete(n, "cancelled")>>) \/ PostReplay(<<Complete(n, "failure")>>)
       \/ tab[n].pos = LastStep /\ PostReplay(<<Message("result", n, "none", 0, tab[n].got), Complete(n, "success")>>)
  BY DEF RunnerEnd
<1> QED BY <1>3, <1>5, <1>6, <1>7, <1>8, <1>9, <1>10, <1>11, <1>12

\* The end of a run keeps the invariant.
LEMMA RunnerEndKeeps ==
  ASSUME ReplayInv, NEW n \in Tasks, RunnerEnd(n)
  PROVE  ReplayInv'
<1>1. /\ tab[n].open /\ tab[n].run
      /\ tab' \in [Tasks -> TabSet] /\ \A i \in Tasks \ {n} : tab'[i] = tab[i]
      /\ tab'[n].pos = tab[n].pos /\ tab'[n].got = tab[n].got /\ tab'[n].ctl = -1
      /\ tab'[n].open /\ ~tab'[n].run
      /\ replayLeft' \in [ReplayPlanKeys -> Nat]
      /\ UNCHANGED <<sw, ss, alarms, replayJobs, news, wiz, srv, tasks, owner, done, replayMishaps>>
  BY RunnerEndIs DEF ReplayInv
<1>2. PICK M \in SUBSET ReplayMessages :
        /\ inbox' \in Seq(ReplayMessages) /\ Len(inbox') <= MaxWire + 1 /\ Mail(inbox)' = Mail(inbox) \cup M
        /\ \A m \in M : /\ m.task = n /\ m.kind \in {"complete", "result"}
                        /\ m.kind = "result" => m.got = tab[n].got /\ tab[n].pos = LastStep
                        /\ m.kind = "complete" /\ m.status = "success" => tab[n].pos = LastStep
  BY RunnerEndIs DEF ReplayInv
<1>3. n <= tasks /\ ~(n > tasks)
  BY <1>1, TaskIsMade DEF ReplayInv
<1>4. tab[n].pos = LastStep => done[n] = Steps
  BY DEF ReplayInv, ProgressIsDone, ReplayTyped, TabsTyped, Steps
<1>5. 1..(-1) = {} /\ ValuesTo(LastStep) = Values
  BY DEF ValuesTo, Values, Steps
<1>6. ReplayTyped'
  BY <1>1, <1>2 DEF ReplayInv, ReplayTyped, SwTyped, SsTyped, TabsTyped, WizardTyped, ServerTyped, BoundsTyped,
     WireTyped, JobsTyped, JobTyped
<1>7. ChainSound'
  BY <1>1 DEF ReplayInv, ChainSound, OnChain, Queued
<1>8. NothingAhead'
  BY <1>1, <1>2, <1>3 DEF ReplayInv, NothingAhead
<1>9. BootsFirst'
  BY <1>1, <1>2, JobNamesTask DEF ReplayInv, BootsFirst, ReplayTyped
<1>10. ProgressIsDone'
  BY <1>1, <1>2, <1>4, <1>5 DEF ReplayInv, ProgressIsDone
<1>11. ValuesAreKept'
  <2>1. tab[n].got \subseteq Values
    BY DEF ReplayInv, ReplayTyped, TabsTyped, TabSet
  <2>2. ContextsKept => ContextsKept'
    <3>1. ContextsKept /\ tab[n].pos = LastStep => tab[n].got = Values
      BY <1>1, <1>5, <2>1 DEF ContextsKept
    <3> QED BY <1>1, <1>2, <3>1 DEF ContextsKept
  <2>3. (RowsKept => RowsKept') /\ (RowsAccepted => RowsAccepted')
    BY <1>1 DEF RowsKept, RowsAccepted, Whole
  <2> QED BY <1>1, <2>2, <2>3 DEF ReplayInv, ValuesAreKept, Sighted
<1>12. (OneReplay => OneReplay') /\ (EndIsOwn => EndIsOwn') /\ (RetainedIsLeft => RetainedIsLeft')
  BY <1>1 DEF OneReplay, ReplayAsked, Queued, EndIsOwn, Ran, RetainedIsLeft
<1>13. OneRuns => OneRuns'
  <2>1. \A i : Reported(i)' => Reported(i) \/ i = n
    BY <1>1, <1>2, ReportedInMail, ReportedInMailNext
  <2>2. \A j \in replayJobs : j.kind = "clear" => j.task \in Tasks
    BY JobNamesTask DEF ReplayInv, ReplayTyped
  <2> QED BY <1>1, <2>1, <2>2 DEF OneRuns
<1> QED BY <1>1, <1>6, <1>7, <1>8, <1>9, <1>10, <1>11, <1>12, <1>13 DEF ReplayInv, WhenClean, Clean

\* A heartbeat keeps the invariant.
LEMMA RunnerBeatKeeps ==
  ASSUME ReplayInv, NEW n \in Tasks, RunnerBeat(n)
  PROVE  ReplayInv'
<1> DEFINE m == Message("beat", n, "none", 0, {})
<1>1. /\ tab[n].open /\ tab[n].run /\ Len(inbox) < MaxWire /\ PostReplay(<<m>>) /\ SpendMishap("beat")
      /\ UNCHANGED <<sw, ss, alarms, replayJobs, tab, news, wiz, srv, tasks, owner, done, replayMishaps>>
  BY DEF RunnerBeat, RunnerReady
<1>2. m \in ReplayMessages /\ m.kind = "beat" /\ m.task = n
  <2>1. 0 \in 0..LastStep /\ "none" \in ReplayStatus
    BY ReplayAssumption DEF ReplayStatus
  <2> QED BY <2>1, MessageIs
<1>3. inbox' \in Seq(ReplayMessages) /\ Len(inbox') <= MaxWire + 1 /\ Mail(inbox)' = Mail(inbox) \cup {m}
  BY <1>1, <1>2, Posts DEF ReplayInv, ReplayTyped
<1>4. replayLeft' \in [ReplayPlanKeys -> Nat]
  BY <1>1, Spends DEF ReplayInv, ReplayTyped
<1>5. n <= tasks /\ ~(n > tasks)
  BY <1>1, TaskIsMade DEF ReplayInv
<1> HIDE DEF m
<1>6. ReplayTyped'
  BY <1>1, <1>3, <1>4 DEF ReplayInv, ReplayTyped, SwTyped, SsTyped, TabsTyped, WizardTyped, ServerTyped, BoundsTyped,
     WireTyped, JobsTyped, JobTyped
<1>7. ChainSound'
  BY <1>1 DEF ReplayInv, ChainSound, OnChain, Queued
<1>8. NothingAhead'
  BY <1>1, <1>2, <1>3, <1>5 DEF ReplayInv, NothingAhead
<1>9. BootsFirst'
  BY <1>1, <1>2, <1>3 DEF ReplayInv, BootsFirst
<1>10. ProgressIsDone'
  BY <1>1, <1>2, <1>3 DEF ReplayInv, ProgressIsDone
<1>11. ValuesAreKept'
  BY <1>1, <1>2, <1>3 DEF ReplayInv, ValuesAreKept, Sighted, ContextsKept, RowsKept, RowsAccepted, Whole
<1>12. (OneReplay => OneReplay') /\ (EndIsOwn => EndIsOwn') /\ (RetainedIsLeft => RetainedIsLeft')
  BY <1>1 DEF OneReplay, ReplayAsked, Queued, EndIsOwn, Ran, RetainedIsLeft
<1>13. OneRuns => OneRuns'
  <2>1. \A i : Reported(i)' <=> Reported(i)
    BY <1>1, <1>2, <1>3, ReportedInMail, ReportedInMailNext
  <2> QED BY <1>1, <2>1 DEF OneRuns
<1> QED BY <1>1, <1>6, <1>7, <1>8, <1>9, <1>10, <1>11, <1>12, <1>13 DEF ReplayInv, WhenClean, Clean

-----------------------------------------------------------------------------
(* The replay: documents load, the service worker starts.                   *)

\* No tab has no runner and no progress.
LEMMA NoTabIs ==
  /\ ~NoTab.open /\ ~NoTab.run /\ ~NoTab.abort /\ NoTab.pos = 0 /\ NoTab.ctl = -1 /\ NoTab.got = {}
  /\ 1..NoTab.pos = {} /\ 1..NoTab.ctl = {}
BY DEF NoTab

\* Zero is the name of no task.
LEMMA ZeroIsNone == 0 \notin Tasks /\ 0 \in 0..MaxTasks /\ Tasks \subseteq 0..MaxTasks
BY ReplayAssumption DEF Tasks

\* The handler of a loaded document (onTabUpdated).
LEMMA UpdateJob ==
  ASSUME NEW n \in Tasks, NEW s \in StoredSession
  PROVE  LET j == [ReplayJob("update", n) EXCEPT !.ses = s] IN
         JobTyped(j) /\ j.kind = "update" /\ j.task = n /\ j.ses = s /\ j.then = "none"
<1> DEFINE r == ReplayJob("update", n)
           j == [r EXCEPT !.ses = s]
<1>1. n \in 0..MaxTasks /\ "update" \in JobKinds
  BY ZeroIsNone DEF JobKinds, TaskJobs
<1>2. r \in ReplayJobSet /\ r.kind = "update" /\ r.task = n /\ r.then = "none"
  BY <1>1, ReplayJobTyped, ZenonT(60)
<1> HIDE DEF r
<1>3. j \in ReplayJobSet
  BY <1>2 DEF ReplayJobSet
<1>4. j.kind = "update" /\ j.task = n /\ j.ses = s /\ j.then = "none"
  BY <1>2 DEF ReplayJobSet
<1>5. JobTyped(j)
  <2> HIDE DEF j
  <2> QED BY <1>3, <1>4 DEF JobTyped
<1> QED BY <1>4, <1>5 DEF r

\* A document that loads keeps the invariant.
LEMMA ReplayTabLoadedKeeps ==
  ASSUME ReplayInv, NEW n \in Tasks, ReplayTabLoaded(n)
  PROVE  ReplayInv'
<1>1. /\ tab[n].open
      /\ tab' = [tab EXCEPT ![n].load = "complete"]
      /\ UNCHANGED <<sw, ss, alarms, inbox, news, wiz, srv, tasks, owner, done, replayLeft, replayMishaps>>
  BY DEF ReplayTabLoaded
<1>2. tab[n] \in TabSet /\ tab \in [Tasks -> TabSet]
  BY DEF ReplayInv, ReplayTyped, TabsTyped
<1> DEFINE t == [tab[n] EXCEPT !.load = "complete"]
<1>3. t \in TabSet /\ t.pos = tab[n].pos /\ t.got = tab[n].got /\ t.ctl = tab[n].ctl
  BY <1>2 DEF TabSet
<1>4. t.open /\ (t.run <=> tab[n].run) /\ (t.abort <=> tab[n].abort)
  BY <1>1, <1>2 DEF TabSet
<1> HIDE DEF t
<1>5. tab' \in [Tasks -> TabSet] /\ tab'[n] = t /\ \A i \in Tasks \ {n} : tab'[i] = tab[i]
  BY <1>1, <1>2, <1>3 DEF t
<1>6. \A j \in replayJobs' : j \in replayJobs \/ (JobTyped(j) /\ j.kind = "update" /\ j.task = n /\ j.ses = sw.act /\ j.then = "none")
  <2>1. sw.act \in StoredSession
    BY DEF ReplayInv, ReplayTyped, SwTyped, SwSet
  <2> DEFINE u == [ReplayJob("update", n) EXCEPT !.ses = sw.act]
  <2>2. JobTyped(u) /\ u.kind = "update" /\ u.task = n /\ u.ses = sw.act /\ u.then = "none"
    BY <2>1, UpdateJob
  <2>3. replayJobs' = replayJobs \cup {u} \/ replayJobs' = replayJobs
    BY DEF ReplayTabLoaded
  <2> HIDE DEF u
  <2> QED BY <2>2, <2>3
<1>7. n <= tasks /\ ~(n > tasks)
  BY <1>1, TaskIsMade DEF ReplayInv
<1>8. ReplayTyped'
  BY <1>1, <1>4, <1>5, <1>6 DEF ReplayInv, ReplayTyped, SwTyped, SsTyped, TabsTyped, WizardTyped, ServerTyped, BoundsTyped,
     WireTyped, JobsTyped
<1>9. JobsTyped'
  BY <1>8 DEF ReplayTyped
<1>10. ChainSound'
  BY <1>1, <1>6, ChainShrinks DEF ReplayInv, OffChain
<1>11. NothingAhead'
  BY <1>1, <1>5, <1>6, <1>7 DEF ReplayInv, NothingAhead
<1>12. \A i \in Tasks : /\ tab'[i].pos = tab[i].pos /\ tab'[i].got = tab[i].got /\ tab'[i].ctl = tab[i].ctl
                        /\ (tab'[i].run <=> tab[i].run) /\ (tab'[i].abort <=> tab[i].abort)
  BY <1>3, <1>4, <1>5
<1>13. BootsFirst'
  BY <1>1, <1>6, <1>12, JobNamesTask DEF ReplayInv, ReplayTyped, BootsFirst
<1>14. ProgressIsDone'
  BY <1>1, <1>6, <1>12 DEF ReplayInv, ProgressIsDone
<1>15. ValuesAreKept'
  BY <1>1, <1>12 DEF ReplayInv, ValuesAreKept, Sighted, ContextsKept, RowsKept, RowsAccepted, Whole
<1>16. (OneReplay => OneReplay') /\ (EndIsOwn => EndIsOwn') /\ (RetainedIsLeft => RetainedIsLeft')
  BY <1>1, <1>6 DEF OneReplay, ReplayAsked, Queued, EndIsOwn, Ran, RetainedIsLeft, Endings
<1>17. OneRuns => OneRuns'
  <2>1. \A i : Reported(i)' => Reported(i)
    BY <1>1, <1>6, ReportedInMail, ReportedInMailNext
  <2>2. \A j \in replayJobs : j.kind = "clear" => j.task \in Tasks
    BY JobNamesTask DEF ReplayInv, ReplayTyped
  <2> QED BY <1>1, <1>6, <1>12, <2>1, <2>2 DEF OneRuns, Endings
<1> QED BY <1>1, <1>8, <1>10, <1>11, <1>13, <1>14, <1>15, <1>16, <1>17 DEF ReplayInv, WhenClean, Clean

\* Handlers that are no cleanup, no request and no report are started, or others end.
LEMMA PlainJobsKeep ==
  ASSUME ReplayInv,
         \A j \in replayJobs' : j \in replayJobs \/
           (JobTyped(j) /\ j.kind \in {"update", "inject", "recover", "restore"} /\ j.task <= tasks /\ j.ses.task <= tasks
             /\ j.then = "none"),
         UNCHANGED <<ss, alarms, tab, inbox, news, wiz, srv, tasks, owner, done, replayLeft, replayMishaps>>,
         SwTyped', sw'.act = sw.act, sw'.listens = sw.listens, sw'.rows = sw.rows
  PROVE  ReplayInv'
<1>1. ReplayTyped'
  BY DEF ReplayInv, ReplayTyped, SsTyped, TabsTyped, WizardTyped, ServerTyped, BoundsTyped, WireTyped, JobsTyped
<1>2. ChainSound'
  BY ChainShrinks DEF ReplayInv, OffChain
<1>3. NothingAhead'
  BY DEF ReplayInv, NothingAhead
<1>4. BootsFirst' /\ ProgressIsDone'
  BY DEF ReplayInv, BootsFirst, ProgressIsDone
<1>5. ValuesAreKept'
  BY DEF ReplayInv, ValuesAreKept, Sighted, ContextsKept, RowsKept, RowsAccepted, Whole
<1>6. (OneReplay => OneReplay') /\ (EndIsOwn => EndIsOwn') /\ (RetainedIsLeft => RetainedIsLeft')
  BY DEF OneReplay, ReplayAsked, Queued, EndIsOwn, Ran, RetainedIsLeft, Endings
<1>7. OneRuns => OneRuns'
  <2>1. \A i : Reported(i)' => Reported(i)
    BY ReportedInMail, ReportedInMailNext
  <2> QED BY <2>1 DEF OneRuns, Endings
<1> QED BY <1>1, <1>2, <1>3, <1>4, <1>5, <1>6, <1>7 DEF ReplayInv, WhenClean, Clean

\* The start of the service worker keeps the invariant.
LEMMA WakeKeeps ==
  ASSUME ReplayInv, Wake
  PROVE  ReplayInv'
<1>1. /\ sw' = [sw EXCEPT !.up = TRUE] /\ replayJobs' = {ReplayJob("recover", 0)}
      /\ UNCHANGED <<ss, alarms, tab, inbox, news, wiz, srv, tasks, owner, done, replayLeft, replayMishaps>>
  BY DEF Wake
<1>2. sw \in SwSet /\ OfTask(sw.act) /\ 0 <= tasks
  BY DEF ReplayInv, ReplayTyped, SwTyped, ServerTyped
<1>3. sw'.act = sw.act /\ sw'.listens = sw.listens /\ sw'.rows = sw.rows /\ sw' \in SwSet
  BY <1>1, <1>2 DEF SwSet
<1>4. SwTyped'
  BY <1>2, <1>3 DEF SwTyped, OfTask
<1>5. /\ JobTyped(ReplayJob("recover", 0)) /\ ReplayJob("recover", 0).kind = "recover" /\ ReplayJob("recover", 0).task = 0
      /\ ReplayJob("recover", 0).ses = NoReplaySession /\ ReplayJob("recover", 0).then = "none"
  <2>1. "recover" \in JobKinds /\ "recover" \notin TaskJobs
    BY DEF JobKinds, TaskJobs, Endings
  <2> QED BY <2>1, ZeroIsNone, ReplayJobTyped, ZenonT(60)
<1> QED BY <1>1, <1>2, <1>3, <1>4, <1>5, NoneIsSession, PlainJobsKeep

\* The recovery that reads the stored session keeps the invariant.
LEMMA RecoverKeeps ==
  ASSUME ReplayInv, NEW j \in replayJobs, Recover(j)
  PROVE  ReplayInv'
<1>1. /\ j.kind = "recover"
      /\ UNCHANGED <<sw, ss, alarms, tab, inbox, news, wiz, srv, tasks, owner, done, replayLeft, replayMishaps>>
  BY DEF Recover, ReplayRunning
<1> DEFINE k == [j EXCEPT !.kind = "restore", !.ses = ss.ses]
<1>2. \A i \in replayJobs' : i \in replayJobs \/ (ss.ses # NoReplaySession /\ i = k)
  BY DEF Recover, Replace
<1>3. ss.ses \in StoredSession /\ OfTask(ss.ses) /\ j \in ReplayJobSet /\ j.then = "none"
  BY <1>1, JobNamesTask DEF ReplayInv, ReplayTyped, SsTyped, SsSet, JobsTyped, JobTyped, Endings
<1>4. k \in ReplayJobSet
  BY <1>3 DEF ReplayJobSet, JobKinds
<1>5. k.kind = "restore" /\ k.ses = ss.ses /\ k.task = j.task /\ k.then = "none"
  BY <1>3 DEF ReplayJobSet
<1>6. ss.ses # NoReplaySession => JobTyped(k)
  <2> HIDE DEF k
  <2> QED BY <1>3, <1>4, <1>5, SessionHasTask DEF JobTyped, TaskJobs, Endings
<1>7. k.task <= tasks /\ k.ses.task <= tasks
  <2> HIDE DEF k
  <2> QED BY <1>5 DEF ReplayInv, NothingAhead
<1> HIDE DEF k
<1> QED BY <1>1, <1>2, <1>5, <1>6, <1>7, PlainJobsKeep DEF ReplayInv, ReplayTyped, SwTyped

-----------------------------------------------------------------------------
(* The replay: tabs are closed.                                             *)

\* A tab is closed, and whoever listens ends the active replay.
LEMMA ClosingIs ==
  ASSUME SwTyped, NEW n
  PROVE  /\ ClosedSw(n, sw) \in SwSet /\ OfTask(ClosedSw(n, sw).act)
         /\ ClosedSw(n, sw).rows = sw.rows
         /\ ~Hears(n) => ClosedJobs(n) = {} /\ ClosedSw(n, sw) = sw
         /\ Hears(n) => /\ ClosedSw(n, sw).act = NoReplaySession
                        /\ ClosedSw(n, sw).listens = sw.listens \ {sw.act.task}
                        /\ \E k : ClosedJobs(n) = {k} /\ IsCleanup(k, sw.act.task, "failure", FALSE, FALSE, "none")
BY ClosedIs, DroppedIs, NoneIsSession DEF SwTyped

\* The release of a retained tab keeps the invariant.
LEMMA ReleaseRetainedKeeps ==
  ASSUME ReplayInv, NEW j \in replayJobs, ReleaseRetained(j)
  PROVE  ReplayInv'
<1>1. /\ ss' = [ss EXCEPT !.ret = 0] /\ CloseReplayTab(ss.ret) /\ SpendMishap("ttl")
      /\ UNCHANGED <<sw, alarms, replayJobs, inbox, news, wiz, srv, tasks, owner, done, replayMishaps>>
  BY DEF ReleaseRetained
<1>2. ss \in SsSet /\ ss.ret \in 0..MaxTasks
  BY DEF ReplayInv, ReplayTyped, SsTyped, SsSet
<1>3. /\ ss' \in SsSet /\ ss'.ses = ss.ses /\ ss'.pay = ss.pay /\ ss'.ctx = ss.ctx /\ ss'.rows = ss.rows
      /\ ss'.dsl = ss.dsl /\ ss'.ret = 0
  BY <1>1, <1>2, ZeroIsNone DEF SsSet
<1>4. tab' \in [Tasks -> TabSet] /\ \A i \in Tasks : tab'[i] = NoTab \/ tab'[i] = tab[i]
  BY <1>1, <1>2, TabCloses DEF ReplayInv, ReplayTyped
<1>5. replayLeft' \in [ReplayPlanKeys -> Nat]
  BY <1>1, Spends DEF ReplayInv, ReplayTyped
<1>6. ReplayTyped'
  BY <1>1, <1>3, <1>4, <1>5 DEF ReplayInv, ReplayTyped, SwTyped, SsTyped, OfTask, TabsTyped, WizardTyped, ServerTyped, BoundsTyped,
     WireTyped, JobsTyped, JobTyped
<1>7. ChainSound'
  BY <1>1 DEF ReplayInv, ChainSound, OnChain, Queued
<1>8. NothingAhead'
  BY <1>1, <1>3, <1>4 DEF ReplayInv, NothingAhead, ReplayTyped, ServerTyped
<1>9. BootsFirst'
  BY <1>1, <1>3, <1>4, NoTabIs, JobNamesTask DEF ReplayInv, ReplayTyped, BootsFirst
<1>10. ProgressIsDone'
  BY <1>1, <1>3, <1>4, NoTabIs DEF ReplayInv, ProgressIsDone
<1>11. ValuesAreKept'
  <2>1. ContextsKept => ContextsKept'
    BY <1>1, <1>3, <1>4, NoTabIs DEF ContextsKept
  <2> QED BY <1>1, <1>3, <2>1 DEF ReplayInv, ValuesAreKept, Sighted, RowsKept, RowsAccepted, Whole
<1>12. (OneReplay => OneReplay') /\ (EndIsOwn => EndIsOwn') /\ (RetainedIsLeft => RetainedIsLeft')
  BY <1>1, <1>3 DEF OneReplay, ReplayAsked, Queued, EndIsOwn, Ran, RetainedIsLeft
<1>13. OneRuns => OneRuns'
  <2>1. \A i : Reported(i)' => Reported(i)
    BY <1>1, ReportedInMail, ReportedInMailNext
  <2>2. \A i \in Tasks : (tab'[i].run => tab[i].run) /\ (tab'[i].run /\ ~tab'[i].abort => tab[i].run /\ ~tab[i].abort)
    BY <1>4, NoTabIs
  <2>3. \A k \in replayJobs : k.kind = "clear" => k.task \in Tasks
    BY JobNamesTask DEF ReplayInv, ReplayTyped
  <2> QED BY <1>1, <1>3, <2>1, <2>2, <2>3 DEF OneRuns
<1> QED BY <1>1, <1>6, <1>7, <1>8, <1>9, <1>10, <1>11, <1>12, <1>13 DEF ReplayInv, WhenClean, Clean

\* A tab closed by the user keeps the invariant.
LEMMA UserClosesKeeps ==
  ASSUME ReplayInv, NEW n \in Tasks, UserCloses(n)
  PROVE  ReplayInv'
<1>1. /\ tab[n].open /\ SpendMishap("close") /\ CloseReplayTab(n)
      /\ sw' = ClosedSw(n, sw) /\ replayJobs' = replayJobs \cup ClosedJobs(n)
      /\ UNCHANGED <<ss, alarms, inbox, news, wiz, srv, tasks, owner, done, replayMishaps>>
  BY DEF UserCloses
<1>2. tab' \in [Tasks -> TabSet] /\ tab'[n] = NoTab /\ \A i \in Tasks : tab'[i] = NoTab \/ tab'[i] = tab[i]
  BY <1>1, ZeroIsNone, TabCloses DEF ReplayInv, ReplayTyped
<1>3. replayLeft' \in [ReplayPlanKeys -> Nat]
  BY <1>1, Spends DEF ReplayInv, ReplayTyped
<1>4. /\ sw' \in SwSet /\ OfTask(sw'.act) /\ sw'.rows = sw.rows
      /\ ~Hears(n) => replayJobs' = replayJobs /\ sw' = sw
      /\ Hears(n) => sw'.act = NoReplaySession /\ sw'.listens = sw.listens \ {sw.act.task} /\ sw.act # NoReplaySession
  BY <1>1, ClosingIs DEF ReplayInv, ReplayTyped, Hears
<1>5. \A j \in replayJobs' : j \in replayJobs \/ (Hears(n) /\ IsCleanup(j, sw.act.task, "failure", FALSE, FALSE, "none"))
  BY <1>1, ClosingIs DEF ReplayInv, ReplayTyped
<1>6. sw'.act.task <= tasks
  BY <1>4, NoneIsSession DEF ReplayInv, NothingAhead, ReplayTyped, ServerTyped
<1>7. ReplayTyped'
  BY <1>1, <1>2, <1>3, <1>4, <1>5 DEF ReplayInv, ReplayTyped, SwTyped, SsTyped, TabsTyped, WizardTyped, ServerTyped, BoundsTyped,
     WireTyped, JobsTyped, IsCleanup
<1>8. ChainSound'
  BY <1>1, <1>5, ChainShrinks DEF ReplayInv, OffChain, IsCleanup
<1>9. NothingAhead'
  BY <1>1, <1>2, <1>5, <1>6, NoneIsSession DEF ReplayInv, NothingAhead, ReplayTyped, ServerTyped, IsCleanup
<1>10. BootsFirst'
  BY <1>1, <1>2, <1>5, NoTabIs, JobNamesTask DEF ReplayInv, ReplayTyped, BootsFirst, IsCleanup
<1>11. ProgressIsDone'
  BY <1>1, <1>2, <1>5, NoTabIs DEF ReplayInv, ProgressIsDone, IsCleanup
<1>12. ValuesAreKept'
  <2>1. ContextsKept => ContextsKept'
    BY <1>1, <1>2, NoTabIs DEF ContextsKept
  <2> QED BY <1>1, <1>4, <2>1 DEF ReplayInv, ValuesAreKept, Sighted, RowsKept, RowsAccepted, Whole
<1>13. OneReplay => OneReplay'
  <2>1. OneReplay /\ Hears(n) => sw.act.task = tasks /\ sw.listens = {sw.act.task}
    BY SessionHasTask DEF OneReplay, Hears, ReplayInv, ReplayTyped, SwTyped, SwSet
  <2>2. OneReplay /\ Hears(n) => ~ReplayAsked
    BY DEF OneReplay, Hears
  <2>3. ReplayAsked' <=> ReplayAsked
    BY <1>1, <1>5 DEF ReplayAsked, Queued, IsCleanup
  <2>4. Queued("create")' <=> Queued("create")
    BY <1>1, <1>5 DEF Queued, IsCleanup
  <2>5. CASE Hears(n)
    BY <1>1, <1>4, <1>5, <2>1, <2>2, <2>3, <2>4, <2>5, NoneIsSession DEF OneReplay, IsCleanup, ReplayAsked
  <2>6. CASE ~Hears(n)
    BY <1>1, <1>4, <2>3, <2>4, <2>6 DEF OneReplay
  <2> QED BY <2>5, <2>6
<1>14. EndIsOwn => EndIsOwn'
  BY <1>1, <1>4, <1>5 DEF EndIsOwn, Ran, IsCleanup
<1>15. OneReplay /\ OneRuns => OneRuns'
  <2>1. \A i : Reported(i)' => Reported(i)
    BY <1>1, <1>5, ReportedInMail, ReportedInMailNext DEF IsCleanup
  <2>2. \A i \in Tasks : (tab'[i].run => tab[i].run) /\ (tab'[i].run /\ ~tab'[i].abort => tab[i].run /\ ~tab[i].abort)
    BY <1>2, NoTabIs
  <2>3. \A k \in replayJobs : k.kind = "clear" => k.task \in Tasks
    BY JobNamesTask DEF ReplayInv, ReplayTyped
  <2>4. OneReplay /\ Hears(n) => n = sw.act.task
    BY DEF OneReplay, Hears
  <2> QED BY <1>1, <1>2, <1>4, <1>5, <2>1, <2>2, <2>3, <2>4, NoTabIs DEF OneRuns, IsCleanup
<1>16. RetainedIsLeft => RetainedIsLeft'
  BY <1>1, <1>4, <1>5 DEF RetainedIsLeft, IsCleanup
<1> QED BY <1>1, <1>7, <1>8, <1>9, <1>10, <1>11, <1>12, <1>13, <1>14, <1>15, <1>16 DEF ReplayInv, WhenClean, Clean

-----------------------------------------------------------------------------
(* The replay: the cleanup.                                                 *)

\* No context has no progress and no values.
LEMMA NoContextIs ==
  /\ NoContext \in [pos : -1..LastStep, got : SUBSET Values] /\ NoContext.pos = -1 /\ NoContext.got = {}
  /\ 1..NoContext.pos = {} /\ ValuesTo(NoContext.pos) = {}
<1>1. NoContext.pos = -1 /\ NoContext.got = {} /\ 1..(-1) = {} /\ -1 \in -1..LastStep
  BY ReplayAssumption DEF NoContext
<1> QED BY <1>1 DEF NoContext, ValuesTo

\* The job goes on to its next part.
LEMMA CleanupGoesOn ==
  ASSUME JobsTyped, NEW j \in replayJobs, j.kind \in Endings, NEW x \in {"close", "report"}
  PROVE  LET k == [j EXCEPT !.kind = x] IN
         /\ JobTyped(k) /\ k.kind = x /\ k.task = j.task /\ k.status = j.status /\ k.abort = j.abort /\ k.close = j.close
         /\ k.ses = j.ses /\ k.then = j.then
<1> DEFINE k == [j EXCEPT !.kind = x]
<1>1. j \in ReplayJobSet /\ j.task \in Tasks
  BY JobNamesTask
<1>2. k \in ReplayJobSet
  BY <1>1 DEF ReplayJobSet, JobKinds, TaskJobs, Endings
<1>3. k.kind = x /\ k.task = j.task /\ k.status = j.status /\ k.ses = j.ses /\ k.then = j.then
  BY <1>1 DEF ReplayJobSet
<1>4. k.abort = j.abort /\ k.close = j.close
  BY <1>1 DEF ReplayJobSet
<1>5. JobTyped(k)
  <2> HIDE DEF k
  <2> QED BY <1>1, <1>2, <1>3 DEF JobTyped, Endings
<1> QED BY <1>3, <1>4, <1>5

\* The chain's request goes on to its next part.
LEMMA ChainGoesOn ==
  ASSUME ChainSound, tasks' = tasks, NEW j \in replayJobs, NEW k, j.kind \in Endings, k.then = j.then, k.kind \in Endings,
         \A i \in replayJobs' : (i \in replayJobs /\ i # j) \/ i = k \/ OffChain(i)
  PROVE  ChainSound'
<1>1. k.kind \notin {"create", "start", "abort"}
  BY DEF Endings
<1>2. CASE j.then = "none"
  <2>1. \A i \in replayJobs' : i \in replayJobs \/ OffChain(i)
    BY <1>1, <1>2 DEF OffChain
  <2> QED BY <2>1, ChainShrinks
<1>3. CASE j.then # "none"
  <2>1. j \in OnChain
    BY <1>3 DEF OnChain
  <2> QED BY <1>1, <2>1, ChainPasses
<1> QED BY <1>2, <1>3

\* The first part of a cleanup keeps the invariant: alarms, abort and storage.
LEMMA CleanupClearKeeps ==
  ASSUME ReplayInv, NEW j \in replayJobs, CleanupClear(j)
  PROVE  ReplayInv'
<1> DEFINE n == j.task
           k == [j EXCEPT !.kind = "close"]
<1>1. /\ j.kind = "clear" /\ alarms' = alarms \ {n} /\ replayJobs' = (replayJobs \ {j}) \cup {k}
      /\ replayMishaps' = replayMishaps \cup (IF ss.ses.task \notin {0, n} THEN {"overlap"} ELSE {})
      /\ UNCHANGED <<sw, inbox, news, wiz, srv, tasks, owner, done, replayLeft>>
      /\ ss' = [ss EXCEPT !.ses = NoReplaySession, !.pay = @ \ {n}, !.ctx[n] = NoContext]
      /\ tab' = IF j.abort /\ tab[n].run THEN [tab EXCEPT ![n].abort = TRUE] ELSE tab
  BY DEF CleanupClear, ReplayRunning, Replace, Note, ClearReplayStorage
<1>2. n \in Tasks /\ j \in ReplayJobSet
  BY <1>1, JobNamesTask DEF ReplayInv, ReplayTyped
<1>3. /\ JobTyped(k) /\ k.kind = "close" /\ k.task = n /\ k.status = j.status /\ k.abort = j.abort /\ k.close = j.close
      /\ k.ses = j.ses /\ k.then = j.then
  BY <1>1, CleanupGoesOn DEF Endings, ReplayInv, ReplayTyped
<1>4. /\ ss' \in SsSet /\ ss'.ses = NoReplaySession /\ ss'.pay = ss.pay \ {n} /\ ss'.ctx[n] = NoContext
      /\ ss'.rows = ss.rows /\ ss'.ret = ss.ret /\ ss'.dsl = ss.dsl
      /\ \A i \in Tasks \ {n} : ss'.ctx[i] = ss.ctx[i]
  <2>1. ss \in SsSet
    BY DEF ReplayInv, ReplayTyped, SsTyped
  <2> QED BY <1>1, <1>2, <2>1, NoContextIs, NoneIsSession DEF SsSet
<1>5. /\ tab' \in [Tasks -> TabSet]
      /\ \A i \in Tasks : /\ tab'[i].pos = tab[i].pos /\ tab'[i].got = tab[i].got /\ tab'[i].ctl = tab[i].ctl
                          /\ (tab'[i].run <=> tab[i].run) /\ (tab[i].abort => tab'[i].abort)
                          /\ (tab'[i] = tab[i] \/ (tab[i].open /\ tab'[i].open))
      /\ j.abort /\ tab[n].run => tab'[n].abort
  <2> DEFINE t == [tab[n] EXCEPT !.abort = TRUE]
  <2>1. tab \in [Tasks -> TabSet] /\ tab[n] \in TabSet
    BY <1>2 DEF ReplayInv, ReplayTyped, TabsTyped
  <2>2. t \in TabSet /\ t.pos = tab[n].pos /\ t.got = tab[n].got /\ t.ctl = tab[n].ctl
    BY <2>1 DEF TabSet
  <2>3. (t.open <=> tab[n].open) /\ t.abort /\ (t.run <=> tab[n].run)
    BY <2>1 DEF TabSet
  <2>4. tab[n].run => tab[n].open
    BY <1>2, NoTabIs DEF ReplayInv, ReplayTyped, TabsTyped
  <2> HIDE DEF t
  <2>5. CASE j.abort /\ tab[n].run
    <3>1. tab' = [tab EXCEPT ![n] = t]
      BY <1>1, <2>5 DEF t
    <3> QED BY <1>2, <2>1, <2>2, <2>3, <2>4, <2>5, <3>1
  <2>6. CASE ~(j.abort /\ tab[n].run)
    BY <1>1, <2>1, <2>6
  <2> QED BY <2>5, <2>6
<1>6. Clean' => Clean /\ ss.ses.task \in {0, n}
  BY <1>1 DEF Clean
<1>7. Sighted' => Sighted
  BY <1>1 DEF Sighted
<1>8. k.task <= tasks /\ k.ses.task <= tasks
  BY <1>3 DEF ReplayInv, NothingAhead
<1> HIDE DEF k
<1>9. ReplayTyped'
  <2>1. \A i \in Tasks : ~tab'[i].open => tab'[i] = NoTab
    BY <1>5 DEF ReplayInv, ReplayTyped, TabsTyped
  <2>2. \A i \in Tasks : ss'.ctx[i].pos = -1 => ss'.ctx[i] = NoContext
    BY <1>4 DEF ReplayInv, ReplayTyped, SsTyped
  <2> QED BY <1>1, <1>3, <1>4, <1>5, <2>1, <2>2, NoneIsSession DEF ReplayInv, ReplayTyped, SwTyped, SsTyped, OfTask, TabsTyped, WizardTyped,
     ServerTyped, BoundsTyped, WireTyped, JobsTyped, ReplayMishaps
<1>10. ChainSound'
  BY <1>1, <1>3, ChainGoesOn DEF ReplayInv, Endings
<1>11. NothingAhead'
  <2>1. \A i \in Tasks : i > tasks => tab'[i] = NoTab
    BY <1>5, NoTabIs DEF ReplayInv, NothingAhead
  <2>2. NoReplaySession.task <= tasks
    BY NoneIsSession DEF ReplayInv, ReplayTyped, ServerTyped
  <2> QED BY <1>1, <1>3, <1>4, <1>8, <2>1, <2>2 DEF ReplayInv, NothingAhead
<1>12. BootsFirst'
  BY <1>1, <1>3, <1>4, <1>5, JobNamesTask DEF ReplayInv, ReplayTyped, BootsFirst
<1>13. ProgressIsDone'
  BY <1>1, <1>3, <1>4, <1>5, NoContextIs DEF ReplayInv, ProgressIsDone
<1>14. ValuesAreKept'
  <2>1. ContextsKept => ContextsKept'
    BY <1>1, <1>4, <1>5, NoContextIs DEF ContextsKept
  <2> QED BY <1>1, <1>4, <1>7, <2>1 DEF ReplayInv, ValuesAreKept, RowsKept, RowsAccepted, Whole
<1>15. OneReplay => OneReplay'
  BY <1>1, <1>3, <1>4, NoneIsSession DEF OneReplay, ReplayAsked, Queued, Endings
<1>16. EndIsOwn => EndIsOwn'
  BY <1>1, <1>3, <1>4 DEF EndIsOwn, Ran, Endings
<1>17. Clean' /\ OneReplay /\ OneRuns => OneRuns'
  <2>1. \A i : Reported(i)' => Reported(i)
    BY <1>1, <1>3, ReportedInMail, ReportedInMailNext
  <2>2. OneReplay => n = tasks
    BY <1>1 DEF OneReplay, Endings
  <2>3. OneReplay /\ sw.act # NoReplaySession => sw.act.task = n
    BY <2>2, SessionHasTask DEF OneReplay, ReplayInv, ReplayTyped, SwTyped, SwSet
  <2>4. \A i \in replayJobs : i.kind = "clear" => i.task \in Tasks
    BY JobNamesTask DEF ReplayInv, ReplayTyped
  <2>5. ~j.abort /\ OneRuns => ~tab[n].run
    BY <1>1 DEF OneRuns
  <2>6. Clean' /\ OneRuns => \A i \in Tasks : ~(tab'[i].run /\ ~tab'[i].abort)
    <3> SUFFICES ASSUME Clean', OneRuns, NEW i \in Tasks, tab'[i].run, ~tab'[i].abort
                 PROVE  FALSE
      OBVIOUS
    <3>1. tab[i].run /\ ~tab[i].abort
      BY <1>5
    <3>2. i = n
      BY <1>6, <3>1, ZeroIsNone DEF OneRuns
    <3>3. ~j.abort
      BY <1>5, <3>1, <3>2
    <3> QED BY <2>5, <3>1, <3>2, <3>3
  <2> QED BY <1>1, <1>3, <1>4, <1>5, <2>1, <2>3, <2>4, <2>6 DEF OneRuns, Endings
<1>18. RetainedIsLeft => RetainedIsLeft'
  BY <1>1, <1>3, <1>4 DEF RetainedIsLeft, Endings
<1> QED BY <1>6, <1>9, <1>10, <1>11, <1>12, <1>13, <1>14, <1>15, <1>16, <1>17, <1>18 DEF ReplayInv, WhenClean

\* What is told at the end of a cleanup.
LEMMA EndIsTold ==
  ASSUME WireTyped, Len(news) < MaxWire, NEW j, j.status \in ReplayStatus,
         \/ Tell(<<[kind |-> "complete", status |-> j.status, got |-> {}]>> \o CancelAnswer(j))
         \/ Tell(<<[kind |-> "complete", status |-> j.status, got |-> {}]>>)
         \/ Tell(CancelAnswer(j))
  PROVE  /\ news' \in Seq(ReplayNews) /\ Len(news') <= MaxWire + 1
         /\ \A m \in Mail(news)' : m \in Mail(news) \/ (m.got = {} /\ m.status \in {"none", j.status})
<1> DEFINE a == [kind |-> "complete", status |-> j.status, got |-> {}]
           b == [kind |-> "cancelled", status |-> "none", got |-> {}]
<1>1. a \in ReplayNews /\ b \in ReplayNews /\ a.got = {} /\ b.got = {} /\ a.status = j.status /\ b.status = "none"
  BY DEF ReplayNews, ReplayStatus
<1>2. CancelAnswer(j) = <<b>> \/ CancelAnswer(j) = <<>>
  BY DEF CancelAnswer
<1>3. Tell(<<a>> \o CancelAnswer(j)) \/ Tell(<<a>>) \/ Tell(CancelAnswer(j))
  OBVIOUS
<1> HIDE DEF a, b
<1>4. <<a>> \o <<b>> = <<a, b>> /\ <<a>> \o <<>> = <<a>>
  <2>1. <<a>> \in Seq({a, b}) /\ <<b>> \in Seq({a, b}) /\ <<a, b>> \in Seq({a, b})
    OBVIOUS
  <2>2. /\ <<a>> \o <<b>> \in Seq({a, b}) /\ Len(<<a>> \o <<b>>) = 2 /\ Len(<<a, b>>) = 2
        /\ (<<a>> \o <<b>>)[1] = a /\ (<<a>> \o <<b>>)[2] = b /\ <<a, b>>[1] = a /\ <<a, b>>[2] = b
    BY <2>1
  <2>3. \A i \in 1..2 : (<<a>> \o <<b>>)[i] = <<a, b>>[i]
    BY <2>2
  <2>4. <<a>> \o <<b>> = <<a, b>>
    BY <2>1, <2>2, <2>3, SeqEqual
  <2> QED BY <2>1, <2>4, ConcatEmptySeq
<1>5. Tell(<<a, b>>) \/ Tell(<<a>>) \/ Tell(<<b>>) \/ Tell(<<>>)
  BY <1>2, <1>3, <1>4
<1>6. /\ news' \in Seq(ReplayNews) /\ Len(news') <= MaxWire + 1
      /\ \E M \in SUBSET {a, b} : Mail(news)' = Mail(news) \cup M
  <2> DEFINE M == Mail(news)
             N == Mail(news)'
  <2>1. news' \in Seq(ReplayNews) /\ Len(news') <= MaxWire + 1
    BY <1>1, <1>5, Tells
  <2>2. N \in {M \cup {a, b}, M \cup {a}, M \cup {b}, M}
    BY <1>1, <1>5, Tells
  <2>3. {a, b} \in SUBSET {a, b} /\ {a} \in SUBSET {a, b} /\ {b} \in SUBSET {a, b} /\ {} \in SUBSET {a, b}
    OBVIOUS
  <2> HIDE DEF M, N
  <2>4. \E X \in SUBSET {a, b} : N = M \cup X
    BY <2>2, <2>3
  <2> QED BY <2>1, <2>4 DEF M, N
<1> QED BY <1>1, <1>6

\* The request that waited for the cleanup.
LEMMA AfterIs ==
  ASSUME NEW j
  PROVE  \A c \in After(j) : /\ j.then = "create" /\ JobTyped(c) /\ c.kind = "create" /\ c.task = 0 /\ c.then = "none"
                             /\ c.ses = NoReplaySession
<1>1. "create" \in JobKinds /\ "create" \notin TaskJobs
  BY DEF JobKinds, TaskJobs, Endings
<1> DEFINE d == ReplayJob("create", 0)
<1>2. JobTyped(d) /\ d.kind = "create" /\ d.task = 0 /\ d.then = "none" /\ d.ses = NoReplaySession
  BY <1>1, ZeroIsNone, ReplayJobTyped, ZenonT(60)
<1>3. \A c \in After(j) : j.then = "create" /\ c = d
  BY DEF After
<1> HIDE DEF d
<1> QED BY <1>2, <1>3

\* Memory without the rows of a task.
LEMMA SwForgetsIs ==
  ASSUME NEW s \in SwSet, NEW n \in Tasks
  PROVE  /\ SwForgets(s, n) \in SwSet /\ SwForgets(s, n).act = s.act /\ SwForgets(s, n).listens = s.listens
         /\ \A i \in Tasks : SwForgets(s, n).rows[i] = IF i = n THEN {} ELSE s.rows[i]
<1>1. SwForgets(s, n) \in SwSet
  BY DEF SwForgets, SwSet
<1>2. /\ SwForgets(s, n).act = s.act /\ SwForgets(s, n).listens = s.listens
      /\ \A i \in Tasks : SwForgets(s, n).rows[i] = IF i = n THEN {} ELSE s.rows[i]
  BY DEF SwForgets, SwSet
<1> QED BY <1>1, <1>2

\* The second part of a cleanup keeps the invariant: the tab and the broadcast.
LEMMA CleanupCloseKeeps ==
  ASSUME ReplayInv, NEW j \in replayJobs, CleanupClose(j)
  PROVE  ReplayInv'
<1> DEFINE n == j.task
           k == [j EXCEPT !.kind = "report"]
           s == IF j.close THEN ClosedSw(n, sw) ELSE sw
           H == j.close /\ Hears(n)
<1>1. /\ j.kind = "close" /\ Len(news) < MaxWire
      /\ IF j.close THEN CloseReplayTab(n) ELSE UNCHANGED tab
      /\ UNCHANGED <<alarms, inbox, wiz, srv, tasks, owner, done, replayLeft, replayMishaps>>
  BY DEF CleanupClose, ReplayRunning
<1>2. n \in Tasks /\ j \in ReplayJobSet /\ j.status \in ReplayStatus
  BY <1>1, JobNamesTask DEF ReplayInv, ReplayTyped, ReplayJobSet
<1>3. /\ JobTyped(k) /\ k.kind = "report" /\ k.task = n /\ k.status = j.status /\ k.abort = j.abort /\ k.close = j.close
      /\ k.ses = j.ses /\ k.then = j.then
  BY <1>1, CleanupGoesOn DEF Endings, ReplayInv, ReplayTyped
<1>4. /\ tab' \in [Tasks -> TabSet] /\ \A i \in Tasks : tab'[i] = NoTab \/ tab'[i] = tab[i]
      /\ H => tab'[n] = NoTab
  <2>1. CASE j.close
    BY <1>1, <1>2, <2>1, ZeroIsNone, TabCloses DEF ReplayInv, ReplayTyped
  <2>2. CASE ~j.close
    BY <1>1, <2>2 DEF ReplayInv, ReplayTyped, TabsTyped
  <2> QED BY <2>1, <2>2
<1>5. /\ s \in SwSet /\ OfTask(s.act) /\ s.rows = sw.rows
      /\ ~H => s = sw
      /\ H => s.act = NoReplaySession /\ s.listens = sw.listens \ {sw.act.task} /\ sw.act # NoReplaySession
  BY ClosingIs DEF ReplayInv, ReplayTyped, SwTyped, Hears
<1>6. \A i \in (IF j.close THEN ClosedJobs(n) ELSE {}) : H /\ IsCleanup(i, sw.act.task, "failure", FALSE, FALSE, "none")
  BY ClosingIs DEF ReplayInv, ReplayTyped, SwTyped
<1>7. /\ \A i \in replayJobs' : \/ i \in replayJobs /\ i # j
                                \/ i = k
                                \/ i \in After(j)
                                \/ H /\ IsCleanup(i, sw.act.task, "failure", FALSE, FALSE, "none")
      /\ k \notin replayJobs' \/ \A i \in replayJobs' : (i \in replayJobs /\ i # j) \/ i = k \/ OffChain(i)
  <2>1. \/ replayJobs' = (replayJobs \ {j}) \cup (After(j) \cup (IF j.close THEN ClosedJobs(n) ELSE {}))
        \/ replayJobs' = (replayJobs \ {j}) \cup ({k} \cup (IF j.close THEN ClosedJobs(n) ELSE {}))
    BY DEF CleanupClose, Replace
  <2> DEFINE C == IF j.close THEN ClosedJobs(n) ELSE {}
  <2>2. \A i \in C : OffChain(i) /\ i.kind = "clear" /\ H /\ IsCleanup(i, sw.act.task, "failure", FALSE, FALSE, "none")
    BY <1>6 DEF OffChain, IsCleanup
  <2>3. \A i \in After(j) : i.kind = "create"
    BY AfterIs
  <2>4. j.kind = "close" /\ k.kind = "report"
    BY <1>1, <1>3
  <2>5. replayJobs' = (replayJobs \ {j}) \cup (After(j) \cup C) \/ replayJobs' = (replayJobs \ {j}) \cup ({k} \cup C)
    BY <2>1
  <2> HIDE DEF k, s, H, C
  <2>6. \A i \in replayJobs' : \/ i \in replayJobs /\ i # j
                               \/ i = k
                               \/ i \in After(j)
                               \/ i \in C
    BY <2>5
  <2>7. CASE replayJobs' = (replayJobs \ {j}) \cup ({k} \cup C)
    BY <2>2, <2>6, <2>7
  <2>8. CASE replayJobs' = (replayJobs \ {j}) \cup (After(j) \cup C)
    <3>1. k \in replayJobs => j.then # "create"
      BY <2>4, <1>3 DEF ReplayInv, ChainSound, OnChain
    <3>2. After(j) # {} => j.then = "create"
      BY DEF After
    <3>3. k \notin replayJobs => k \notin replayJobs'
      BY <2>2, <2>3, <2>4, <2>8
    <3> QED BY <2>2, <2>6, <2>8, <3>1, <3>2, <3>3
  <2> QED BY <2>5, <2>7, <2>8
<1>8. /\ sw' \in SwSet /\ sw'.act = s.act /\ sw'.listens = s.listens
      /\ \A i \in Tasks : sw'.rows[i] \in {{}, sw.rows[i]}
  <2>1. sw' = SwForgets(s, n) \/ sw' = s
    BY DEF CleanupClose
  <2> HIDE DEF s
  <2> QED BY <1>2, <1>5, <2>1, SwForgetsIs
<1>9. /\ ss' \in SsSet /\ ss'.ses = ss.ses /\ ss'.pay = ss.pay /\ ss'.ctx = ss.ctx /\ ss'.ret = ss.ret /\ ss'.dsl = ss.dsl
      /\ \A i \in Tasks : ss'.rows[i] \in {{}, ss.rows[i]}
  <2>1. ss' = [ss EXCEPT !.rows[n] = {}] \/ ss' = ss
    BY DEF CleanupClose
  <2>2. SsTyped
    BY DEF ReplayInv, ReplayTyped
  <2>3. CASE ss' = [ss EXCEPT !.rows[n] = {}]
    BY <1>2, <2>2, <2>3 DEF SsTyped, SsSet
  <2>4. CASE ss' = ss
    BY <2>2, <2>4 DEF SsTyped
  <2> QED BY <2>1, <2>3, <2>4
<1>10. /\ news' \in Seq(ReplayNews) /\ Len(news') <= MaxWire + 1
       /\ \A m \in Mail(news)' : m \in Mail(news) \/ (m.got = {} /\ m.status \in {"none", j.status})
  BY <1>1, <1>2, EndIsTold DEF CleanupClose, ReplayInv, ReplayTyped
<1>11. sw'.act.task <= tasks
  BY <1>5, <1>8, NoneIsSession DEF ReplayInv, NothingAhead, ReplayTyped, ServerTyped
<1>12. k.task <= tasks /\ k.ses.task <= tasks /\ 0 <= tasks
  BY <1>3 DEF ReplayInv, NothingAhead, ReplayTyped, ServerTyped
<1> HIDE DEF k, s, H
<1>13. \A i \in replayJobs' : \/ i \in replayJobs /\ i # j
                              \/ i = k
                              \/ j.then = "create" /\ JobTyped(i) /\ i.kind = "create" /\ i.task = 0 /\ i.then = "none"
                                   /\ i.ses = NoReplaySession
                              \/ H /\ IsCleanup(i, sw.act.task, "failure", FALSE, FALSE, "none")
  BY <1>7, AfterIs
<1>14. ReplayTyped'
  <2>1. \A i \in Tasks : ~tab'[i].open => tab'[i] = NoTab
    BY <1>4 DEF ReplayInv, ReplayTyped, TabsTyped
  <2> QED BY <1>1, <1>3, <1>4, <1>5, <1>8, <1>9, <1>10, <1>13, <2>1 DEF ReplayInv, ReplayTyped, SwTyped, SsTyped, OfTask, TabsTyped, WizardTyped,
     ServerTyped, BoundsTyped, WireTyped, JobsTyped, IsCleanup
<1>15. ChainSound'
  <2>1. CASE k \in replayJobs'
    BY <1>1, <1>3, <1>7, <2>1, ChainGoesOn DEF ReplayInv, Endings, OffChain, IsCleanup
  <2>2. CASE k \notin replayJobs' /\ j.then = "create"
    <3>1. PICK c : After(j) = {c}
      BY <2>2 DEF After
    <3>2. j \in OnChain /\ c.kind = "create"
      BY <2>2, <3>1, AfterIs DEF OnChain
    <3> QED BY <1>1, <1>7, <2>2, <3>1, <3>2, ChainPasses DEF ReplayInv, OffChain, IsCleanup
  <2>3. CASE k \notin replayJobs' /\ j.then # "create"
    BY <1>1, <1>13, <2>3, ChainShrinks DEF ReplayInv, OffChain, IsCleanup
  <2> QED BY <2>1, <2>2, <2>3
<1>16. NothingAhead'
  BY <1>1, <1>4, <1>9, <1>11, <1>12, <1>13, NoneIsSession DEF ReplayInv, NothingAhead, IsCleanup
<1>17. BootsFirst'
  BY <1>1, <1>3, <1>4, <1>9, <1>13, NoTabIs, JobNamesTask DEF ReplayInv, ReplayTyped, BootsFirst, IsCleanup
<1>18. ProgressIsDone'
  BY <1>1, <1>3, <1>4, <1>9, <1>13, NoTabIs DEF ReplayInv, ProgressIsDone, IsCleanup
<1>19. ValuesAreKept'
  <2>1. ContextsKept => ContextsKept'
    BY <1>1, <1>4, <1>9, NoTabIs DEF ContextsKept
  <2>2. RowsKept => RowsKept'
    BY <1>1, <1>8, <1>9, <1>10 DEF RowsKept, Whole
  <2> QED BY <1>1, <2>1, <2>2 DEF ReplayInv, ValuesAreKept, RowsAccepted, Sighted
<1>20. OneReplay => j.then # "create" /\ n = tasks /\ (H => sw.act.task = tasks /\ sw.listens = {sw.act.task})
  <2>1. OneReplay => j.then # "create" /\ n = tasks
    BY <1>1 DEF OneReplay, Endings
  <2>2. H /\ OneReplay => sw.act.task = tasks /\ sw.listens = {sw.act.task}
    BY <1>5, SessionHasTask DEF OneReplay, ReplayInv, ReplayTyped, SwTyped, SwSet
  <2> QED BY <2>1, <2>2
<1>21. OneReplay => OneReplay'
  <2>1. OneReplay => (ReplayAsked' => ReplayAsked) /\ (Queued("create")' => Queued("create"))
    BY <1>3, <1>13, <1>20 DEF ReplayAsked, Queued, IsCleanup
  <2>2. OneReplay => \A i \in replayJobs' : (i.kind \in Endings => i.task = tasks) /\ i.then # "create"
    BY <1>3, <1>13, <1>20 DEF OneReplay, Endings, IsCleanup
  <2>3. OneReplay => ~ReplayAsked
    BY <1>1 DEF OneReplay, Endings
  <2>4. OneReplay => sw'.listens = IF sw'.act = NoReplaySession THEN {} ELSE {sw'.act.task}
    BY <1>5, <1>8, <1>20 DEF OneReplay
  <2>5. OneReplay => sw'.act.task \in {0, tasks}
    BY <1>5, <1>8, NoneIsSession DEF OneReplay
  <2>6. OneReplay => ~Queued("create")'
    BY <2>1, <2>3 DEF ReplayAsked
  <2> QED BY <1>1, <1>9, <2>1, <2>2, <2>3, <2>4, <2>5, <2>6 DEF OneReplay
<1>22. EndIsOwn => EndIsOwn'
  <2>1. EndIsOwn /\ j.status = "success" => Ran(ss.dsl)
    BY <1>1, <1>2 DEF EndIsOwn, Ran, Endings
  <2>2. \A a : Ran(a)' <=> Ran(a)
    BY <1>1 DEF Ran
  <2>3. EndIsOwn => \A i \in replayJobs' : i.kind \in Endings /\ i.status = "success" => done[i.task] = Steps /\ owner[i.task] = ss.dsl
    BY <1>1, <1>3, <1>13 DEF EndIsOwn, IsCleanup, Endings
  <2> QED BY <1>1, <1>5, <1>8, <1>9, <1>10, <2>1, <2>2, <2>3 DEF EndIsOwn
<1>23. OneReplay /\ OneRuns => OneRuns'
  <2>1. \A i : Reported(i)' => Reported(i)
    BY <1>1, <1>3, <1>13, ReportedInMail, ReportedInMailNext DEF IsCleanup
  <2>2. \A i \in Tasks : (tab'[i].run => tab[i].run) /\ (tab'[i].run /\ ~tab'[i].abort => tab[i].run /\ ~tab[i].abort)
    BY <1>4, NoTabIs
  <2>3. \A i \in replayJobs : i.kind = "clear" => i.task \in Tasks
    BY JobNamesTask DEF ReplayInv, ReplayTyped
  <2>4. OneReplay /\ H => ~tab'[sw.act.task].run
    BY <1>4, <1>20, NoTabIs
  <2>5. OneReplay /\ OneRuns => \A i \in replayJobs' : i.kind = "clear" /\ ~i.abort => ~tab'[i.task].run
    BY <1>3, <1>13, <1>20, <2>2, <2>3, <2>4 DEF OneRuns, IsCleanup
  <2>6. OneReplay /\ OneRuns => \A i \in replayJobs' : i.kind \in Endings /\ sw'.act # NoReplaySession => i.abort /\ i.close
    BY <1>1, <1>3, <1>5, <1>8, <1>13, <1>20 DEF OneRuns, IsCleanup, Endings
  <2> QED BY <1>1, <1>5, <1>8, <1>9, <2>1, <2>2, <2>5, <2>6 DEF OneRuns
<1>24. RetainedIsLeft => RetainedIsLeft'
  BY <1>1, <1>3, <1>5, <1>8, <1>9, <1>13 DEF RetainedIsLeft, IsCleanup, Endings
<1> QED BY <1>1, <1>14, <1>15, <1>16, <1>17, <1>18, <1>19, <1>21, <1>22, <1>23, <1>24 DEF ReplayInv, WhenClean, Clean

\* The verdict accepts the attempt it is about at most, and no attempt disappears.
LEMMA VerdictIs ==
  ASSUME srv \in [Tasks -> AttemptSet], NEW a \in 0..MaxTasks, NEW ok \in BOOLEAN, NEW rows \in SUBSET Values
  PROVE  /\ Verdict(a, ok, rows) \in [Tasks -> AttemptSet]
         /\ \A b \in Tasks :
              /\ Verdict(a, ok, rows)[b].status = "none" <=> srv[b].status = "none"
              /\ Verdict(a, ok, rows)[b].status = "verified" =>
                   \/ srv[b].status = "verified" /\ Verdict(a, ok, rows)[b].rows = srv[b].rows
                   \/ b = a /\ ok /\ rows # {} /\ Verdict(a, ok, rows)[b].rows = rows
<1>1. CASE a = 0 \/ srv[a].status # "running"
  BY <1>1 DEF Verdict
<1>2. CASE ~(a = 0 \/ srv[a].status # "running")
  <2> DEFINE r == [status |-> IF ok /\ rows # {} THEN "verified" ELSE "failed", rows |-> IF ok THEN rows ELSE {}]
  <2>1. r \in AttemptSet /\ r.status # "none" /\ (r.status = "verified" => ok /\ rows # {} /\ r.rows = rows)
    BY DEF AttemptSet
  <2>2. Verdict(a, ok, rows) = [srv EXCEPT ![a] = r]
    BY <1>2 DEF Verdict
  <2> HIDE DEF r
  <2>3. a \in Tasks
    BY <1>2 DEF Tasks
  <2> QED BY <1>2, <2>1, <2>2, <2>3
<1> QED BY <1>1, <1>2

\* The last part of a cleanup keeps the invariant: the fallback's verdict.
LEMMA CleanupReportKeeps ==
  ASSUME ReplayInv, NEW j \in replayJobs, CleanupReport(j)
  PROVE  ReplayInv'
<1> DEFINE n == j.task
           rows == sw.rows[n] \cup ss.rows[n]
           ok == (j.status = "success")
<1>1. /\ j.kind = "report" /\ Len(news) < MaxWire
      /\ srv' = Verdict(ss.dsl, ok, rows)
      /\ sw' = SwForgets(sw, n)
      /\ ss' = [ss EXCEPT !.rows[n] = {}]
      /\ replayJobs' = (replayJobs \ {j}) \cup After(j) /\ Tell(CancelAnswer(j))
      /\ UNCHANGED <<alarms, tab, inbox, wiz, tasks, owner, done, replayLeft, replayMishaps>>
  BY DEF CleanupReport, ReplayRunning, FallbackVerdict, Replace
<1>2. n \in Tasks /\ j \in ReplayJobSet /\ j.status \in ReplayStatus
  BY <1>1, JobNamesTask DEF ReplayInv, ReplayTyped, ReplayJobSet
<1>3. SwTyped /\ SsTyped /\ ServerTyped /\ sw \in SwSet /\ ss \in SsSet
  BY DEF ReplayInv, ReplayTyped, SwTyped, SsTyped
<1>4. sw' \in SwSet /\ sw'.act = sw.act /\ sw'.listens = sw.listens /\ \A i \in Tasks : sw'.rows[i] \in {{}, sw.rows[i]}
  BY <1>1, <1>2, <1>3, SwForgetsIs
<1>5. /\ ss' \in SsSet /\ ss'.ses = ss.ses /\ ss'.pay = ss.pay /\ ss'.ctx = ss.ctx /\ ss'.ret = ss.ret /\ ss'.dsl = ss.dsl
      /\ \A i \in Tasks : ss'.rows[i] \in {{}, ss.rows[i]}
  BY <1>1, <1>2, <1>3 DEF SsSet
<1>6. /\ news' \in Seq(ReplayNews) /\ Len(news') <= MaxWire + 1
      /\ \A m \in Mail(news)' : m \in Mail(news) \/ (m.got = {} /\ m.status \in {"none", j.status})
  BY <1>1, <1>2, EndIsTold DEF ReplayInv, ReplayTyped
<1>7. rows \in SUBSET Values /\ ss.dsl \in 0..MaxTasks /\ ok \in BOOLEAN
  BY <1>2, <1>3 DEF SwSet, SsSet
<1>8. /\ srv' \in [Tasks -> AttemptSet]
      /\ \A b \in Tasks : srv'[b].status = "verified" =>
                   \/ srv[b].status = "verified" /\ srv'[b].rows = srv[b].rows
                   \/ b = ss.dsl /\ j.status = "success" /\ rows # {} /\ srv'[b].rows = rows
  <2>1. srv \in [Tasks -> AttemptSet]
    BY <1>3 DEF ServerTyped
  <2> DEFINE v == Verdict(ss.dsl, ok, rows)
  <2>2. /\ v \in [Tasks -> AttemptSet]
        /\ \A b \in Tasks : v[b].status = "verified" =>
             \/ srv[b].status = "verified" /\ v[b].rows = srv[b].rows
             \/ b = ss.dsl /\ ok /\ rows # {} /\ v[b].rows = rows
    <3> HIDE DEF rows, ok
    <3> QED BY <1>7, <2>1, VerdictIs
  <2>3. srv' = v
    BY <1>1
  <2> HIDE DEF v
  <2> QED BY <2>2, <2>3
<1>9. \A i \in replayJobs' : \/ i \in replayJobs /\ i # j
                             \/ j.then = "create" /\ JobTyped(i) /\ i.kind = "create" /\ i.task = 0 /\ i.then = "none"
                                  /\ i.ses = NoReplaySession
  <2>1. \A c \in After(j) : j.then = "create" /\ JobTyped(c) /\ c.kind = "create" /\ c.task = 0 /\ c.then = "none"
                               /\ c.ses = NoReplaySession
    BY AfterIs
  <2>2. replayJobs' = (replayJobs \ {j}) \cup After(j)
    BY <1>1
  <2>3. \A i \in replayJobs' : (i \in replayJobs /\ i # j) \/ i \in After(j)
    BY <2>2
  <2> QED BY <2>1, <2>3
<1>10. ReplayTyped'
  <2>1. SwTyped' /\ SsTyped'
    BY <1>3, <1>4, <1>5 DEF SwTyped, SsTyped, OfTask
  <2>2. TabsTyped' /\ WizardTyped' /\ BoundsTyped'
    BY <1>1, <1>5 DEF ReplayInv, ReplayTyped, TabsTyped, WizardTyped, BoundsTyped
  <2>3. ServerTyped' /\ WireTyped'
    BY <1>1, <1>6, <1>8 DEF ReplayInv, ReplayTyped, ServerTyped, WireTyped
  <2>4. JobsTyped'
    BY <1>9 DEF ReplayInv, ReplayTyped, JobsTyped
  <2> QED BY <2>1, <2>2, <2>3, <2>4 DEF ReplayTyped
<1>11. ChainSound'
  <2>1. CASE j.then = "create"
    <3>1. PICK c : After(j) = {c}
      BY <2>1 DEF After
    <3>2. j \in OnChain /\ c.kind = "create"
      BY <2>1, <3>1, AfterIs DEF OnChain
    <3> QED BY <1>1, <2>1, <3>1, <3>2, ChainPasses DEF ReplayInv
  <2>2. CASE j.then # "create"
    BY <1>1, <1>9, <2>2, ChainShrinks DEF ReplayInv
  <2> QED BY <2>1, <2>2
<1>12. NothingAhead'
  BY <1>1, <1>4, <1>5, <1>9, NoneIsSession DEF ReplayInv, NothingAhead, ReplayTyped, ServerTyped
<1>13. BootsFirst'
  BY <1>1, <1>5, <1>9 DEF ReplayInv, BootsFirst
<1>14. ProgressIsDone'
  BY <1>1, <1>5, <1>9 DEF ReplayInv, ProgressIsDone
<1>15. ValuesAreKept'
  <2>1. ContextsKept => ContextsKept'
    BY <1>1, <1>5 DEF ContextsKept
  <2>2. RowsKept => RowsKept'
    BY <1>1, <1>4, <1>5, <1>6 DEF RowsKept, Whole
  <2>3. RowsKept => Whole(rows)
    BY <1>2 DEF RowsKept, Whole
  <2>4. RowsKept /\ RowsAccepted => RowsAccepted'
    BY <1>8, <2>3 DEF RowsAccepted, Whole
  <2> QED BY <1>1, <2>1, <2>2, <2>4 DEF ReplayInv, ValuesAreKept, Sighted
<1> HIDE DEF rows, ok
<1>16. OneReplay => OneReplay' /\ j.then # "create"
  <2>1. OneReplay => j.then # "create"
    BY DEF OneReplay
  <2>2. OneReplay => replayJobs' \subseteq replayJobs
    BY <1>9, <2>1
  <2> QED BY <1>1, <1>4, <1>5, <2>1, <2>2 DEF OneReplay, ReplayAsked, Queued
<1>17. OneReplay => replayJobs' \subseteq replayJobs
  BY <1>9, <1>16
<1>18. OneReplay /\ EndIsOwn => EndIsOwn'
  <2>1. EndIsOwn /\ j.status = "success" => Ran(ss.dsl)
    BY <1>1, <1>2 DEF EndIsOwn, Ran, Endings
  <2>2. \A a : Ran(a)' <=> Ran(a)
    BY <1>1 DEF Ran
  <2>3. EndIsOwn => \A a \in Tasks : srv'[a].status = "verified" => Ran(a)
    BY <1>8, <2>1 DEF EndIsOwn
  <2>4. EndIsOwn /\ (\E m \in Mail(news)' : m.status = "success") => Ran(ss.dsl)
    BY <1>6, <2>1 DEF EndIsOwn
  <2> QED BY <1>1, <1>4, <1>5, <1>17, <2>2, <2>3, <2>4 DEF EndIsOwn
<1>19. OneReplay /\ OneRuns => OneRuns'
  <2>1. OneReplay => \A i : Reported(i)' => Reported(i)
    BY <1>1, <1>17, ReportedInMail, ReportedInMailNext
  <2> QED BY <1>1, <1>4, <1>5, <1>17, <2>1 DEF OneRuns
<1>20. OneReplay /\ RetainedIsLeft => RetainedIsLeft'
  BY <1>1, <1>4, <1>5, <1>17 DEF RetainedIsLeft
<1> QED BY <1>1, <1>10, <1>11, <1>12, <1>13, <1>14, <1>15, <1>16, <1>18, <1>19, <1>20 DEF ReplayInv, WhenClean, Clean

-----------------------------------------------------------------------------
(* The replay: messages of the runner.                                      *)

\* What the delivery of a message does, by kind.
LEMMA DeliverIs ==
  ASSUME ReplayInv, Deliver
  PROVE  LET m == Head(inbox) IN
         /\ m \in Mail(inbox) /\ m \in ReplayMessages /\ m.task \in Tasks /\ m.task <= tasks /\ ~(m.task > tasks)
         /\ inbox' \in Seq(ReplayMessages) /\ Len(inbox') <= MaxWire + 1 /\ Mail(inbox)' \subseteq Mail(inbox)
         /\ Len(news) < MaxWire
         /\ UNCHANGED <<alarms, wiz, srv, tasks, owner, done, replayLeft, replayMishaps>>
         /\ \/ m.kind = "context" /\ TakeContext(m) /\ UNCHANGED <<sw, news, replayJobs, tab>>
            \/ m.kind = "complete" /\ TakeComplete(m) /\ UNCHANGED <<ss, news>>
            \/ m.kind \in {"result", "beat"} /\ TakeProgress(m) /\ UNCHANGED <<replayJobs, tab>>
<1> DEFINE m == Head(inbox)
<1>1. /\ inbox # <<>> /\ Len(news) < MaxWire /\ inbox' = Tail(inbox)
      /\ UNCHANGED <<alarms, wiz, srv, tasks, owner, done, replayLeft, replayMishaps>>
  BY DEF Deliver
<1>2. inbox \in Seq(ReplayMessages) /\ Len(inbox) <= MaxWire + 1 /\ tasks \in Nat
  BY DEF ReplayInv, ReplayTyped, WireTyped, ServerTyped
<1>3. /\ m \in Mail(inbox) /\ inbox' \in Seq(ReplayMessages) /\ Len(inbox') = Len(inbox) - 1
      /\ Mail(Tail(inbox)) \subseteq Mail(inbox)
  BY <1>1, <1>2, MailOfTail
<1>4. Mail(inbox)' = Mail(Tail(inbox))
  BY <1>1 DEF Mail
<1>5. m \in ReplayMessages /\ m.task \in Tasks
  BY <1>2, <1>3, MailTyped
<1>6. m.task <= tasks /\ ~(m.task > tasks)
  <2>1. m.task <= tasks /\ m.task \in Nat
    BY <1>3, <1>5 DEF ReplayInv, NothingAhead, Tasks
  <2> QED BY <1>2, <2>1
<1>7. Len(inbox') <= MaxWire + 1
  BY <1>2, <1>3, ReplayAssumption
<1>8. m.kind \in {"context", "complete", "result", "beat"}
  BY <1>5 DEF ReplayMessages
<1>9. CASE m.kind = "context"
  BY <1>1, <1>3, <1>4, <1>5, <1>6, <1>7, <1>9 DEF Deliver
<1>10. CASE m.kind = "complete"
  BY <1>1, <1>3, <1>4, <1>5, <1>6, <1>7, <1>10 DEF Deliver
<1>11. CASE m.kind \in {"result", "beat"}
  BY <1>1, <1>3, <1>4, <1>5, <1>6, <1>7, <1>11 DEF Deliver
<1> QED BY <1>8, <1>9, <1>10, <1>11

\* A message is gone, and nothing else has happened.
LEMMA MailGoes ==
  ASSUME ReplayInv, inbox' \in Seq(ReplayMessages), Len(inbox') <= MaxWire + 1, Mail(inbox)' \subseteq Mail(inbox),
         UNCHANGED <<sw, ss, alarms, replayJobs, tab, news, wiz, srv, tasks, owner, done, replayLeft, replayMishaps>>
  PROVE  ReplayInv'
<1>1. ReplayTyped'
  BY DEF ReplayInv, ReplayTyped, SwTyped, SsTyped, OfTask, TabsTyped, WizardTyped, ServerTyped, BoundsTyped, WireTyped, JobsTyped,
    JobTyped
<1>2. ChainSound' /\ NothingAhead' /\ BootsFirst' /\ ProgressIsDone'
  BY DEF ReplayInv, ChainSound, OnChain, Queued, NothingAhead, BootsFirst, ProgressIsDone
<1>3. ValuesAreKept'
  BY DEF ReplayInv, ValuesAreKept, Sighted, ContextsKept, RowsKept, RowsAccepted, Whole
<1>4. (OneReplay => OneReplay') /\ (EndIsOwn => EndIsOwn') /\ (RetainedIsLeft => RetainedIsLeft')
  BY DEF OneReplay, ReplayAsked, Queued, EndIsOwn, Ran, RetainedIsLeft
<1>5. OneRuns => OneRuns'
  <2>1. \A i : Reported(i)' => Reported(i)
    BY ReportedInMail, ReportedInMailNext
  <2> QED BY <2>1 DEF OneRuns
<1> QED BY <1>1, <1>2, <1>3, <1>4, <1>5 DEF ReplayInv, WhenClean, Clean

\* The context of the active replay.
LEMMA TakeContextKeeps ==
  ASSUME ReplayInv, Deliver, Head(inbox).kind = "context"
  PROVE  ReplayInv'
<1> DEFINE m == Head(inbox)
           n == m.task
<1>1. /\ m \in Mail(inbox) /\ m \in ReplayMessages /\ n \in Tasks /\ n <= tasks /\ ~(n > tasks)
      /\ inbox' \in Seq(ReplayMessages) /\ Len(inbox') <= MaxWire + 1 /\ Mail(inbox)' \subseteq Mail(inbox)
      /\ UNCHANGED <<sw, alarms, replayJobs, tab, news, wiz, srv, tasks, owner, done, replayLeft, replayMishaps>>
      /\ m.kind = "context" /\ TakeContext(m)
  BY DeliverIs
<1>2. CASE ~Active(n)
  BY <1>1, <1>2, MailGoes DEF TakeContext
<1>3. CASE Active(n)
  <2> DEFINE c == [pos |-> m.pos, got |-> m.got]
  <2>1. ss' = [ss EXCEPT !.ctx[n] = c]
    BY <1>1, <1>3 DEF TakeContext
  <2>2. c \in [pos : -1..LastStep, got : SUBSET Values] /\ c.pos = m.pos /\ c.got = m.got /\ c.pos # -1
    BY <1>1, ReplayAssumption DEF ReplayMessages
  <2> HIDE DEF c
  <2>3. ss \in SsSet /\ \A i \in Tasks : ss.ctx[i].pos = -1 => ss.ctx[i] = NoContext
    BY DEF ReplayInv, ReplayTyped, SsTyped
  <2>4. /\ ss' \in SsSet /\ ss'.ses = ss.ses /\ ss'.pay = ss.pay /\ ss'.rows = ss.rows /\ ss'.ret = ss.ret
        /\ ss'.dsl = ss.dsl /\ \A i \in Tasks : ss'.ctx[i] = IF i = n THEN c ELSE ss.ctx[i]
    BY <1>1, <2>1, <2>2, <2>3 DEF SsSet
  <2> HIDE DEF m
  <2>5. ReplayTyped'
    BY <1>1, <2>2, <2>3, <2>4, ZenonT(60) DEF ReplayInv, ReplayTyped, SwTyped, SsTyped, OfTask, TabsTyped, WizardTyped, ServerTyped, BoundsTyped,
       WireTyped, JobsTyped, JobTyped
  <2>6. ChainSound'
    BY <1>1 DEF ReplayInv, ChainSound, OnChain, Queued
  <2>7. NothingAhead'
    BY <1>1, <2>4 DEF ReplayInv, NothingAhead
  <2>8. BootsFirst'
    BY <1>1, <2>4, JobNamesTask DEF ReplayInv, ReplayTyped, BootsFirst
  <2>9. ProgressIsDone'
    BY <1>1, <2>2, <2>4 DEF ReplayInv, ProgressIsDone
  <2>10. ValuesAreKept'
    <3>1. ContextsKept => ContextsKept'
      BY <1>1, <2>2, <2>4 DEF ContextsKept
    <3> QED BY <1>1, <2>4, <3>1 DEF ReplayInv, ValuesAreKept, Sighted, RowsKept, RowsAccepted, Whole
  <2>11. (OneReplay => OneReplay') /\ (EndIsOwn => EndIsOwn') /\ (RetainedIsLeft => RetainedIsLeft')
    BY <1>1, <2>4 DEF OneReplay, ReplayAsked, Queued, EndIsOwn, Ran, RetainedIsLeft
  <2>12. OneRuns => OneRuns'
    <3>1. \A i : Reported(i)' => Reported(i)
      BY <1>1, ReportedInMail, ReportedInMailNext
    <3> QED BY <1>1, <2>4, <3>1 DEF OneRuns
  <2> QED BY <1>1, <2>5, <2>6, <2>7, <2>8, <2>9, <2>10, <2>11, <2>12 DEF ReplayInv, WhenClean, Clean
<1> QED BY <1>2, <1>3

\* Progress of the active replay.
LEMMA HopsStay ==
  ASSUME NEW s \in StoredSession
  PROVE  LET a == [s EXCEPT !.hops = ReplayProgress(@)] IN a \in StoredSession /\ a.task = s.task
<1>1. s.hops \in 0..HopLimit
  BY DEF StoredSession
<1>2. ReplayProgress(s.hops) \in 0..HopLimit
  BY <1>1, ReplayAssumption DEF ReplayProgress
<1> QED BY <1>2 DEF StoredSession

\* A progress report keeps the invariant (REPLAY_PROGRESS).
LEMMA TakeProgressKeeps ==
  ASSUME ReplayInv, Deliver, Head(inbox).kind \in {"result", "beat"}
  PROVE  ReplayInv'
<1> DEFINE m == Head(inbox)
           n == m.task
<1>1. /\ m \in Mail(inbox) /\ m \in ReplayMessages /\ n \in Tasks /\ n <= tasks /\ ~(n > tasks)
      /\ inbox' \in Seq(ReplayMessages) /\ Len(inbox') <= MaxWire + 1 /\ Mail(inbox)' \subseteq Mail(inbox)
      /\ UNCHANGED <<alarms, replayJobs, tab, wiz, srv, tasks, owner, done, replayLeft, replayMishaps>>
      /\ m.kind \in {"result", "beat"} /\ TakeProgress(m) /\ Len(news) < MaxWire
  BY DeliverIs
<1>2. CASE ~Active(n)
  BY <1>1, <1>2, MailGoes DEF TakeProgress
<1>3. CASE Active(n)
  <2> DEFINE act == [sw.act EXCEPT !.hops = ReplayProgress(@)]
             rows == IF m.kind = "result" THEN sw.rows[n] \cup m.got ELSE sw.rows[n]
             r == [kind |-> "result", status |-> "none", got |-> m.got]
  <2>1. /\ sw' = [sw EXCEPT !.act = act, !.rows[n] = rows]
        /\ ss' = [ss EXCEPT !.ses = act, !.rows[n] = IF m.kind = "result" THEN rows ELSE @]
        /\ IF m.kind = "result" THEN Tell(<<r>>) ELSE UNCHANGED news
    BY <1>1, <1>3 DEF TakeProgress
  <2>2. sw \in SwSet /\ ss \in SsSet /\ OfTask(sw.act) /\ sw.act \in StoredSession /\ sw.rows[n] \in SUBSET Values
    BY <1>1 DEF ReplayInv, ReplayTyped, SwTyped, SsTyped, SwSet
  <2>3. m.got \in SUBSET Values
    BY <1>1 DEF ReplayMessages
  <2>4. act \in StoredSession /\ act.task = n /\ sw.act.task = n /\ n # 0
    <3>1. act \in StoredSession /\ act.task = sw.act.task
      BY <2>2, HopsStay
    <3> QED BY <1>1, <1>3, <3>1, ZeroIsNone DEF Active
  <2>5. rows \in SUBSET Values /\ (rows = sw.rows[n] \/ (rows = sw.rows[n] \cup m.got /\ m.kind = "result"))
    <3>1. sw.rows[n] \in SUBSET Values
      BY <2>2
    <3> HIDE DEF m, n
    <3>2. CASE m.kind = "result"
      BY <2>3, <3>1, <3>2
    <3>3. CASE m.kind # "result"
      BY <3>1, <3>3
    <3> QED BY <3>2, <3>3
  <2>6. r \in ReplayNews /\ r.status = "none" /\ r.got = m.got
    BY <2>3 DEF ReplayNews, ReplayStatus
  <2> HIDE DEF act, rows, r
  <2>7. /\ sw' \in SwSet /\ sw'.act = act /\ sw'.listens = sw.listens
        /\ \A i \in Tasks : sw'.rows[i] = IF i = n THEN rows ELSE sw.rows[i]
    BY <1>1, <2>1, <2>2, <2>4, <2>5 DEF SwSet
  <2>8. /\ ss' \in SsSet /\ ss'.ses = act /\ ss'.pay = ss.pay /\ ss'.ctx = ss.ctx /\ ss'.ret = ss.ret
        /\ ss'.dsl = ss.dsl /\ \A i \in Tasks : ss'.rows[i] = ss.rows[i] \/ (i = n /\ ss'.rows[i] = rows)
    BY <1>1, <2>1, <2>2, <2>4, <2>5 DEF SsSet
  <2>9. /\ news' \in Seq(ReplayNews) /\ Len(news') <= MaxWire + 1
        /\ \A x \in Mail(news)' : x \in Mail(news) \/ (x.status = "none" /\ x.got = m.got /\ m.kind = "result")
    <3>1. CASE m.kind = "result"
      <4>1. Tell(<<r>>)
        BY <2>1, <3>1
      <4>2. news' \in Seq(ReplayNews) /\ Len(news') <= MaxWire + 1 /\ Mail(news)' = Mail(news) \cup {r}
        BY <1>1, <2>6, <4>1, Tells DEF ReplayInv, ReplayTyped
      <4> QED BY <2>6, <3>1, <4>2
    <3>2. CASE m.kind # "result"
      BY <2>1, <3>2 DEF Mail, ReplayInv, ReplayTyped, WireTyped
    <3> QED BY <3>1, <3>2
  <2> HIDE DEF m
  <2>10. ReplayTyped'
    BY <1>1, <2>2, <2>4, <2>7, <2>8, <2>9 DEF ReplayInv, ReplayTyped, SwTyped, SsTyped, OfTask, TabsTyped, WizardTyped, ServerTyped,
       BoundsTyped, WireTyped, JobsTyped, JobTyped
  <2>11. ChainSound'
    BY <1>1 DEF ReplayInv, ChainSound, OnChain, Queued
  <2>12. NothingAhead'
    BY <1>1, <2>4, <2>7, <2>8 DEF ReplayInv, NothingAhead
  <2>13. BootsFirst'
    BY <1>1, <2>8 DEF ReplayInv, BootsFirst
  <2>14. ProgressIsDone'
    BY <1>1, <2>8 DEF ReplayInv, ProgressIsDone
  <2>15. ValuesAreKept'
    <3>1. ContextsKept => ContextsKept' /\ (m.kind = "result" => m.got = Values)
      BY <1>1, <2>8 DEF ContextsKept
    <3>2. ContextsKept /\ RowsKept => Whole(rows)
      BY <1>1, <2>5, <3>1 DEF RowsKept, Whole
    <3>3. ContextsKept /\ RowsKept => RowsKept'
      BY <1>1, <2>7, <2>8, <2>9, <3>1, <3>2 DEF RowsKept, Whole
    <3> QED BY <1>1, <3>1, <3>3 DEF ReplayInv, ValuesAreKept, Sighted, RowsAccepted
  <2>16. OneReplay => n = tasks /\ ~ReplayAsked /\ OneReplay'
    <3>1. sw.act # NoReplaySession /\ act # NoReplaySession
      BY <2>4, NoneIsSession
    <3>2. OneReplay => n = tasks
      BY <2>4 DEF OneReplay
    <3>3. (ReplayAsked' <=> ReplayAsked) /\ (Queued("create")' <=> Queued("create")) /\ (Queued("create") => ReplayAsked)
      BY <1>1 DEF ReplayAsked, Queued
    <3>4. OneReplay => ~ReplayAsked
      BY <3>1 DEF OneReplay
    <3> QED BY <1>1, <2>4, <2>7, <2>8, <3>1, <3>2, <3>3, <3>4 DEF OneReplay
  <2>17. EndIsOwn => EndIsOwn'
    <3>1. sw.act # NoReplaySession
      BY <2>4, NoneIsSession
    <3>2. \A a : Ran(a)' <=> Ran(a)
      BY <1>1 DEF Ran
    <3> QED BY <1>1, <2>4, <2>7, <2>8, <2>9, <3>1, <3>2 DEF EndIsOwn
  <2>18. OneReplay /\ OneRuns => OneRuns'
    <3>1. \A i : Reported(i)' => Reported(i)
      BY <1>1, ReportedInMail, ReportedInMailNext
    <3>2. OneReplay /\ OneRuns => \A i \in Tasks : tab[i].run /\ ~tab[i].abort => i = n
      BY <2>16, ZeroIsNone DEF OneReplay, OneRuns
    <3>3. sw.act # NoReplaySession
      BY <2>4, NoneIsSession
    <3> QED BY <1>1, <2>4, <2>7, <2>8, <3>1, <3>2, <3>3 DEF OneRuns
  <2>19. RetainedIsLeft => RetainedIsLeft'
    <3>1. sw.act # NoReplaySession
      BY <2>4, NoneIsSession
    <3> QED BY <1>1, <2>7, <2>8, <3>1 DEF RetainedIsLeft
  <2> QED BY <1>1, <2>10, <2>11, <2>12, <2>13, <2>14, <2>15, <2>16, <2>17, <2>18, <2>19 DEF ReplayInv, WhenClean, Clean
<1> QED BY <1>2, <1>3

\* The active replay ends: a cleanup is started for it, and its tab may be retained first.
LEMMA ActiveEnds ==
  ASSUME ReplayInv, NEW status \in ReplayStatus, NEW abort \in BOOLEAN, NEW close \in BOOLEAN,
         NEW then \in {"none", "answer"}, then = "none" \/ ChainSound',
         inbox' \in Seq(ReplayMessages), Len(inbox') <= MaxWire + 1, Mail(inbox)' \subseteq Mail(inbox),
         UNCHANGED <<alarms, tab, news, wiz, srv, tasks, owner, done, replayLeft>>,
         replayMishaps \subseteq replayMishaps', replayMishaps' \subseteq ReplayMishaps,
         \/ sw' = sw /\ replayJobs' \subseteq replayJobs
         \/ /\ sw.act # NoReplaySession /\ sw' = Dropped(sw)
            /\ \A i \in replayJobs' : i \in replayJobs \/ IsCleanup(i, sw.act.task, status, abort, close, then),
         ss' \in SsSet, ss'.ses = ss.ses, ss'.pay = ss.pay, ss'.ctx = ss.ctx, ss'.rows = ss.rows, ss'.dsl = ss.dsl,
         \/ ss'.ret = ss.ret
         \/ /\ ss'.ret \in Tasks /\ ss'.ret <= tasks /\ done[ss'.ret] = Steps
            /\ Clean' => /\ sw.act.task = ss'.ret /\ ~close /\ sw' = Dropped(sw)
                         /\ \A i \in replayJobs : i.kind \notin Endings,
         Clean' /\ sw.act # NoReplaySession /\ sw' = Dropped(sw) =>
           /\ abort \/ ~tab[sw.act.task].run
           /\ status = "success" => done[sw.act.task] = Steps
  PROVE  ReplayInv'
<1> DEFINE D == sw.act # NoReplaySession /\ sw' = Dropped(sw)
<1>1. /\ \A i \in replayJobs' : i \in replayJobs \/ (D /\ IsCleanup(i, sw.act.task, status, abort, close, then))
      /\ ~D => sw' = sw
      /\ D => sw'.act = NoReplaySession /\ sw'.listens = sw.listens \ {sw.act.task} /\ sw.act # NoReplaySession
      /\ sw' \in SwSet /\ OfTask(sw'.act) /\ sw'.rows = sw.rows
  BY DroppedIs, NoneIsSession DEF ReplayInv, ReplayTyped, SwTyped
<1>2. (Clean' => Clean) /\ (Sighted' => Sighted)
  BY DEF Clean, Sighted
<1>3. sw.act # NoReplaySession => sw.act.task \in Tasks
  BY SessionHasTask DEF ReplayInv, ReplayTyped, SwTyped, SwSet
<1>4. Clean' /\ D => /\ abort \/ ~tab[sw.act.task].run
                     /\ status = "success" => done[sw.act.task] = Steps
  OBVIOUS
<1>5. \/ ss'.ret = ss.ret
      \/ /\ ss'.ret \in Tasks /\ ss'.ret <= tasks /\ done[ss'.ret] = Steps
         /\ Clean' => /\ sw.act.task = ss'.ret /\ ~close /\ D
                      /\ \A i \in replayJobs : i.kind \notin Endings
  BY ZeroIsNone, NoneIsSession
<1> HIDE DEF D
<1>6. ReplayTyped'
  <2>1. SwTyped' /\ SsTyped'
    BY <1>1 DEF ReplayInv, ReplayTyped, SwTyped, SsTyped, OfTask
  <2>2. TabsTyped' /\ WizardTyped' /\ BoundsTyped' /\ ServerTyped' /\ WireTyped'
    BY DEF ReplayInv, ReplayTyped, TabsTyped, WizardTyped, BoundsTyped, ServerTyped, WireTyped
  <2>3. JobsTyped'
    BY <1>1 DEF ReplayInv, ReplayTyped, JobsTyped, IsCleanup
  <2> QED BY <2>1, <2>2, <2>3 DEF ReplayTyped
<1>7. ChainSound'
  <2>1. CASE then = "none"
    BY <1>1, <2>1, ChainShrinks DEF ReplayInv, OffChain, IsCleanup
  <2> QED BY <2>1
<1>8. NothingAhead'
  <2>1. sw'.act.task <= tasks /\ NoReplaySession.task <= tasks
    BY <1>1, NoneIsSession DEF ReplayInv, NothingAhead, ReplayTyped, ServerTyped
  <2> QED BY <1>1, <1>5, <2>1 DEF ReplayInv, NothingAhead, IsCleanup
<1>9. BootsFirst'
  BY <1>1 DEF ReplayInv, BootsFirst, IsCleanup
<1>10. ProgressIsDone'
  BY <1>1, <1>5 DEF ReplayInv, ProgressIsDone, IsCleanup
<1>11. ValuesAreKept'
  BY <1>1, <1>2 DEF ReplayInv, ValuesAreKept, ContextsKept, RowsKept, RowsAccepted, Whole
<1>12. D /\ OneReplay => sw.act.task = tasks /\ sw.listens = {sw.act.task} /\ ~ReplayAsked
  <2>1. D /\ OneReplay => sw.act.task = tasks
    BY <1>1, <1>3, ZeroIsNone DEF OneReplay
  <2> QED BY <1>1, <2>1 DEF OneReplay
<1>13. Clean' /\ OneReplay => OneReplay'
  <2>1. (ReplayAsked' => ReplayAsked) /\ (Queued("create")' => Queued("create")) /\ (Queued("create") => ReplayAsked)
    BY <1>1 DEF ReplayAsked, Queued, IsCleanup
  <2>2. CASE D
    <3>1. OneReplay => \A i \in replayJobs' : (i.kind \in Endings => i.task = tasks) /\ i.then # "create"
      BY <1>1, <1>12, <2>2 DEF OneReplay, IsCleanup
    <3>2. OneReplay => sw'.listens = {} /\ sw'.act = NoReplaySession /\ sw'.act.task = 0
      BY <1>1, <1>12, <2>2, NoneIsSession
    <3>3. Clean' /\ OneReplay => ss'.ret \in {0, tasks}
      BY <1>5, <1>12, <2>2 DEF OneReplay
    <3>4. OneReplay => ~ReplayAsked' /\ ~Queued("create")'
      BY <1>12, <2>1, <2>2
    <3> QED BY <3>1, <3>2, <3>3, <3>4 DEF OneReplay
  <2>3. CASE ~D
    <3>1. Clean' => ss'.ret = ss.ret
      BY <1>5, <2>3
    <3>2. sw' = sw /\ \A i \in replayJobs' : i \in replayJobs
      BY <1>1, <2>3
    <3> QED BY <2>1, <3>1, <3>2 DEF OneReplay
  <2> QED BY <2>2, <2>3
<1>14. Clean' /\ EndIsOwn => EndIsOwn'
  <2>1. \A a : Ran(a)' <=> Ran(a)
    BY DEF Ran
  <2> QED BY <1>1, <1>4, <2>1 DEF EndIsOwn, IsCleanup
<1>15. Clean' /\ OneRuns => OneRuns'
  <2>1. \A i : Reported(i)' => Reported(i)
    BY <1>1, ReportedInMail, ReportedInMailNext DEF IsCleanup
  <2> QED BY <1>1, <1>4, <2>1 DEF OneRuns, IsCleanup
<1>16. Clean' /\ OneReplay /\ RetainedIsLeft => RetainedIsLeft'
  <2>1. CASE ss'.ret = ss.ret
    BY <1>1, <2>1 DEF RetainedIsLeft
  <2>2. CASE Clean' => ~close /\ D /\ \A i \in replayJobs : i.kind \notin Endings
    BY <1>1, <2>2 DEF RetainedIsLeft, IsCleanup
  <2> QED BY <1>5, <2>1, <2>2
<1> QED BY <1>2, <1>6, <1>7, <1>8, <1>9, <1>10, <1>11, <1>13, <1>14, <1>15, <1>16 DEF ReplayInv, WhenClean

\* The end that a runner reports is noted for a handler.
LEMMA ReportIsTaken ==
  ASSUME ReplayInv, NEW m \in Mail(inbox), m \in ReplayMessages, m.task \in Tasks, m.kind = "complete", m.task <= tasks,
         inbox' \in Seq(ReplayMessages), Len(inbox') <= MaxWire + 1, Mail(inbox)' \subseteq Mail(inbox),
         NEW k, JobTyped(k), k.kind \in {"retain", "late"}, k.task = m.task, k.ses = NoReplaySession, k.then = "none",
         k.kind = "retain" => m.status = "success", k.kind = "late" => k.status = m.status,
         replayJobs' = replayJobs \cup {k},
         UNCHANGED <<sw, ss, alarms, tab, news, wiz, srv, tasks, owner, done, replayLeft, replayMishaps>>
  PROVE  ReplayInv'
<1>1. \A i \in replayJobs' : i \in replayJobs \/ i = k
  OBVIOUS
<1>2. k.kind \notin Endings /\ k.kind \notin {"create", "start", "abort", "boot"}
  BY DEF Endings
<1>3. ReplayTyped'
  BY <1>1 DEF ReplayInv, ReplayTyped, SwTyped, SsTyped, OfTask, TabsTyped, WizardTyped, ServerTyped,
     BoundsTyped, WireTyped, JobsTyped
<1>4. ChainSound'
  BY <1>1, <1>2, ChainShrinks DEF ReplayInv, OffChain
<1>5. NothingAhead'
  <2>1. NoReplaySession.task <= tasks
    BY NoneIsSession DEF ReplayInv, ReplayTyped, ServerTyped
  <2> QED BY <1>1, <2>1 DEF ReplayInv, NothingAhead
<1>6. BootsFirst'
  <2>1. \A j \in replayJobs : j.kind = "boot" => j.task # m.task
    BY DEF ReplayInv, BootsFirst
  <2> QED BY <1>1, <1>2, <2>1 DEF ReplayInv, BootsFirst
<1>7. ProgressIsDone'
  <2>1. m.status = "success" => done[m.task] = Steps
    BY DEF ReplayInv, ProgressIsDone
  <2> QED BY <1>1, <2>1 DEF ReplayInv, ProgressIsDone
<1>8. ValuesAreKept'
  BY DEF ReplayInv, ValuesAreKept, Sighted, ContextsKept, RowsKept, RowsAccepted, Whole
<1>9. (OneReplay => OneReplay') /\ (EndIsOwn => EndIsOwn') /\ (RetainedIsLeft => RetainedIsLeft')
  BY <1>1, <1>2 DEF OneReplay, ReplayAsked, Queued, EndIsOwn, Ran, RetainedIsLeft
<1>10. OneRuns => OneRuns'
  <2>1. \A i : Reported(i)' => Reported(i)
    BY <1>1, ReportedInMail, ReportedInMailNext
  <2> QED BY <1>1, <1>2, <2>1 DEF OneRuns, Endings
<1> QED BY <1>3, <1>4, <1>5, <1>6, <1>7, <1>8, <1>9, <1>10 DEF ReplayInv, WhenClean, Clean

\* Tabs are closed behind the service worker's back.
LEMMA TabGoes ==
  ASSUME ReplayInv, inbox' \in Seq(ReplayMessages), Len(inbox') <= MaxWire + 1, Mail(inbox)' \subseteq Mail(inbox),
         tab' \in [Tasks -> TabSet], \A i \in Tasks : tab'[i] = NoTab \/ tab'[i] = tab[i],
         UNCHANGED <<sw, ss, alarms, replayJobs, news, wiz, srv, tasks, owner, done, replayLeft, replayMishaps>>
  PROVE  ReplayInv'
<1>1. ReplayTyped'
  BY DEF ReplayInv, ReplayTyped, SwTyped, SsTyped, OfTask, TabsTyped, WizardTyped, ServerTyped, BoundsTyped, WireTyped, JobsTyped,
    JobTyped
<1>2. ChainSound' /\ NothingAhead'
  BY DEF ReplayInv, ChainSound, OnChain, Queued, NothingAhead
<1>3. BootsFirst' /\ ProgressIsDone'
  BY NoTabIs, JobNamesTask DEF ReplayInv, ReplayTyped, BootsFirst, ProgressIsDone
<1>4. ValuesAreKept'
  <2>1. ContextsKept => ContextsKept'
    BY NoTabIs DEF ContextsKept
  <2> QED BY <2>1 DEF ReplayInv, ValuesAreKept, Sighted, RowsKept, RowsAccepted, Whole
<1>5. (OneReplay => OneReplay') /\ (EndIsOwn => EndIsOwn') /\ (RetainedIsLeft => RetainedIsLeft')
  BY DEF OneReplay, ReplayAsked, Queued, EndIsOwn, Ran, RetainedIsLeft
<1>6. OneRuns => OneRuns'
  <2>1. \A i : Reported(i)' => Reported(i)
    BY ReportedInMail, ReportedInMailNext
  <2>2. \A i \in Tasks : (tab'[i].run => tab[i].run) /\ (tab'[i].run /\ ~tab'[i].abort => tab[i].run /\ ~tab[i].abort)
    BY NoTabIs
  <2>3. \A k \in replayJobs : k.kind = "clear" => k.task \in Tasks
    BY JobNamesTask DEF ReplayInv, ReplayTyped
  <2> QED BY <2>1, <2>2, <2>3 DEF OneRuns
<1> QED BY <1>1, <1>2, <1>3, <1>4, <1>5, <1>6 DEF ReplayInv, WhenClean, Clean

\* The handler of an end that finds no active replay.
LEMMA LateJob ==
  ASSUME NEW n \in Tasks, NEW st \in ReplayStatus
  PROVE  LET k == [ReplayJob("late", n) EXCEPT !.status = st] IN
         /\ JobTyped(k) /\ k.kind = "late" /\ k.task = n /\ k.status = st /\ k.ses = NoReplaySession /\ k.then = "none"
<1> DEFINE r == ReplayJob("late", n)
           k == [r EXCEPT !.status = st]
<1>1. n \in 0..MaxTasks /\ "late" \in JobKinds
  BY ZeroIsNone DEF JobKinds, TaskJobs
<1>2. r \in ReplayJobSet /\ r.kind = "late" /\ r.task = n /\ r.then = "none" /\ r.ses = NoReplaySession
  BY <1>1, ReplayJobTyped, ZenonT(60)
<1> HIDE DEF r
<1>3. k \in ReplayJobSet
  BY <1>2 DEF ReplayJobSet
<1>4. k.kind = "late" /\ k.task = n /\ k.ses = NoReplaySession /\ k.then = "none" /\ k.status = st
  BY <1>2 DEF ReplayJobSet
<1>5. JobTyped(k)
  <2> HIDE DEF k
  <2> QED BY <1>3, <1>4 DEF JobTyped, TaskJobs
<1> QED BY <1>4, <1>5 DEF r

\* The end of a run keeps the invariant when it is heard (REPLAY_COMPLETE).
LEMMA TakeCompleteKeeps ==
  ASSUME ReplayInv, Deliver, Head(inbox).kind = "complete"
  PROVE  ReplayInv'
<1> DEFINE m == Head(inbox)
           n == m.task
<1>1. /\ m \in Mail(inbox) /\ m \in ReplayMessages /\ n \in Tasks /\ n <= tasks
      /\ inbox' \in Seq(ReplayMessages) /\ Len(inbox') <= MaxWire + 1 /\ Mail(inbox)' \subseteq Mail(inbox)
      /\ UNCHANGED <<ss, news, alarms, wiz, srv, tasks, owner, done, replayLeft, replayMishaps>>
      /\ m.kind = "complete" /\ TakeComplete(m)
  BY DeliverIs
<1>2. m.status \in ReplayStatus
  BY <1>1 DEF ReplayMessages
<1>3. CASE /\ Active(n) /\ KeepsTab(m.status)
           /\ replayJobs' = replayJobs \cup {ReplayJob("retain", n)} /\ UNCHANGED <<sw, tab>>
  <2> DEFINE k == ReplayJob("retain", n)
  <2>1. n \in 0..MaxTasks /\ "retain" \in JobKinds
    BY <1>1, ZeroIsNone DEF JobKinds, TaskJobs
  <2>2. JobTyped(k) /\ k.kind = "retain" /\ k.task = n /\ k.then = "none" /\ k.ses = NoReplaySession
    <3>1. n \in Tasks /\ "retain" # "restore"
      BY <1>1
    <3> HIDE DEF n
    <3> QED BY <2>1, <3>1, ReplayJobTyped
  <2>3. m.status = "success" /\ replayJobs' = replayJobs \cup {k}
    BY <1>3 DEF KeepsTab
  <2> HIDE DEF k, m
  <2> QED BY <1>1, <1>3, <2>2, <2>3, ReportIsTaken
<1>4. CASE /\ Active(n) /\ ~KeepsTab(m.status)
           /\ replayJobs' = replayJobs \cup CleanupOf(sw, m.status, FALSE, TRUE, "none")
           /\ sw' = Dropped(sw) /\ UNCHANGED tab
  <2>1. sw.act.task = n /\ sw.act # NoReplaySession /\ m.status # "success"
    BY <1>1, <1>4, ZeroIsNone, NoneIsSession DEF Active, KeepsTab
  <2>2. \A i \in replayJobs' : i \in replayJobs \/ IsCleanup(i, sw.act.task, m.status, FALSE, TRUE, "none")
    <3>1. \A i \in CleanupOf(sw, m.status, FALSE, TRUE, "none") : IsCleanup(i, sw.act.task, m.status, FALSE, TRUE, "none")
      BY <1>2, <2>1, CleanupIs, ZenonT(60) DEF ReplayInv, ReplayTyped
    <3> QED BY <1>4, <3>1
  <2>3. Clean' => ~tab[sw.act.task].run
    <3>1. Reported(n)
      BY <1>1, ReportedInMail
    <3> QED BY <1>1, <2>1, <3>1 DEF ReplayInv, WhenClean, OneRuns, Clean
  <2>4. ss \in SsSet /\ replayMishaps \subseteq ReplayMishaps
    BY DEF ReplayInv, ReplayTyped, SsTyped, BoundsTyped
  <2> HIDE DEF m
  <2> QED BY <1>1, <1>2, <1>4, <2>1, <2>2, <2>3, <2>4, ActiveEnds
<1>5. CASE sw.act # NoReplaySession /\ ~Active(n) /\ CloseReplayTab(n) /\ UNCHANGED <<sw, replayJobs>>
  <2>1. tab' \in [Tasks -> TabSet] /\ \A i \in Tasks : tab'[i] = NoTab \/ tab'[i] = tab[i]
    BY <1>1, <1>5, ZeroIsNone, TabCloses DEF ReplayInv, ReplayTyped
  <2> QED BY <1>1, <1>5, <2>1, TabGoes
<1>6. CASE /\ sw.act = NoReplaySession
           /\ replayJobs' = replayJobs \cup {[ReplayJob("late", n) EXCEPT !.status = m.status]} /\ UNCHANGED <<sw, tab>>
  <2> DEFINE k == [ReplayJob("late", n) EXCEPT !.status = m.status]
  <2>1. JobTyped(k) /\ k.kind = "late" /\ k.task = n /\ k.status = m.status /\ k.ses = NoReplaySession /\ k.then = "none"
    BY <1>1, <1>2, LateJob
  <2>2. replayJobs' = replayJobs \cup {k}
    BY <1>6
  <2> HIDE DEF k, m
  <2> QED BY <1>1, <1>6, <2>1, <2>2, ReportIsTaken
<1> QED BY <1>1, <1>3, <1>4, <1>5, <1>6 DEF TakeComplete

\* A message of the runner keeps the invariant.
LEMMA DeliverKeeps ==
  ASSUME ReplayInv, Deliver
  PROVE  ReplayInv'
<1>1. Head(inbox).kind \in {"context", "complete", "result", "beat"}
  BY DeliverIs
<1> QED BY <1>1, TakeContextKeeps, TakeProgressKeeps, TakeCompleteKeeps

\* The retention of a successful tab keeps the invariant (retainSuccessfulReplayTab).
LEMMA RetainKeeps ==
  ASSUME ReplayInv, NEW j \in replayJobs, Retain(j)
  PROVE  ReplayInv'
<1>1. /\ j.kind = "retain" /\ ss' = [ss EXCEPT !.ret = j.task]
      /\ replayJobs' = (replayJobs \ {j}) \cup CleanupOf(sw, "success", FALSE, FALSE, "none")
      /\ sw' = IF sw.act = NoReplaySession THEN sw ELSE Dropped(sw)
      /\ replayMishaps' = replayMishaps \cup (IF Active(j.task) /\ ~Ending(j.task) THEN {} ELSE {"late"})
      /\ UNCHANGED <<alarms, tab, inbox, news, wiz, srv, tasks, owner, done, replayLeft>>
  BY DEF Retain, ReplayRunning, Replace, Note
<1>2. j.task \in Tasks /\ j.task <= tasks /\ done[j.task] = Steps
  BY <1>1, JobNamesTask DEF ReplayInv, ReplayTyped, NothingAhead, ProgressIsDone
<1>3. ss \in SsSet /\ replayMishaps \subseteq ReplayMishaps /\ j.task \in 0..MaxTasks
  BY <1>2, ZeroIsNone DEF ReplayInv, ReplayTyped, SsTyped, BoundsTyped
<1>4. /\ ss' \in SsSet /\ ss'.ses = ss.ses /\ ss'.pay = ss.pay /\ ss'.ctx = ss.ctx /\ ss'.rows = ss.rows
      /\ ss'.dsl = ss.dsl /\ ss'.ret = j.task
  BY <1>1, <1>3 DEF SsSet
<1>5. replayMishaps \subseteq replayMishaps' /\ replayMishaps' \subseteq ReplayMishaps
  BY <1>1, <1>3 DEF ReplayMishaps
<1>6. Clean' => Clean /\ Active(j.task) /\ ~Ending(j.task)
  BY <1>1 DEF Clean
<1>7. Clean' => sw.act.task = j.task /\ sw.act # NoReplaySession /\ sw' = Dropped(sw)
  BY <1>1, <1>2, <1>6, NoneIsSession, ZeroIsNone DEF Active
<1>8. Clean' => \A i \in replayJobs : i.kind \notin Endings
  <2>1. Clean' => OneReplay
    BY <1>6 DEF ReplayInv, WhenClean
  <2>2. Clean' => j.task = tasks
    BY <1>2, <1>7, <2>1, ZeroIsNone DEF OneReplay
  <2> QED BY <1>6, <2>1, <2>2 DEF OneReplay, Ending, Endings
<1>9. Clean' => ~tab[sw.act.task].run
  <2>1. Reported(j.task)
    BY <1>1, ReportedInMail
  <2> QED BY <1>2, <1>6, <1>7, <2>1 DEF ReplayInv, WhenClean, OneRuns
<1>10. \/ sw' = sw /\ replayJobs' \subseteq replayJobs
       \/ /\ sw.act # NoReplaySession /\ sw' = Dropped(sw)
          /\ \A i \in replayJobs' : i \in replayJobs \/ IsCleanup(i, sw.act.task, "success", FALSE, FALSE, "none")
  <2>1. "success" \in ReplayStatus
    BY DEF ReplayStatus
  <2>2. /\ sw.act = NoReplaySession => CleanupOf(sw, "success", FALSE, FALSE, "none") = {}
        /\ sw.act # NoReplaySession => \A i \in CleanupOf(sw, "success", FALSE, FALSE, "none") :
             IsCleanup(i, sw.act.task, "success", FALSE, FALSE, "none")
    BY <2>1, CleanupIs, ZenonT(60) DEF ReplayInv, ReplayTyped
  <2> QED BY <1>1, <2>2
<1>11. inbox' \in Seq(ReplayMessages) /\ Len(inbox') <= MaxWire + 1 /\ Mail(inbox)' \subseteq Mail(inbox)
  BY <1>1 DEF ReplayInv, ReplayTyped, WireTyped, Mail
<1>12. "success" \in ReplayStatus /\ FALSE \in BOOLEAN
  BY DEF ReplayStatus
<1>13. /\ UNCHANGED <<alarms, tab, news, wiz, srv, tasks, owner, done, replayLeft>>
       /\ ss'.ret \in Tasks /\ ss'.ret <= tasks /\ done[ss'.ret] = Steps
  BY <1>1, <1>2, <1>4
<1>14. Clean' => sw.act.task = ss'.ret /\ ~FALSE /\ sw' = Dropped(sw) /\ \A i \in replayJobs : i.kind \notin Endings
  BY <1>4, <1>7, <1>8
<1>15. Clean' /\ sw.act # NoReplaySession /\ sw' = Dropped(sw) =>
           /\ FALSE \/ ~tab[sw.act.task].run
           /\ "success" = "success" => done[sw.act.task] = Steps
  BY <1>2, <1>7, <1>9
<1> QED BY <1>4, <1>5, <1>10, <1>11, <1>12, <1>13, <1>14, <1>15, ActiveEnds

\* An end heard by a service worker that was restarted keeps the invariant.
LEMMA LateCompleteKeeps ==
  ASSUME ReplayInv, NEW j \in replayJobs, LateComplete(j)
  PROVE  ReplayInv'
<1> DEFINE n == j.task
           a == [kind |-> "complete", status |-> j.status, got |-> {}]
           H == Hears(n)
<1>1. /\ j.kind = "late" /\ Len(news) < MaxWire
      /\ replayMishaps' = replayMishaps \cup (IF sw.act # NoReplaySession \/ Ending(n) THEN {"late"} ELSE {})
      /\ UNCHANGED <<alarms, inbox, wiz, srv, tasks, owner, done, replayLeft>>
  BY DEF LateComplete, ReplayRunning, Note
<1>2. n \in Tasks /\ n <= tasks /\ j.status \in ReplayStatus /\ (j.status = "success" => done[n] = Steps)
  BY <1>1, JobNamesTask DEF ReplayInv, ReplayTyped, NothingAhead, ProgressIsDone, ReplayJobSet
<1>3. ss \in SsSet /\ n \in 0..MaxTasks /\ NoReplaySession \in StoredSession /\ sw \in SwSet /\ SwTyped
  BY <1>2, ZeroIsNone, NoneIsSession DEF ReplayInv, ReplayTyped, SsTyped, SwTyped
<1>4. /\ tab' \in [Tasks -> TabSet] /\ \A i \in Tasks : tab'[i] = NoTab \/ tab'[i] = tab[i]
  <2>1. CloseReplayTab(n) \/ UNCHANGED tab
    BY DEF LateComplete
  <2> QED BY <1>3, <2>1, TabCloses DEF ReplayInv, ReplayTyped, TabsTyped
<1>5. \/ /\ sw' = sw /\ \A i \in replayJobs' : i \in replayJobs
      \/ /\ sw' = ClosedSw(n, sw) /\ \A i \in replayJobs' : i \in replayJobs \/ i \in ClosedJobs(n)
  BY DEF LateComplete, Replace
<1>6. /\ sw' \in SwSet /\ OfTask(sw'.act) /\ sw'.rows = sw.rows
      /\ \A i \in replayJobs' : i \in replayJobs \/ (H /\ IsCleanup(i, sw.act.task, "failure", FALSE, FALSE, "none"))
      /\ ~H => sw' = sw
      /\ H => sw.act # NoReplaySession
      /\ sw' = sw \/ (sw'.act = NoReplaySession /\ sw'.listens = sw.listens \ {sw.act.task})
  <2>1. /\ H => sw.act # NoReplaySession
        /\ OfTask(sw.act)
    BY <1>3 DEF Hears, SwTyped
  <2>2. /\ ClosedSw(n, sw) \in SwSet /\ OfTask(ClosedSw(n, sw).act)
        /\ ClosedSw(n, sw).rows = sw.rows
        /\ ~H => ClosedJobs(n) = {} /\ ClosedSw(n, sw) = sw
        /\ H => /\ ClosedSw(n, sw).act = NoReplaySession
                /\ ClosedSw(n, sw).listens = sw.listens \ {sw.act.task}
                /\ \A k \in ClosedJobs(n) : IsCleanup(k, sw.act.task, "failure", FALSE, FALSE, "none")
    BY <1>3, ClosingIs
  <2> HIDE DEF H
  <2>3. CASE sw' = sw /\ \A i \in replayJobs' : i \in replayJobs
    BY <1>3, <2>1, <2>3
  <2>4. CASE /\ sw' = ClosedSw(n, sw) /\ \A i \in replayJobs' : i \in replayJobs \/ i \in ClosedJobs(n)
    <3>1. sw' \in SwSet /\ OfTask(sw'.act) /\ sw'.rows = sw.rows
      BY <2>2, <2>4
    <3>2. \A i \in replayJobs' : i \in replayJobs \/ (H /\ IsCleanup(i, sw.act.task, "failure", FALSE, FALSE, "none"))
      BY <2>2, <2>4
    <3>3. (~H => sw' = sw) /\ (H => sw'.act = NoReplaySession /\ sw'.listens = sw.listens \ {sw.act.task})
      BY <2>2, <2>4
    <3> QED BY <2>1, <3>1, <3>2, <3>3
  <2> QED BY <1>5, <2>3, <2>4
<1>7. a \in ReplayNews /\ a.got = {} /\ a.status = j.status
  BY <1>2 DEF ReplayNews
<1> HIDE DEF a, H
<1>8. \/ /\ ss' = ss /\ news' = news
      \/ /\ ss.ses.task = n /\ Tell(<<a>>)
         /\ \/ ss' = [ss EXCEPT !.ses = NoReplaySession]
            \/ j.status = "success" /\ ss' = [ss EXCEPT !.ret = n, !.ses = NoReplaySession]
  BY DEF LateComplete, LateMatches, a
<1>9. /\ ss' \in SsSet /\ ss'.pay = ss.pay /\ ss'.ctx = ss.ctx /\ ss'.rows = ss.rows /\ ss'.dsl = ss.dsl
      /\ \/ ss'.ses = ss.ses /\ ss'.ret = ss.ret /\ news' = news
         \/ /\ ss.ses.task = n /\ ss'.ses = NoReplaySession /\ Tell(<<a>>)
            /\ ss'.ret = ss.ret \/ (j.status = "success" /\ ss'.ret = n)
  <2>1. CASE ss' = ss /\ news' = news
    BY <1>3, <2>1
  <2>2. CASE ss' = [ss EXCEPT !.ses = NoReplaySession] /\ ss.ses.task = n /\ Tell(<<a>>)
    BY <1>3, <2>2 DEF SsSet
  <2>3. CASE ss' = [ss EXCEPT !.ret = n, !.ses = NoReplaySession] /\ ss.ses.task = n /\ Tell(<<a>>) /\ j.status = "success"
    BY <1>3, <2>3 DEF SsSet
  <2> QED BY <1>8, <2>1, <2>2, <2>3
<1>10. /\ news' \in Seq(ReplayNews) /\ Len(news') <= MaxWire + 1
       /\ \A m \in Mail(news)' : m \in Mail(news) \/ (ss.ses.task = n /\ m.got = {} /\ m.status = j.status)
  <2>1. CASE news' = news
    BY <2>1 DEF ReplayInv, ReplayTyped, WireTyped, Mail
  <2>2. CASE Tell(<<a>>) /\ ss.ses.task = n
    <3>1. news' \in Seq(ReplayNews) /\ Len(news') <= MaxWire + 1 /\ Mail(news)' = Mail(news) \cup {a}
      BY <1>1, <1>7, <2>2, Tells DEF ReplayInv, ReplayTyped
    <3> QED BY <1>7, <2>2, <3>1
  <2> QED BY <1>9, <2>1, <2>2
<1>11. /\ ss'.ses = ss.ses /\ ss'.ret = ss.ret
       \/ /\ ss.ses.task = n /\ ss'.ses = NoReplaySession
          /\ ss'.ret = ss.ret \/ (j.status = "success" /\ ss'.ret = n)
  BY <1>9
<1>12. replayMishaps \subseteq replayMishaps' /\ replayMishaps' \subseteq ReplayMishaps /\ (Clean' => Clean) /\ (Sighted' => Sighted)
  <2>1. replayMishaps \subseteq ReplayMishaps
    BY DEF ReplayInv, ReplayTyped, BoundsTyped
  <2> QED BY <1>1, <2>1 DEF Clean, Sighted, ReplayMishaps
<1>13. Clean' => sw.act = NoReplaySession /\ ~Ending(n) /\ sw' = sw /\ ~H
  BY <1>1, <1>6 DEF Clean
<1>14. ReplayTyped'
  <2>1. SwTyped' /\ SsTyped'
    BY <1>6, <1>9, <1>11, NoneIsSession DEF ReplayInv, ReplayTyped, SwTyped, SsTyped, OfTask
  <2>2. TabsTyped' /\ WizardTyped' /\ BoundsTyped' /\ ServerTyped' /\ WireTyped'
    BY <1>1, <1>4, <1>9, <1>10, <1>12 DEF ReplayInv, ReplayTyped, TabsTyped, WizardTyped, BoundsTyped, ServerTyped, WireTyped
  <2>3. JobsTyped'
    BY <1>6 DEF ReplayInv, ReplayTyped, JobsTyped, IsCleanup
  <2> QED BY <2>1, <2>2, <2>3 DEF ReplayTyped
<1>15. ChainSound'
  BY <1>1, <1>6, ChainShrinks DEF ReplayInv, OffChain, IsCleanup
<1>16. NothingAhead'
  <2>1. NoReplaySession.task <= tasks
    BY NoneIsSession DEF ReplayInv, ReplayTyped, ServerTyped
  <2>2. sw'.act.task <= tasks /\ ss'.ses.task <= tasks /\ ss'.ret <= tasks
    BY <1>2, <1>6, <1>11, <2>1 DEF ReplayInv, NothingAhead
  <2> QED BY <1>1, <1>4, <1>6, <1>9, <2>1, <2>2 DEF ReplayInv, NothingAhead, IsCleanup
<1>17. BootsFirst'
  BY <1>1, <1>4, <1>6, <1>9, NoTabIs, JobNamesTask DEF ReplayInv, ReplayTyped, BootsFirst, IsCleanup
<1>18. ProgressIsDone'
  BY <1>1, <1>2, <1>4, <1>6, <1>9, <1>11, NoTabIs DEF ReplayInv, ProgressIsDone, IsCleanup
<1>19. ValuesAreKept'
  <2>1. ContextsKept => ContextsKept'
    BY <1>1, <1>4, <1>9, NoTabIs DEF ContextsKept
  <2>2. RowsKept => RowsKept'
    BY <1>1, <1>6, <1>9, <1>10 DEF RowsKept, Whole
  <2> QED BY <1>1, <1>12, <2>1, <2>2 DEF ReplayInv, ValuesAreKept, RowsAccepted
<1>20. Clean' => \A i \in replayJobs' : i \in replayJobs
  BY <1>6, <1>13
<1>21. ss.ses.task = n => ss.ses # NoReplaySession
  BY <1>2, NoneIsSession, ZeroIsNone
<1>22. Clean' /\ OneReplay => OneReplay'
  <2>1. Clean' => (ReplayAsked' => ReplayAsked) /\ (Queued("create")' => Queued("create"))
    BY <1>20 DEF ReplayAsked, Queued
  <2>2. Queued("create") => ReplayAsked
    BY DEF ReplayAsked
  <2>3. OneReplay /\ ReplayAsked => ss'.ses = ss.ses /\ ss'.ret = ss.ret
    BY <1>11, <1>21 DEF OneReplay
  <2>4. OneReplay => ss'.ses.task \in {0, tasks} /\ ss'.ret \in {0, tasks}
    BY <1>11, NoneIsSession DEF OneReplay
  <2> QED BY <1>1, <1>13, <1>20, <2>1, <2>2, <2>3, <2>4 DEF OneReplay
<1>23. Clean' /\ EndIsOwn => EndIsOwn'
  <2>1. \A i : Ran(i)' <=> Ran(i)
    BY <1>1 DEF Ran
  <2>2. EndIsOwn /\ ss.ses.task = n /\ j.status = "success" => Ran(ss.dsl)
    BY <1>2, <1>21 DEF EndIsOwn, Ran
  <2>3. EndIsOwn /\ (\E m \in Mail(news)' : m.status = "success") => Ran(ss.dsl)
    BY <1>10, <2>2 DEF EndIsOwn
  <2> QED BY <1>1, <1>9, <1>11, <1>13, <1>20, <2>1, <2>3 DEF EndIsOwn
<1>24. Clean' /\ OneRuns => OneRuns'
  <2>1. Clean' => \A i : Reported(i)' => Reported(i)
    BY <1>1, <1>20, ReportedInMail, ReportedInMailNext
  <2>2. \A i \in Tasks : (tab'[i].run => tab[i].run) /\ (tab'[i].run /\ ~tab'[i].abort => tab[i].run /\ ~tab[i].abort)
    BY <1>4, NoTabIs
  <2>3. \A k \in replayJobs : k.kind = "clear" => k.task \in Tasks
    BY JobNamesTask DEF ReplayInv, ReplayTyped
  <2>4. Reported(n)
    BY <1>1, ReportedInMail
  <2>5. OneRuns => ~tab[n].run
    BY <1>2, <2>4 DEF OneRuns
  <2> QED BY <1>1, <1>9, <1>11, <1>13, <1>20, <2>1, <2>2, <2>3, <2>5 DEF OneRuns
<1>25. Clean' /\ OneReplay /\ RetainedIsLeft => RetainedIsLeft'
  <2>1. OneReplay /\ ss.ses.task = n => n = tasks
    BY <1>2, ZeroIsNone DEF OneReplay
  <2>2. Clean' /\ OneReplay /\ ss.ses.task = n => \A i \in replayJobs : i.kind \notin Endings
    BY <1>13, <2>1 DEF OneReplay, Ending, Endings
  <2> QED BY <1>1, <1>11, <1>13, <1>20, <2>2 DEF RetainedIsLeft
<1> QED BY <1>12, <1>14, <1>15, <1>16, <1>17, <1>18, <1>19, <1>22, <1>23, <1>24, <1>25 DEF ReplayInv, WhenClean

-----------------------------------------------------------------------------
(* The replay: a new one is made.                                           *)

\* The handler that makes a replay.
LEMMA CreateJob ==
  LET k == ReplayJob("create", 0) IN
  JobTyped(k) /\ k.kind = "create" /\ k.task = 0 /\ k.then = "none" /\ k.ses = NoReplaySession
<1>1. "create" \in JobKinds /\ "create" \notin TaskJobs /\ "create" # "restore"
  BY DEF JobKinds, TaskJobs, Endings
<1> QED BY <1>1, ZeroIsNone, ReplayJobTyped, ZenonT(60)

\* The request for a replay keeps the invariant (START_REPLAY).
LEMMA StartKeeps ==
  ASSUME ReplayInv, NEW j \in replayJobs, Start(j)
  PROVE  ReplayInv'
<1> DEFINE D == sw.act # NoReplaySession
<1>1. /\ j.kind = "start" /\ OnChain = {} /\ ss' = [ss EXCEPT !.ret = 0] /\ CloseReplayTab(ss.ret)
      /\ UNCHANGED <<alarms, inbox, news, wiz, srv, tasks, owner, done, replayLeft, replayMishaps>>
  BY DEF Start, ReplayRunning
<1>2. ss \in SsSet /\ ss.ret \in 0..MaxTasks /\ SwTyped
  BY DEF ReplayInv, ReplayTyped, SsTyped, SsSet
<1>3. /\ ss' \in SsSet /\ ss'.ses = ss.ses /\ ss'.pay = ss.pay /\ ss'.ctx = ss.ctx /\ ss'.rows = ss.rows
      /\ ss'.dsl = ss.dsl /\ ss'.ret = 0
  BY <1>1, <1>2, ZeroIsNone DEF SsSet
<1>4. tab' \in [Tasks -> TabSet] /\ \A i \in Tasks : tab'[i] = NoTab \/ tab'[i] = tab[i]
  BY <1>1, <1>2, TabCloses DEF ReplayInv, ReplayTyped
<1>5. PICK k : /\ \A i \in replayJobs' : (i \in replayJobs /\ i # j) \/ i = k
               /\ JobTyped(k) /\ k.kind # "start" /\ k.kind \notin {"boot", "retain", "late"} /\ k.ses = NoReplaySession
               /\ D \/ (k.kind = "create" /\ k.task = 0 /\ k.then = "none" /\ sw' = sw)
               /\ D => k.kind = "clear" /\ k.then = "create" /\ k.task = sw.act.task /\ sw' = Dropped(sw)
  <2>1. CASE ~D
    <3> DEFINE k == ReplayJob("create", 0)
    <3>1. JobTyped(k) /\ k.kind = "create" /\ k.task = 0 /\ k.then = "none" /\ k.ses = NoReplaySession
      BY CreateJob
    <3>2. replayJobs' = (replayJobs \ {j}) \cup {k} /\ sw' = sw
      BY <2>1 DEF Start, Replace
    <3> HIDE DEF k
    <3> QED BY <2>1, <3>1, <3>2
  <2>2. CASE D
    <3>1. "failure" \in ReplayStatus
      BY DEF ReplayStatus
    <3>2. PICK k : CleanupOf(sw, "failure", TRUE, TRUE, "create") = {k} /\ IsCleanup(k, sw.act.task, "failure", TRUE, TRUE, "create")
      BY <1>2, <2>2, <3>1, CleanupIs
    <3>3. replayJobs' = (replayJobs \ {j}) \cup CleanupOf(sw, "failure", TRUE, TRUE, "create") /\ sw' = Dropped(sw)
      BY <2>2 DEF Start, Replace
    <3> QED BY <2>2, <3>2, <3>3 DEF IsCleanup
  <2> QED BY <2>1, <2>2
<1>6. /\ sw' \in SwSet /\ OfTask(sw'.act) /\ sw'.rows = sw.rows
      /\ D => sw'.act = NoReplaySession
  BY <1>2, <1>5, DroppedIs, NoneIsSession DEF SwTyped
<1>7. Clean => ~D
  BY <1>1 DEF ReplayInv, WhenClean, OneReplay, ReplayAsked, Queued
<1> HIDE DEF D
<1>8. ReplayTyped'
  <2>1. SwTyped' /\ SsTyped'
    BY <1>3, <1>6 DEF ReplayInv, ReplayTyped, SwTyped, SsTyped, OfTask
  <2>2. TabsTyped' /\ WizardTyped' /\ BoundsTyped' /\ ServerTyped' /\ WireTyped'
    BY <1>1, <1>3, <1>4 DEF ReplayInv, ReplayTyped, TabsTyped, WizardTyped, BoundsTyped, ServerTyped, WireTyped
  <2>3. JobsTyped'
    BY <1>5 DEF ReplayInv, ReplayTyped, JobsTyped
  <2> QED BY <2>1, <2>2, <2>3 DEF ReplayTyped
<1>9. ChainSound'
  <2>1. \A i \in OnChain' : i = k
    BY <1>1, <1>5 DEF OnChain
  <2>2. ~Queued("start")'
    BY <1>1, <1>5 DEF Queued, ReplayInv, ChainSound
  <2>3. tasks' < MaxTasks
    BY <1>1 DEF ReplayInv, ChainSound, Queued
  <2>4. \A i1, i2 \in replayJobs' : i1.kind = "start" /\ i2.kind = "start" => i1 = i2
    BY <2>2 DEF Queued
  <2> QED BY <2>1, <2>2, <2>3, <2>4 DEF ChainSound
<1>10. NothingAhead'
  <2>1. NoReplaySession.task <= tasks /\ 0 <= tasks
    BY NoneIsSession DEF ReplayInv, ReplayTyped, ServerTyped
  <2>2. sw'.act.task <= tasks /\ k.task <= tasks
    BY <1>5, <1>6, <2>1 DEF ReplayInv, NothingAhead
  <2> QED BY <1>1, <1>3, <1>4, <1>5, <2>1, <2>2 DEF ReplayInv, NothingAhead
<1>11. BootsFirst'
  BY <1>1, <1>3, <1>4, <1>5, NoTabIs, JobNamesTask DEF ReplayInv, ReplayTyped, BootsFirst
<1>12. ProgressIsDone'
  BY <1>1, <1>3, <1>4, <1>5, NoTabIs DEF ReplayInv, ProgressIsDone
<1>13. ValuesAreKept'
  <2>1. ContextsKept => ContextsKept'
    BY <1>1, <1>3, <1>4, NoTabIs DEF ContextsKept
  <2> QED BY <1>1, <1>3, <1>6, <2>1 DEF ReplayInv, ValuesAreKept, Sighted, RowsKept, RowsAccepted, Whole
<1>14. ~D => sw' = sw /\ k.kind = "create" /\ k.kind \notin Endings /\ k.then = "none"
  BY <1>5 DEF Endings
<1>15. ~D /\ OneReplay => OneReplay'
  <2>1. ReplayAsked
    BY <1>1 DEF ReplayAsked, Queued
  <2> QED BY <1>1, <1>3, <1>5, <1>14, <2>1 DEF OneReplay
<1>16. ~D /\ EndIsOwn => EndIsOwn'
  BY <1>1, <1>3, <1>5, <1>14 DEF EndIsOwn, Ran
<1>17. ~D /\ OneRuns => OneRuns'
  <2>1. \A i : Reported(i)' => Reported(i)
    BY <1>1, <1>5, ReportedInMail, ReportedInMailNext
  <2>2. \A i \in Tasks : (tab'[i].run => tab[i].run) /\ (tab'[i].run /\ ~tab'[i].abort => tab[i].run /\ ~tab[i].abort)
    BY <1>4, NoTabIs
  <2>3. \A i \in replayJobs : i.kind = "clear" => i.task \in Tasks
    BY JobNamesTask DEF ReplayInv, ReplayTyped
  <2> QED BY <1>1, <1>3, <1>5, <1>14, <2>1, <2>2, <2>3 DEF OneRuns
<1>18. RetainedIsLeft'
  BY <1>3 DEF RetainedIsLeft
<1> QED BY <1>1, <1>7, <1>8, <1>9, <1>10, <1>11, <1>12, <1>13, <1>15, <1>16, <1>17, <1>18 DEF ReplayInv, WhenClean, Clean

\* The handler that starts the runner.
LEMMA BootJob ==
  ASSUME NEW n \in Tasks
  PROVE  LET k == ReplayJob("boot", n) IN
         JobTyped(k) /\ k.kind = "boot" /\ k.task = n /\ k.then = "none" /\ k.ses = NoReplaySession
<1>1. "boot" \in JobKinds /\ "boot" # "restore"
  BY DEF JobKinds, TaskJobs
<1> QED BY <1>1, ZeroIsNone, ReplayJobTyped, ZenonT(60)

\* The making of a replay keeps the invariant.
LEMMA CreateKeeps ==
  ASSUME ReplayInv, NEW j \in replayJobs, Create(j)
  PROVE  ReplayInv'
<1> DEFINE n == tasks + 1
           s == [task |-> n, hops |-> 0]
           t == [NoTab EXCEPT !.open = TRUE, !.load = "loading"]
           k == ReplayJob("boot", n)
<1>1. /\ j.kind = "create" /\ tasks' = n /\ owner' = [owner EXCEPT ![n] = ss.dsl]
      /\ tab' = [tab EXCEPT ![n] = t]
      /\ ss' = [ss EXCEPT !.ses = s, !.pay = @ \cup {n}]
      /\ sw' = [sw EXCEPT !.act = s, !.listens = @ \cup {n}]
      /\ alarms' = alarms \cup {n} /\ replayJobs' = (replayJobs \ {j}) \cup {k}
      /\ wiz' = [wiz EXCEPT !.asked = "no"] /\ replayMishaps' = replayMishaps \cup Overlap
      /\ UNCHANGED <<inbox, news, srv, done, replayLeft>>
  BY DEF Create, ReplayRunning, Replace, Note
<1>2. j \in OnChain /\ j.then = "none" /\ tasks < MaxTasks /\ tasks \in Nat /\ MaxTasks \in Nat
  <2>1. j.then = "none"
    BY <1>1 DEF ReplayInv, ReplayTyped, JobsTyped, JobTyped, Endings
  <2>2. j \in OnChain
    BY <1>1 DEF OnChain
  <2> QED BY <2>1, <2>2, ReplayAssumption DEF ReplayInv, ChainSound, ReplayTyped, ServerTyped
<1>3. n \in Tasks /\ n > tasks /\ n # tasks /\ ~(n <= tasks) /\ n # 0 /\ tasks <= n
  BY <1>2 DEF Tasks
<1>4. s \in StoredSession /\ s.task = n /\ s # NoReplaySession
  BY <1>3, ReplayAssumption DEF StoredSession, Tasks, NoReplaySession
<1>5. t \in TabSet /\ t.pos = 0 /\ t.got = {} /\ t.ctl = -1
  <2>1. NoTab \in TabSet
    <3>1. 0 \in 0..LastStep /\ -1 \in -1..LastStep
      BY ReplayAssumption
    <3> QED BY <3>1 DEF TabSet, NoTab, ReplayPages
  <2>2. t \in TabSet /\ t.pos = NoTab.pos /\ t.got = NoTab.got /\ t.ctl = NoTab.ctl
    BY <2>1 DEF TabSet
  <2> QED BY <2>2, NoTabIs
<1>6. t.open /\ ~t.run /\ ~t.abort
  BY DEF NoTab
<1>7. JobTyped(k) /\ k.kind = "boot" /\ k.task = n /\ k.then = "none" /\ k.ses = NoReplaySession
  BY <1>3, BootJob
<1> HIDE DEF s, t, k
<1>8. sw \in SwSet /\ ss \in SsSet /\ wiz \in WizardSet /\ tab \in [Tasks -> TabSet] /\ owner \in [Tasks -> 0..MaxTasks]
  BY DEF ReplayInv, ReplayTyped, SwTyped, SsTyped, WizardTyped, TabsTyped, ServerTyped
<1>9. sw' \in SwSet /\ sw'.act = s /\ sw'.listens = sw.listens \cup {n} /\ sw'.rows = sw.rows
  BY <1>1, <1>3, <1>4, <1>8 DEF SwSet
<1>10. /\ ss' \in SsSet /\ ss'.ses = s /\ ss'.pay = ss.pay \cup {n} /\ ss'.ctx = ss.ctx /\ ss'.rows = ss.rows
       /\ ss'.dsl = ss.dsl /\ ss'.ret = ss.ret
  BY <1>1, <1>3, <1>4, <1>8 DEF SsSet
<1>11. tab' \in [Tasks -> TabSet] /\ tab'[n] = t /\ \A i \in Tasks \ {n} : tab'[i] = tab[i]
  BY <1>1, <1>3, <1>5, <1>8
<1>12. owner' \in [Tasks -> 0..MaxTasks] /\ owner'[n] = ss.dsl /\ \A i \in Tasks \ {n} : owner'[i] = owner[i]
  BY <1>1, <1>3, <1>8 DEF SsSet
<1>13. /\ wiz' \in WizardSet /\ wiz'.att = wiz.att /\ wiz'.sent = wiz.sent /\ wiz'.rows = wiz.rows
       /\ wiz'.open = wiz.open
       /\ ~wiz.open => wiz' = NoWizard
  <2>1. wiz' \in WizardSet /\ wiz'.att = wiz.att /\ wiz'.sent = wiz.sent /\ wiz'.rows = wiz.rows
    BY <1>1, <1>8 DEF WizardSet
  <2>2. wiz'.open = wiz.open
    BY <1>1, <1>8 DEF WizardSet
  <2>3. wiz = NoWizard => wiz' = NoWizard
    <3>1. wiz = NoWizard => wiz.asked = "no"
      BY DEF NoWizard
    <3>2. wiz.asked = "no" => [wiz EXCEPT !.asked = "no"] = wiz
      BY <1>8 DEF WizardSet
    <3> QED BY <1>1, <3>1, <3>2
  <2>4. ~wiz.open => wiz = NoWizard
    BY DEF ReplayInv, ReplayTyped, WizardTyped
  <2> QED BY <2>1, <2>2, <2>3, <2>4
<1>14. /\ tab[n] = NoTab /\ ss.ctx[n] = NoContext /\ done[n] = {} /\ n \notin ss.pay
  BY <1>3 DEF ReplayInv, NothingAhead
<1>15. \A i \in replayJobs' : (i \in replayJobs /\ i # j) \/ i = k
  BY <1>1
<1>16. replayMishaps \subseteq replayMishaps' /\ replayMishaps' \subseteq ReplayMishaps /\ (Clean' => Clean) /\ (Sighted' => Sighted)
  <2>1. replayMishaps \subseteq ReplayMishaps
    BY DEF ReplayInv, ReplayTyped, BoundsTyped
  <2> QED BY <1>1, <2>1 DEF Clean, Sighted, ReplayMishaps, Overlap
<1>17. Clean' => sw.act = NoReplaySession /\ ss.ses = NoReplaySession /\ \A i \in replayJobs : i.kind \notin Endings
  <2>1. Clean' => sw.act = NoReplaySession /\ ss.ses = NoReplaySession /\ \A i \in Tasks : ~Ending(i)
    BY <1>1 DEF Clean, Overlap
  <2> QED BY <2>1, JobNamesTask DEF ReplayInv, ReplayTyped, Ending, Endings
<1>18. \A i \in replayJobs : /\ i.task <= tasks /\ i.task # n /\ i.ses.task <= tasks
                             /\ i.task <= n /\ i.ses.task <= n
  <2>1. \A i \in replayJobs : i.task \in Int /\ i.ses.task \in Int /\ i.task <= tasks /\ i.ses.task <= tasks
    BY JobNamesTask DEF ReplayInv, NothingAhead, ReplayTyped, ReplayJobSet, StoredSession
  <2> QED BY <1>2, <2>1
<1>19. \A m \in Mail(inbox) : m.task # n /\ m.task <= n
  <2>1. \A m \in Mail(inbox) : m.task \in Nat /\ m.task <= tasks
    BY MailTyped DEF ReplayInv, NothingAhead, ReplayTyped, WireTyped, Tasks
  <2> QED BY <1>2, <2>1
<1>20. ReplayTyped'
  <2>1. SwTyped' /\ SsTyped'
    BY <1>3, <1>4, <1>9, <1>10 DEF ReplayInv, ReplayTyped, SwTyped, SsTyped, OfTask
  <2>2. TabsTyped'
    BY <1>1, <1>6, <1>11 DEF ReplayInv, ReplayTyped, TabsTyped
  <2>3. WizardTyped'
    BY <1>10, <1>13 DEF ReplayInv, ReplayTyped, WizardTyped
  <2>4. BoundsTyped' /\ WireTyped'
    BY <1>1, <1>16 DEF ReplayInv, ReplayTyped, BoundsTyped, WireTyped
  <2>5. ServerTyped'
    BY <1>1, <1>3, <1>12, ZeroIsNone DEF ReplayInv, ReplayTyped, ServerTyped
  <2>6. JobsTyped'
    BY <1>7, <1>15 DEF ReplayInv, ReplayTyped, JobsTyped
  <2> QED BY <2>1, <2>2, <2>3, <2>4, <2>5, <2>6 DEF ReplayTyped
<1>21. OnChain' = {} /\ ~Queued("start")' /\ ~Queued("create")'
  <2>1. \A i \in replayJobs' : ~(i.kind = "create" \/ i.then # "none")
    BY <1>2, <1>7, <1>15 DEF ReplayInv, ChainSound, OnChain
  <2>2. ~Queued("start")
    BY <1>2 DEF ReplayInv, ChainSound
  <2> QED BY <1>7, <1>15, <2>1, <2>2 DEF OnChain, Queued
<1>22. ChainSound'
  BY <1>21 DEF ChainSound, Queued
<1>23. NothingAhead'
  <2>1. \A i \in Tasks : i > n => i > tasks /\ i # n
    BY <1>2 DEF Tasks
  <2>2. NoReplaySession.task <= n
    BY <1>2, NoneIsSession
  <2>3. ss.ret <= n
    BY <1>2, <1>8 DEF ReplayInv, NothingAhead, SsSet
  <2>4. \A i \in Tasks : i > n => /\ tab'[i] = NoTab /\ ss'.ctx[i] = NoContext /\ done'[i] = {}
                                  /\ i \notin ss'.pay /\ owner'[i] = 0
    BY <1>1, <1>10, <1>11, <1>12, <2>1 DEF ReplayInv, NothingAhead
  <2>5. \A i \in replayJobs' : i.task <= n /\ i.ses.task <= n
    BY <1>2, <1>7, <1>15, <1>18, <2>2
  <2>6. \A m \in Mail(inbox)' : m.task <= n
    BY <1>1, <1>19
  <2>7. sw'.act.task <= n /\ ss'.ses.task <= n /\ ss'.ret <= n
    BY <1>2, <1>4, <1>9, <1>10, <2>3
  <2> QED BY <1>1, <2>4, <2>5, <2>6, <2>7 DEF NothingAhead
<1>24. BootsFirst'
  BY <1>1, <1>5, <1>6, <1>7, <1>10, <1>11, <1>14, <1>15, <1>18, <1>19, JobNamesTask DEF ReplayInv, ReplayTyped, BootsFirst
<1>25. ProgressIsDone'
  <2>1. 1..0 = {} /\ 1..(-1) = {}
    OBVIOUS
  <2>2. \A i \in Tasks : 1..tab'[i].pos \subseteq done[i] /\ 1..tab'[i].ctl \subseteq done[i]
    BY <1>5, <1>11, <2>1 DEF ReplayInv, ProgressIsDone
  <2> QED BY <1>1, <1>7, <1>10, <1>15, <2>2 DEF ReplayInv, ProgressIsDone
<1>26. ValuesAreKept'
  <2>1. ContextsKept => ContextsKept'
    BY <1>1, <1>6, <1>10, <1>11 DEF ContextsKept
  <2> QED BY <1>1, <1>9, <1>10, <1>13, <1>16, <2>1 DEF ReplayInv, ValuesAreKept, RowsKept, RowsAccepted, Whole
<1>27. Clean' /\ OneReplay => OneReplay' /\ ss.ret = 0
  <2>1. OneReplay => ss.ret = 0
    BY <1>1 DEF OneReplay, Queued
  <2>2. ~ReplayAsked'
    BY <1>21 DEF ReplayAsked
  <2>3. Clean' /\ OneReplay => sw.listens = {}
    BY <1>17 DEF OneReplay
  <2>4. k.kind \notin Endings
    BY <1>7 DEF Endings
  <2> QED BY <1>1, <1>4, <1>7, <1>9, <1>10, <1>15, <1>17, <1>21, <2>1, <2>2, <2>3, <2>4 DEF OneReplay
<1>28. Clean' /\ EndIsOwn => EndIsOwn'
  <2>1. Steps # {}
    BY ReplayAssumption DEF Steps
  <2>2. \A a : Ran(a) => Ran(a)'
    BY <1>1, <1>12, <1>14, <2>1 DEF Ran
  <2>3. k.kind \notin Endings
    BY <1>7 DEF Endings
  <2> QED BY <1>1, <1>4, <1>9, <1>10, <1>12, <1>13, <1>15, <1>17, <2>2, <2>3 DEF EndIsOwn
<1>29. Clean' /\ OneRuns => OneRuns'
  <2>1. \A i : Reported(i)' => Reported(i)
    BY <1>1, <1>7, <1>15, ReportedInMail, ReportedInMailNext
  <2>2. Clean' /\ OneRuns => \A i \in Tasks : ~(tab[i].run /\ ~tab[i].abort)
    BY <1>17, ZeroIsNone, NoneIsSession DEF OneRuns
  <2>3. Clean' => \A i \in replayJobs' : i.kind \notin Endings /\ i.kind # "clear"
    BY <1>7, <1>15, <1>17 DEF Endings
  <2> QED BY <1>1, <1>4, <1>6, <1>9, <1>10, <1>11, <2>1, <2>2, <2>3 DEF OneRuns
<1>30. Clean' /\ OneReplay => RetainedIsLeft'
  BY <1>10, <1>27 DEF RetainedIsLeft
<1> QED BY <1>16, <1>20, <1>22, <1>23, <1>24, <1>25, <1>26, <1>27, <1>28, <1>29, <1>30 DEF ReplayInv, WhenClean

-----------------------------------------------------------------------------
(* The replay: the runner is started and resumed.                           *)

\* A runner starts where its replay got to, or reports that it cannot.
LEMMA RunnerStarts ==
  ASSUME ReplayInv, NEW n \in Tasks, n <= tasks, ~(n > tasks), NEW t \in TabSet, tab' = [tab EXCEPT ![n] = t], t.open,
         1..t.pos \subseteq done[n], 1..t.ctl \subseteq done[n],
         Sighted' /\ ContextsKept /\ t.run => ValuesTo(t.pos) \subseteq t.got,
         inbox' \in Seq(ReplayMessages), Len(inbox') <= MaxWire + 1,
         \A m \in Mail(inbox)' : m \in Mail(inbox) \/ (m.kind = "complete" /\ m.task = n /\ m.status = "failure" /\ ~t.run),
         replayJobs' \subseteq replayJobs, \A i \in replayJobs' : ~(i.kind = "boot" /\ i.task = n),
         replayMishaps \subseteq replayMishaps', replayMishaps' \subseteq ReplayMishaps,
         Clean' /\ t.run => Active(n) /\ n \in ss.pay /\ ~Reported(n),
         UNCHANGED <<sw, ss, alarms, news, wiz, srv, tasks, owner, done, replayLeft>>
  PROVE  ReplayInv'
<1>1. (Clean' => Clean) /\ (Sighted' => Sighted)
  BY DEF Clean, Sighted
<1>2. tab \in [Tasks -> TabSet] /\ tab' \in [Tasks -> TabSet] /\ tab'[n] = t /\ \A i \in Tasks \ {n} : tab'[i] = tab[i]
  BY DEF ReplayInv, ReplayTyped, TabsTyped
<1>3. ReplayTyped'
  <2>1. TabsTyped'
    BY <1>2 DEF ReplayInv, ReplayTyped, TabsTyped
  <2> QED BY <2>1 DEF ReplayInv, ReplayTyped, SwTyped, SsTyped, OfTask, WizardTyped, ServerTyped, BoundsTyped, WireTyped, JobsTyped
<1>4. ChainSound'
  BY ChainShrinks DEF ReplayInv
<1>5. NothingAhead'
  BY <1>2 DEF ReplayInv, NothingAhead
<1>6. BootsFirst'
  BY <1>2, JobNamesTask DEF ReplayInv, ReplayTyped, BootsFirst
<1>7. ProgressIsDone'
  BY <1>2 DEF ReplayInv, ProgressIsDone
<1>8. ValuesAreKept'
  <2>1. Sighted' /\ ContextsKept => ContextsKept'
    BY <1>2 DEF ContextsKept
  <2> QED BY <1>1, <2>1 DEF ReplayInv, ValuesAreKept, RowsKept, RowsAccepted, Whole
<1>9. (OneReplay => OneReplay') /\ (EndIsOwn => EndIsOwn') /\ (RetainedIsLeft => RetainedIsLeft')
  BY DEF OneReplay, ReplayAsked, Queued, EndIsOwn, Ran, RetainedIsLeft
<1>10. Clean' /\ OneRuns => OneRuns'
  <2>1. \A i : Reported(i)' => Reported(i) \/ (i = n /\ ~t.run)
    BY ReportedInMail, ReportedInMailNext
  <2>2. \A i \in replayJobs : i.kind = "clear" => i.task \in Tasks
    BY JobNamesTask DEF ReplayInv, ReplayTyped
  <2>3. Active(n) => sw.act # NoReplaySession /\ sw.act.task = n
    BY NoneIsSession, ZeroIsNone DEF Active
  <2>4. Clean' /\ t.run /\ OneRuns => ss.ses.task = n /\ ~Reported(n)
    BY <2>3 DEF OneRuns
  <2>5. Clean' /\ t.run /\ OneRuns => \A i \in replayJobs : i.kind \in Endings => i.abort
    BY <2>3 DEF OneRuns
  <2>6. \A i \in replayJobs : i.kind = "clear" => i.kind \in Endings
    BY DEF Endings
  <2> QED BY <1>2, <2>1, <2>2, <2>4, <2>5, <2>6 DEF OneRuns
<1> QED BY <1>1, <1>3, <1>4, <1>5, <1>6, <1>7, <1>8, <1>9, <1>10 DEF ReplayInv, WhenClean

\* A failure is posted.
LEMMA FailurePosted ==
  ASSUME WireTyped, Len(inbox) < MaxWire, NEW n \in Tasks, PostReplay(<<Complete(n, "failure")>>)
  PROVE  /\ inbox' \in Seq(ReplayMessages) /\ Len(inbox') <= MaxWire + 1
         /\ \A m \in Mail(inbox)' : m \in Mail(inbox) \/ (m.kind = "complete" /\ m.task = n /\ m.status = "failure")
<1> DEFINE a == Complete(n, "failure")
<1>1. "failure" \in ReplayStatus
  BY DEF ReplayStatus
<1>2. a \in ReplayMessages /\ a.kind = "complete" /\ a.task = n /\ a.status = "failure"
  BY <1>1, CompleteIs
<1>3. inbox' \in Seq(ReplayMessages) /\ Len(inbox') <= MaxWire + 1 /\ Mail(inbox)' = Mail(inbox) \cup {a}
  BY <1>2, Posts
<1> HIDE DEF a
<1> QED BY <1>2, <1>3

\* Nothing is posted.
LEMMA NothingPosted ==
  ASSUME WireTyped, PostReplay(<<>>)
  PROVE  inbox' \in Seq(ReplayMessages) /\ Len(inbox') <= MaxWire + 1 /\ Mail(inbox)' = Mail(inbox)
<1>1. inbox \in Seq(ReplayMessages) /\ Len(inbox) <= MaxWire + 1
  BY DEF WireTyped
<1>2. inbox \o <<>> = inbox
  BY <1>1, ConcatEmptySeq
<1> QED BY <1>1, <1>2 DEF PostReplay, Mail

\* The start of the runner keeps the invariant (runReplayBoot).
LEMMA BootKeeps ==
  ASSUME ReplayInv, NEW j \in replayJobs, Boot(j)
  PROVE  ReplayInv'
<1> DEFINE n == j.task
           r == RunnerBoot(tab[n], n)
<1>1. /\ j.kind = "boot" /\ Len(inbox) < MaxWire
      /\ replayMishaps' = replayMishaps \cup (IF tab[n].open => Active(n) /\ n \in ss.pay THEN {} ELSE {"late"})
      /\ UNCHANGED <<ss, alarms, news, wiz, srv, tasks, owner, done, replayLeft>>
  BY DEF Boot, ReplayRunning, Note
<1>2. n \in Tasks /\ WireTyped /\ SwTyped
  BY <1>1, JobNamesTask DEF ReplayInv, ReplayTyped
<1>3. /\ ~tab[n].run /\ tab[n].ctl = -1 /\ ss.ctx[n] = NoContext /\ ~Reported(n)
      /\ \A i \in replayJobs : i.kind = "boot" /\ i.task = n => i = j
  BY <1>1, ReportedInMail DEF ReplayInv, BootsFirst
<1>4. replayMishaps \subseteq replayMishaps' /\ replayMishaps' \subseteq ReplayMishaps
  BY <1>1 DEF ReplayInv, ReplayTyped, BoundsTyped, ReplayMishaps
<1>5. CASE tab[n].open
  <2>1. tab' = [tab EXCEPT ![n] = r.tab] /\ PostReplay(r.post) /\ replayJobs' = replayJobs \ {j} /\ sw' = sw
    BY <1>5 DEF Boot, Replace
  <2>2. n <= tasks /\ ~(n > tasks)
    BY <1>2, <1>5, TaskIsMade DEF ReplayInv
  <2>3. replayJobs' \subseteq replayJobs /\ \A i \in replayJobs' : ~(i.kind = "boot" /\ i.task = n)
    BY <1>3, <2>1
  <2>4. Clean' => Active(n) /\ n \in ss.pay /\ ~Reported(n)
    BY <1>1, <1>3, <1>5 DEF Clean
  <2>5. tab[n] \in TabSet
    BY <1>2 DEF ReplayInv, ReplayTyped, TabsTyped
  <2>6. CASE tab[n].at = "outside"
    <3>1. r.tab = tab[n] /\ r.post = <<Complete(n, "failure")>>
      BY <1>3, <2>6 DEF RunnerBoot
    <3>2. /\ inbox' \in Seq(ReplayMessages) /\ Len(inbox') <= MaxWire + 1
          /\ \A m \in Mail(inbox)' : m \in Mail(inbox) \/ (m.kind = "complete" /\ m.task = n /\ m.status = "failure")
      BY <1>1, <1>2, <2>1, <3>1, FailurePosted
    <3>3. 1..tab[n].pos \subseteq done[n] /\ 1..tab[n].ctl \subseteq done[n]
      BY <1>2 DEF ReplayInv, ProgressIsDone
    <3> DEFINE t == tab[n]
    <3>4. tab' = [tab EXCEPT ![n] = t] /\ t \in TabSet /\ t.open /\ ~t.run
      BY <1>3, <1>5, <2>1, <2>5, <3>1
    <3>5. 1..t.pos \subseteq done[n] /\ 1..t.ctl \subseteq done[n]
      BY <3>3
    <3> HIDE DEF r, t
    <3> QED BY <1>1, <1>2, <1>4, <2>1, <2>2, <2>3, <3>2, <3>4, <3>5, RunnerStarts
  <2>7. CASE tab[n].at # "outside"
    <3> DEFINE t == [tab[n] EXCEPT !.run = TRUE, !.pos = 0, !.got = {}, !.ctl = 0]
    <3>1. r.tab = t /\ r.post = <<>>
      BY <1>3, <2>7 DEF RunnerBoot
    <3>2. 0 \in 0..LastStep /\ 0 \in -1..LastStep /\ 1..0 = {}
      BY ReplayAssumption
    <3>3. t \in TabSet /\ t.pos = 0 /\ t.ctl = 0 /\ t.got = {}
      BY <2>5, <3>2 DEF TabSet
    <3>4. t.open
      BY <1>5, <2>5 DEF TabSet
    <3>5. inbox' \in Seq(ReplayMessages) /\ Len(inbox') <= MaxWire + 1 /\ Mail(inbox)' = Mail(inbox)
      BY <1>2, <2>1, <3>1, NothingPosted
    <3>6. tab' = [tab EXCEPT ![n] = t]
      BY <2>1, <3>1
    <3> HIDE DEF r, t
    <3>7. 1..t.pos \subseteq done[n] /\ 1..t.ctl \subseteq done[n] /\ ValuesTo(t.pos) \subseteq t.got
      BY <3>2, <3>3 DEF ValuesTo
    <3> QED BY <1>1, <1>2, <1>4, <2>1, <2>2, <2>3, <2>4, <3>3, <3>4, <3>5, <3>6, <3>7, RunnerStarts
  <2> QED BY <2>6, <2>7
<1>6. CASE ~tab[n].open
  <2>1. /\ replayJobs' = (replayJobs \ {j}) \cup (IF Active(n) THEN CleanupOf(sw, "failure", TRUE, TRUE, "none") ELSE {})
        /\ sw' = IF Active(n) THEN Dropped(sw) ELSE sw
        /\ UNCHANGED <<tab, inbox>>
    BY <1>6 DEF Boot, Replace
  <2>2. "failure" \in ReplayStatus
    BY DEF ReplayStatus
  <2>3. Active(n) => sw.act # NoReplaySession
    BY <1>2, NoneIsSession, ZeroIsNone DEF Active
  <2>4. sw.act # NoReplaySession =>
          \A i \in CleanupOf(sw, "failure", TRUE, TRUE, "none") : IsCleanup(i, sw.act.task, "failure", TRUE, TRUE, "none")
    BY <1>2, <2>2, CleanupIs, ZenonT(60)
  <2>5. \/ sw' = sw /\ replayJobs' \subseteq replayJobs
        \/ /\ sw.act # NoReplaySession /\ sw' = Dropped(sw)
           /\ \A i \in replayJobs' : i \in replayJobs \/ IsCleanup(i, sw.act.task, "failure", TRUE, TRUE, "none")
    BY <2>1, <2>3, <2>4
  <2>6. ss' = ss /\ ss \in SsSet
    BY <1>1 DEF ReplayInv, ReplayTyped, SsTyped
  <2>7. inbox' \in Seq(ReplayMessages) /\ Len(inbox') <= MaxWire + 1 /\ Mail(inbox)' \subseteq Mail(inbox)
    BY <1>2, <2>1 DEF WireTyped, Mail
  <2> QED BY <1>1, <1>4, <2>1, <2>2, <2>5, <2>6, <2>7, ActiveEnds
<1> QED BY <1>5, <1>6

\* A listener gives up.
LEMMA GivesUp ==
  ASSUME ReplayInv, NEW j \in replayJobs, GiveUp(j),
         UNCHANGED <<ss, alarms, tab, inbox, news, wiz, srv, tasks, owner, done, replayLeft>>
  PROVE  ReplayInv'
<1>1. /\ replayJobs' = (replayJobs \ {j}) \cup CleanupOf(sw, "failure", TRUE, TRUE, "none")
      /\ sw' = IF sw.act = NoReplaySession THEN sw ELSE Dropped(sw)
      /\ replayMishaps' = replayMishaps \cup (IF Active(j.task) THEN {} ELSE {"late"})
  BY DEF GiveUp, Replace, Note
<1>2. replayMishaps \subseteq replayMishaps' /\ replayMishaps' \subseteq ReplayMishaps
  BY <1>1 DEF ReplayInv, ReplayTyped, BoundsTyped, ReplayMishaps
<1>3. "failure" \in ReplayStatus
  BY DEF ReplayStatus
<1>4. /\ sw.act = NoReplaySession => CleanupOf(sw, "failure", TRUE, TRUE, "none") = {}
      /\ sw.act # NoReplaySession =>
           \A i \in CleanupOf(sw, "failure", TRUE, TRUE, "none") : IsCleanup(i, sw.act.task, "failure", TRUE, TRUE, "none")
  BY <1>3, CleanupIs, ZenonT(60) DEF ReplayInv, ReplayTyped
<1>5. \/ sw' = sw /\ replayJobs' \subseteq replayJobs
      \/ /\ sw.act # NoReplaySession /\ sw' = Dropped(sw)
         /\ \A i \in replayJobs' : i \in replayJobs \/ IsCleanup(i, sw.act.task, "failure", TRUE, TRUE, "none")
  BY <1>1, <1>4
<1>6. inbox' \in Seq(ReplayMessages) /\ Len(inbox') <= MaxWire + 1 /\ Mail(inbox)' \subseteq Mail(inbox) /\ ss \in SsSet
  BY DEF ReplayInv, ReplayTyped, SsTyped, WireTyped, Mail
<1> QED BY <1>2, <1>3, <1>5, <1>6, ActiveEnds

\* A navigation heard by the listener keeps the invariant (onTabUpdated).
LEMMA UpdateKeeps ==
  ASSUME ReplayInv, NEW j \in replayJobs, Update(j)
  PROVE  ReplayInv'
<1> DEFINE n == j.task
           hops == (IF Active(n) THEN sw.act.hops ELSE j.ses.hops) + 1
           s == [task |-> n, hops |-> hops]
           k == [j EXCEPT !.kind = "inject"]
<1>1. /\ j.kind = "update"
      /\ UNCHANGED <<alarms, tab, inbox, news, wiz, srv, tasks, owner, done, replayLeft>>
  BY DEF Update, ReplayRunning
<1>2. n \in Tasks /\ j \in ReplayJobSet /\ SwTyped /\ sw \in SwSet /\ ss \in SsSet
  BY <1>1, JobNamesTask DEF ReplayInv, ReplayTyped, SwTyped, SsTyped
<1>3. CASE ~tab[n].open /\ Replace(j, {}) /\ UNCHANGED <<sw, ss, replayMishaps>>
  <2>1. \A i \in replayJobs' : i \in replayJobs
    BY <1>3 DEF Replace
  <2> QED BY <1>1, <1>2, <1>3, <2>1, PlainJobsKeep DEF SwTyped
<1>4. CASE GiveUp(j) /\ UNCHANGED ss
  BY <1>1, <1>4, GivesUp
<1>5. CASE /\ ~HopsSpent(hops)
           /\ ss' = [ss EXCEPT !.ses = s]
           /\ sw' = IF Active(n) THEN [sw EXCEPT !.act.hops = hops] ELSE sw
           /\ replayJobs' = (replayJobs \ {j}) \cup {k}
           /\ replayMishaps' = replayMishaps \cup (IF Active(n) THEN {} ELSE {"late"})
  <2>1. sw.act \in StoredSession /\ j.ses \in StoredSession /\ OfTask(sw.act)
    BY <1>2 DEF SwSet, ReplayJobSet, SwTyped
  <2>2. hops \in 0..HopLimit
    <3> DEFINE h == IF Active(n) THEN sw.act.hops ELSE j.ses.hops
    <3>1. h \in 0..HopLimit
      BY <2>1 DEF StoredSession
    <3>2. ~(h + 1 > HopLimit) /\ hops = h + 1
      BY <1>5 DEF HopsSpent
    <3> HIDE DEF h, hops
    <3> QED BY <3>1, <3>2, ReplayAssumption
  <2>3. s \in StoredSession /\ s.task = n /\ s # NoReplaySession /\ n \in 0..MaxTasks
    <3> HIDE DEF hops
    <3>1. s \in StoredSession /\ s.task = n /\ n \in 0..MaxTasks /\ n # 0
      BY <1>2, <2>2, ZeroIsNone DEF StoredSession
    <3> HIDE DEF s
    <3> QED BY <3>1, NoneIsSession
  <2>4. k \in ReplayJobSet
    BY <1>2 DEF ReplayJobSet, JobKinds, TaskJobs
  <2>5. k.kind = "inject" /\ k.task = n /\ k.ses = j.ses /\ k.then = j.then
    BY <1>2 DEF ReplayJobSet
  <2>6. j.then = "none"
    BY <1>1 DEF ReplayInv, ReplayTyped, JobsTyped, JobTyped, Endings
  <2>7. JobTyped(k)
    <3> HIDE DEF k
    <3> QED BY <1>2, <2>4, <2>5, <2>6 DEF JobTyped
  <2> DEFINE w == [sw.act EXCEPT !.hops = hops]
  <2>8. w \in StoredSession /\ w.task = sw.act.task
    BY <2>1, <2>2 DEF StoredSession
  <2>9. sw' = [sw EXCEPT !.act = w] \/ sw' = sw
    BY <1>5
  <2> HIDE DEF s, k, w, hops
  <2>10. /\ sw' \in SwSet /\ sw'.act.task = sw.act.task /\ sw'.listens = sw.listens /\ sw'.rows = sw.rows
    BY <1>2, <2>8, <2>9 DEF SwSet
  <2>11. sw'.act \in StoredSession /\ OfTask(sw'.act) /\ (sw'.act = NoReplaySession <=> sw.act = NoReplaySession)
    <3>1. sw.act # NoReplaySession => sw.act.task \in Tasks
      BY <2>1, SessionHasTask
    <3>2. sw.act = NoReplaySession => sw' = sw
      BY <1>2, <1>5, NoneIsSession, ZeroIsNone DEF Active
    <3> QED BY <2>1, <2>10, <3>1, <3>2, ZeroIsNone, NoneIsSession DEF SwSet, OfTask
  <2>12. /\ ss' \in SsSet /\ ss'.ses = s /\ ss'.pay = ss.pay /\ ss'.ctx = ss.ctx /\ ss'.rows = ss.rows
         /\ ss'.ret = ss.ret /\ ss'.dsl = ss.dsl
    BY <1>2, <1>5, <2>3 DEF SsSet
  <2>13. \A i \in replayJobs' : i \in replayJobs \/ i = k
    BY <1>5
  <2>14. replayMishaps \subseteq replayMishaps' /\ replayMishaps' \subseteq ReplayMishaps /\ (Clean' => Clean /\ Active(n)) /\ (Sighted' => Sighted)
    <3>1. replayMishaps \subseteq ReplayMishaps
      BY DEF ReplayInv, ReplayTyped, BoundsTyped
    <3> QED BY <1>5, <3>1 DEF Clean, Sighted, ReplayMishaps
  <2>15. ReplayTyped'
    <3>1. SwTyped' /\ SsTyped'
      BY <1>2, <2>3, <2>10, <2>11, <2>12 DEF ReplayInv, ReplayTyped, SwTyped, SsTyped, OfTask
    <3>2. TabsTyped' /\ WizardTyped' /\ BoundsTyped' /\ ServerTyped' /\ WireTyped'
      BY <1>1, <2>12, <2>14 DEF ReplayInv, ReplayTyped, TabsTyped, WizardTyped, BoundsTyped, ServerTyped, WireTyped
    <3>3. JobsTyped'
      BY <2>7, <2>13 DEF ReplayInv, ReplayTyped, JobsTyped
    <3> QED BY <3>1, <3>2, <3>3 DEF ReplayTyped
  <2>16. ChainSound'
    BY <1>1, <2>5, <2>6, <2>13, ChainShrinks DEF ReplayInv, OffChain
  <2>17. NothingAhead'
    <3>1. n <= tasks /\ j.ses.task <= tasks
      BY DEF ReplayInv, NothingAhead
    <3> QED BY <1>1, <2>3, <2>5, <2>10, <2>12, <2>13, <3>1 DEF ReplayInv, NothingAhead
  <2>18. BootsFirst'
    BY <1>1, <2>5, <2>12, <2>13 DEF ReplayInv, BootsFirst
  <2>19. ProgressIsDone'
    BY <1>1, <2>5, <2>12, <2>13 DEF ReplayInv, ProgressIsDone
  <2>20. ValuesAreKept'
    BY <1>1, <2>10, <2>12, <2>14 DEF ReplayInv, ValuesAreKept, ContextsKept, RowsKept, RowsAccepted, Whole
  <2>21. Clean' => sw.act.task = n /\ sw.act # NoReplaySession
    BY <1>2, <2>14, ZeroIsNone, NoneIsSession DEF Active
  <2>22. k.kind \notin Endings /\ k.kind \notin {"start", "create", "clear", "retain", "late"}
    BY <2>5 DEF Endings
  <2>23. Clean' /\ OneReplay => OneReplay' /\ n = tasks
    <3>1. OneReplay /\ Clean' => n = tasks
      BY <1>2, <2>21, ZeroIsNone DEF OneReplay
    <3>2. (ReplayAsked' => ReplayAsked) /\ (Queued("create")' => Queued("create")) /\ (Queued("create") => ReplayAsked)
      BY <2>13, <2>22 DEF ReplayAsked, Queued
    <3>3. Clean' /\ OneReplay => ~ReplayAsked
      BY <2>21 DEF OneReplay
    <3> QED BY <1>1, <2>3, <2>5, <2>6, <2>10, <2>11, <2>12, <2>13, <2>22, <3>1, <3>2, <3>3 DEF OneReplay
  <2>24. Clean' /\ EndIsOwn => EndIsOwn'
    <3>1. \A a : Ran(a)' <=> Ran(a)
      BY <1>1 DEF Ran
    <3> QED BY <1>1, <2>3, <2>10, <2>11, <2>12, <2>13, <2>21, <2>22, <3>1 DEF EndIsOwn
  <2>25. Clean' /\ OneReplay /\ OneRuns => OneRuns'
    <3>1. \A i : Reported(i)' => Reported(i)
      BY <1>1, <2>13, <2>22, ReportedInMail, ReportedInMailNext
    <3>2. Clean' /\ OneReplay /\ OneRuns => \A i \in Tasks : tab[i].run /\ ~tab[i].abort => i = n
      BY <2>23, ZeroIsNone DEF OneReplay, OneRuns
    <3> QED BY <1>1, <2>3, <2>10, <2>11, <2>12, <2>13, <2>21, <2>22, <3>1, <3>2 DEF OneRuns
  <2>26. RetainedIsLeft => RetainedIsLeft'
    BY <2>11, <2>12, <2>13, <2>22 DEF RetainedIsLeft
  <2> QED BY <2>14, <2>15, <2>16, <2>17, <2>18, <2>19, <2>20, <2>23, <2>24, <2>25, <2>26 DEF ReplayInv, WhenClean
<1> QED BY <1>3, <1>4, <1>5 DEF Update, Replace, Note

\* What a resume makes of the tab.
LEMMA ResumeIs ==
  ASSUME ReplayInv, NEW n \in Tasks, tab[n].open
  PROVE  LET c == ss.ctx[n]
             r == RunnerResume(tab[n], n, c) IN
         \/ r.tab = tab[n] /\ r.post = <<>>
         \/ /\ ~tab[n].run /\ (tab[n].ctl # -1 \/ c.pos # -1)
            /\ r.tab \in TabSet /\ r.tab.open /\ 1..r.tab.pos \subseteq done[n] /\ 1..r.tab.ctl \subseteq done[n]
            /\ \/ ~r.tab.run /\ r.post = <<Complete(n, "failure")>>
               \/ /\ r.tab.run /\ r.post = <<>>
                  /\ ContextsKept => ValuesTo(r.tab.pos) \subseteq r.tab.got \/ (r.tab.pos > 0 /\ c = NoContext)
<1> DEFINE c == ss.ctx[n]
           t == tab[n]
           from == IF t.ctl # -1 THEN t.ctl ELSE c.pos
           r == RunnerResume(t, n, c)
<1>1. t \in TabSet /\ t.ctl \in -1..LastStep /\ c.pos \in -1..LastStep /\ c.got \in SUBSET Values
  BY DEF ReplayInv, ReplayTyped, TabsTyped, SsTyped, SsSet, TabSet
<1>2. 1..t.pos \subseteq done[n] /\ 1..t.ctl \subseteq done[n] /\ 1..c.pos \subseteq done[n]
  BY DEF ReplayInv, ProgressIsDone
<1>3. 1..from \subseteq done[n] /\ from \in -1..LastStep
  BY <1>1, <1>2
<1>4. CASE t.run \/ from = -1
  BY <1>4 DEF RunnerResume
<1>5. CASE ~(t.run \/ from = -1) /\ (ResumeRefused(t, c) \/ t.at = "outside")
  <2> DEFINE u == [t EXCEPT !.ctl = from]
  <2>1. r.tab = u /\ r.post = <<Complete(n, "failure")>>
    BY <1>5 DEF RunnerResume
  <2>2. u \in TabSet /\ u.ctl = from /\ u.pos = t.pos
    BY <1>1, <1>3 DEF TabSet
  <2>3. u.open = t.open /\ u.run = t.run
    BY <1>1 DEF TabSet
  <2>4. t.ctl # -1 \/ c.pos # -1
    BY <1>5
  <2> HIDE DEF u, from, r, c
  <2>5. 1..u.pos \subseteq done[n] /\ 1..u.ctl \subseteq done[n] /\ u.open /\ ~u.run /\ ~t.run
    BY <1>2, <1>3, <1>5, <2>2, <2>3
  <2> QED BY <2>1, <2>2, <2>4, <2>5 DEF r, c
<1>6. CASE ~(t.run \/ from = -1) /\ ~(ResumeRefused(t, c) \/ t.at = "outside")
  <2> DEFINE u == [t EXCEPT !.run = TRUE, !.pos = from, !.got = c.got, !.ctl = from]
  <2>1. r.tab = u /\ r.post = <<>>
    BY <1>6 DEF RunnerResume
  <2>2. from \in 0..LastStep
    BY <1>3, <1>6, ReplayAssumption
  <2>3. c # NoContext => c.pos >= t.ctl
    BY <1>1, <1>6, ReplayAssumption DEF ResumeRefused
  <2>4. c # NoContext => from <= c.pos
    BY <1>1, <2>3, ReplayAssumption
  <2>5. ValuesTo(from) \subseteq ValuesTo(c.pos) \/ c = NoContext
    BY <1>1, <2>2, <2>4, ReplayAssumption DEF ValuesTo
  <2>6. c = NoContext /\ from = 0 => ValuesTo(from) = {}
    BY DEF ValuesTo
  <2>7. ContextsKept => ValuesTo(c.pos) \subseteq c.got
    BY DEF ContextsKept
  <2>8. t.ctl # -1 \/ c.pos # -1
    BY <1>6
  <2> HIDE DEF from, c
  <2>9. u \in TabSet /\ u.ctl = from /\ u.pos = from /\ u.got = c.got
    BY <1>1, <1>3, <2>2 DEF TabSet
  <2>10. u.open = t.open /\ u.run
    BY <1>1 DEF TabSet
  <2> HIDE DEF u
  <2>11. ContextsKept => ValuesTo(u.pos) \subseteq u.got \/ (u.pos > 0 /\ c = NoContext)
    BY <2>2, <2>5, <2>6, <2>7, <2>9
  <2>12. 1..u.pos \subseteq done[n] /\ 1..u.ctl \subseteq done[n] /\ u.open /\ u.run /\ ~t.run
    BY <1>3, <1>6, <2>9, <2>10
  <2> HIDE DEF r
  <2> QED BY <2>1, <2>8, <2>9, <2>11, <2>12 DEF r, c
<1> QED BY <1>4, <1>5, <1>6

\* The injection of the runner that resumes keeps the invariant.
LEMMA InjectKeeps ==
  ASSUME ReplayInv, NEW j \in replayJobs, Inject(j)
  PROVE  ReplayInv'
<1> DEFINE n == j.task
           r == RunnerResume(tab[n], n, ss.ctx[n])
<1>1. /\ j.kind = "inject" /\ Len(inbox) < MaxWire
      /\ UNCHANGED <<ss, alarms, news, wiz, srv, tasks, owner, done, replayLeft>>
  BY DEF Inject, ReplayRunning
<1>2. n \in Tasks /\ WireTyped /\ ss \in SsSet
  BY <1>1, JobNamesTask DEF ReplayInv, ReplayTyped, SsTyped
<1>3. CASE ~(n \in ss.pay /\ tab[n].open)
  <2>1. GiveUp(j) /\ UNCHANGED <<tab, inbox>>
    BY <1>3 DEF Inject
  <2> QED BY <1>1, <2>1, GivesUp
<1>4. CASE n \in ss.pay /\ tab[n].open
  <2>1. /\ tab' = [tab EXCEPT ![n] = r.tab] /\ PostReplay(r.post) /\ replayJobs' = replayJobs \ {j} /\ sw' = sw
        /\ replayMishaps' = replayMishaps \cup ResumeMishap(j, r.tab)
    BY <1>4 DEF Inject, Replace, Note
  <2>2. n <= tasks /\ ~(n > tasks)
    BY <1>2, <1>4, TaskIsMade DEF ReplayInv
  <2>3. replayMishaps \subseteq replayMishaps' /\ replayMishaps' \subseteq ReplayMishaps
    <3>1. ResumeMishap(j, r.tab) \subseteq {"late", "blind"} /\ replayMishaps \subseteq ReplayMishaps
      BY DEF ResumeMishap, ReplayInv, ReplayTyped, BoundsTyped
    <3> HIDE DEF r
    <3> QED BY <2>1, <3>1 DEF ReplayMishaps
  <2>4. /\ Clean' => Active(n) /\ (r.tab.run => ~Reported(n))
        /\ Sighted' => ~(r.tab.run /\ ~tab[n].run /\ r.tab.pos > 0 /\ ss.ctx[n] = NoContext)
    <3> HIDE DEF r
    <3> QED BY <2>1 DEF ResumeMishap, Clean, Sighted
  <2>5. tab[n] \in TabSet /\ tab \in [Tasks -> TabSet]
    BY <1>2 DEF ReplayInv, ReplayTyped, TabsTyped
  <2>6. CASE r.tab = tab[n] /\ r.post = <<>>
    <3>1. inbox' \in Seq(ReplayMessages) /\ Len(inbox') <= MaxWire + 1 /\ Mail(inbox)' = Mail(inbox)
      BY <1>2, <2>1, <2>6, NothingPosted
    <3>2. tab' = tab
      BY <2>1, <2>5, <2>6
    <3>3. "failure" \in ReplayStatus /\ replayJobs' \subseteq replayJobs
      BY <2>1, SMTT(60) DEF ReplayStatus
    <3>4. sw' = Dropped(sw) /\ sw.act # NoReplaySession => FALSE
      BY <2>1, DroppedIs, Zenon DEF ReplayInv, ReplayTyped
    <3> HIDE DEF r
    <3> QED BY <1>1, <1>2, <2>1, <2>3, <3>1, <3>2, <3>3, <3>4, ActiveEnds
  <2>7. CASE /\ ~tab[n].run /\ (tab[n].ctl # -1 \/ ss.ctx[n].pos # -1)
             /\ r.tab \in TabSet /\ r.tab.open /\ 1..r.tab.pos \subseteq done[n] /\ 1..r.tab.ctl \subseteq done[n]
             /\ \/ ~r.tab.run /\ r.post = <<Complete(n, "failure")>>
                \/ /\ r.tab.run /\ r.post = <<>>
                   /\ ContextsKept => ValuesTo(r.tab.pos) \subseteq r.tab.got \/ (r.tab.pos > 0 /\ ss.ctx[n] = NoContext)
    <3> DEFINE t == r.tab
    <3>1. /\ inbox' \in Seq(ReplayMessages) /\ Len(inbox') <= MaxWire + 1
          /\ \A m \in Mail(inbox)' : m \in Mail(inbox) \/ (m.kind = "complete" /\ m.task = n /\ m.status = "failure" /\ ~t.run)
      <4>1. CASE ~t.run /\ r.post = <<Complete(n, "failure")>>
        <5>1. PostReplay(<<Complete(n, "failure")>>)
          BY <2>1, <4>1
        <5> HIDE DEF r
        <5> QED BY <1>1, <1>2, <4>1, <5>1, FailurePosted
      <4>2. CASE r.post = <<>>
        <5>1. PostReplay(<<>>)
          BY <2>1, <4>2, SMTT(60)
        <5> QED BY <1>2, <5>1, NothingPosted
      <4> HIDE DEF r
      <4> QED BY <2>7, <4>1, <4>2
    <3>2. \A i \in replayJobs' : ~(i.kind = "boot" /\ i.task = n)
      <4>1. NoContext.pos = -1
        BY NoContextIs
      <4>2. \A i \in replayJobs : i.kind = "boot" => tab[i.task].ctl = -1 /\ ss.ctx[i.task] = NoContext
        BY SMTT(60) DEF ReplayInv, BootsFirst
      <4> QED BY <2>1, <2>7, <4>1, <4>2
    <3>3. tab' = [tab EXCEPT ![n] = t] /\ t \in TabSet /\ t.open /\ 1..t.pos \subseteq done[n] /\ 1..t.ctl \subseteq done[n]
      BY <2>1, <2>7, Zenon
    <3>4. Sighted' /\ ContextsKept /\ t.run => ValuesTo(t.pos) \subseteq t.got
      <4> HIDE DEF r
      <4> QED BY <2>4, <2>7
    <3>5. Clean' /\ t.run => Active(n) /\ n \in ss.pay /\ ~Reported(n)
      BY <1>4, <2>4
    <3>6. replayJobs' \subseteq replayJobs
      BY <2>1
    <3> HIDE DEF t, r
    <3> QED BY <1>1, <1>2, <2>1, <2>2, <2>3, <3>1, <3>2, <3>3, <3>4, <3>5, <3>6, RunnerStarts
  <2> QED BY <1>2, <1>4, <2>6, <2>7, ResumeIs
<1> QED BY <1>3, <1>4

-----------------------------------------------------------------------------
(* The replay: requests of the page and the watchdog.                       *)

\* A request to cancel ends the active replay, or closes the tab that is retained.
LEMMA AbortKeeps ==
  ASSUME ReplayInv, NEW j \in replayJobs, Abort(j)
  PROVE  ReplayInv'
<1>1. /\ j.kind = "abort" /\ OnChain = {} /\ ~Queued("start") /\ Len(news) < MaxWire
      /\ UNCHANGED <<alarms, inbox, wiz, srv, tasks, owner, done, replayLeft, replayMishaps>>
  BY DEF Abort, ReplayRunning
<1>2. ss \in SsSet /\ ss.ret \in 0..MaxTasks /\ SwTyped /\ j \in ReplayJobSet
  BY JobNamesTask DEF ReplayInv, ReplayTyped, SsTyped, SsSet
<1>3. CASE sw.act = NoReplaySession
  <2> DEFINE b == [kind |-> "cancelled", status |-> "none", got |-> {}]
  <2>1. /\ CloseReplayTab(ss.ret) /\ ss' = [ss EXCEPT !.ret = 0] /\ Tell(CancelAnswer([j EXCEPT !.then = "answer"]))
        /\ replayJobs' = replayJobs \ {j} /\ sw' = sw
    BY <1>3 DEF Abort, Replace
  <2>2. CancelAnswer([j EXCEPT !.then = "answer"]) = <<b>>
    BY <1>2 DEF CancelAnswer, ReplayJobSet
  <2>3. b \in ReplayNews /\ b.status = "none" /\ b.got = {}
    BY DEF ReplayNews, ReplayStatus
  <2> HIDE DEF b
  <2>4. news' \in Seq(ReplayNews) /\ Len(news') <= MaxWire + 1 /\ Mail(news)' = Mail(news) \cup {b}
    BY <1>1, <2>1, <2>2, <2>3, Tells DEF ReplayInv, ReplayTyped
  <2>5. /\ ss' \in SsSet /\ ss'.ses = ss.ses /\ ss'.pay = ss.pay /\ ss'.ctx = ss.ctx /\ ss'.rows = ss.rows
        /\ ss'.dsl = ss.dsl /\ ss'.ret = 0
    BY <1>2, <2>1, ZeroIsNone DEF SsSet
  <2>6. tab' \in [Tasks -> TabSet] /\ \A i \in Tasks : tab'[i] = NoTab \/ tab'[i] = tab[i]
    BY <1>2, <2>1, TabCloses DEF ReplayInv, ReplayTyped
  <2>7. \A i \in replayJobs' : i \in replayJobs
    BY <2>1
  <2>8. ReplayTyped'
    <3>1. SwTyped' /\ SsTyped'
      BY <2>1, <2>5 DEF ReplayInv, ReplayTyped, SwTyped, SsTyped, OfTask
    <3>2. TabsTyped' /\ WizardTyped' /\ BoundsTyped' /\ ServerTyped' /\ WireTyped'
      BY <1>1, <2>4, <2>5, <2>6 DEF ReplayInv, ReplayTyped, TabsTyped, WizardTyped, BoundsTyped, ServerTyped, WireTyped
    <3>3. JobsTyped'
      BY <2>7 DEF ReplayInv, ReplayTyped, JobsTyped, JobTyped
    <3> QED BY <3>1, <3>2, <3>3 DEF ReplayTyped
  <2>9. ChainSound'
    BY <1>1, <2>7, ChainShrinks DEF ReplayInv
  <2>10. NothingAhead'
    <3>1. 0 <= tasks
      BY DEF ReplayInv, ReplayTyped, ServerTyped
    <3> QED BY <1>1, <2>1, <2>5, <2>6, <2>7, <3>1 DEF ReplayInv, NothingAhead
  <2>11. BootsFirst'
    BY <1>1, <2>5, <2>6, <2>7, NoTabIs, JobNamesTask DEF ReplayInv, ReplayTyped, BootsFirst
  <2>12. ProgressIsDone'
    BY <1>1, <2>5, <2>6, <2>7, NoTabIs DEF ReplayInv, ProgressIsDone
  <2>13. ValuesAreKept'
    <3>1. ContextsKept => ContextsKept'
      BY <1>1, <2>5, <2>6, NoTabIs DEF ContextsKept
    <3> QED BY <1>1, <2>1, <2>3, <2>4, <2>5, <3>1 DEF ReplayInv, ValuesAreKept, Sighted, RowsKept, RowsAccepted, Whole
  <2>14. (OneReplay => OneReplay') /\ (RetainedIsLeft => RetainedIsLeft')
    BY <1>1, <2>1, <2>5, <2>7 DEF OneReplay, ReplayAsked, Queued, RetainedIsLeft
  <2>15. EndIsOwn => EndIsOwn'
    <3>1. \A i : Ran(i)' <=> Ran(i)
      BY <1>1 DEF Ran
    <3>2. \A m \in Mail(news)' : m.status = "success" => m \in Mail(news)
      BY <2>3, <2>4
    <3> QED BY <1>1, <2>1, <2>5, <2>7, <3>1, <3>2 DEF EndIsOwn
  <2>16. OneRuns => OneRuns'
    <3>1. \A i : Reported(i)' => Reported(i)
      BY <1>1, <2>7, ReportedInMail, ReportedInMailNext
    <3>2. \A i \in Tasks : (tab'[i].run => tab[i].run) /\ (tab'[i].run /\ ~tab'[i].abort => tab[i].run /\ ~tab[i].abort)
      BY <2>6, NoTabIs
    <3>3. \A k \in replayJobs : k.kind = "clear" => k.task \in Tasks
      BY JobNamesTask DEF ReplayInv, ReplayTyped
    <3> QED BY <1>1, <2>1, <2>5, <2>7, <3>1, <3>2, <3>3 DEF OneRuns
  <2> QED BY <1>1, <2>8, <2>9, <2>10, <2>11, <2>12, <2>13, <2>14, <2>15, <2>16 DEF ReplayInv, WhenClean, Clean
<1>4. CASE sw.act # NoReplaySession
  <2>1. "cancelled" \in ReplayStatus /\ "cancelled" # "success"
    BY DEF ReplayStatus
  <2>2. PICK k : CleanupOf(sw, "cancelled", TRUE, TRUE, "answer") = {k} /\ IsCleanup(k, sw.act.task, "cancelled", TRUE, TRUE, "answer")
    BY <1>2, <1>4, <2>1, CleanupIs
  <2>3. replayJobs' = (replayJobs \ {j}) \cup {k} /\ sw' = Dropped(sw) /\ UNCHANGED <<ss, tab, news>>
    BY <1>4, <2>2 DEF Abort, Replace
  <2>4. \A i \in replayJobs' : i \in replayJobs \/ IsCleanup(i, sw.act.task, "cancelled", TRUE, TRUE, "answer")
    BY <2>2, <2>3
  <2>5. \A i \in replayJobs' : i \in replayJobs \/ i = k
    BY <2>3
  <2>6. k.kind = "clear" /\ k.then = "answer"
    BY <2>2 DEF IsCleanup
  <2>7. ChainSound'
    <3>1. \A i \in OnChain' : i = k
      BY <1>1, <2>5 DEF OnChain
    <3>2. ~Queued("start")'
      BY <1>1, <2>5, <2>6 DEF Queued
    <3>3. \A i1, i2 \in replayJobs' : i1.kind = "start" /\ i2.kind = "start" => i1 = i2
      BY <3>2 DEF Queued
    <3>4. \A i \in OnChain' : i.then = "answer"
      BY <2>6, <3>1
    <3> QED BY <3>1, <3>2, <3>3, <3>4 DEF ChainSound
  <2>8. inbox' \in Seq(ReplayMessages) /\ Len(inbox') <= MaxWire + 1 /\ Mail(inbox)' \subseteq Mail(inbox)
    BY <1>1 DEF ReplayInv, ReplayTyped, WireTyped, Mail
  <2>9. replayMishaps \subseteq replayMishaps' /\ replayMishaps' \subseteq ReplayMishaps
    BY <1>1 DEF ReplayInv, ReplayTyped, BoundsTyped
  <2>10. /\ ss' \in SsSet /\ ss'.ses = ss.ses /\ ss'.pay = ss.pay /\ ss'.ctx = ss.ctx /\ ss'.rows = ss.rows
         /\ ss'.dsl = ss.dsl /\ ss'.ret = ss.ret
    BY <1>2, <2>3
  <2> QED BY <1>1, <1>4, <2>1, <2>3, <2>4, <2>7, <2>8, <2>9, <2>10, ActiveEnds
<1> QED BY <1>3, <1>4

\* What a restored session is told of a document that loaded meanwhile.
LEMMA RestoreJobsAre ==
  ASSUME NEW n \in Tasks
  PROVE  \A i \in RestoreJobs(n) : JobTyped(i) /\ i.kind = "update" /\ i.task = n /\ i.ses.task = n /\ i.then = "none"
<1> DEFINE s == [task |-> n, hops |-> 0]
<1>1. s \in StoredSession /\ s.task = n
  BY ZeroIsNone, ReplayAssumption DEF StoredSession
<1> DEFINE k == [ReplayJob("update", n) EXCEPT !.ses = s]
<1>2. \A i \in RestoreJobs(n) : i = k
  BY DEF RestoreJobs
<1> HIDE DEF s
<1>3. JobTyped(k) /\ k.kind = "update" /\ k.task = n /\ k.ses = s /\ k.then = "none"
  BY <1>1, UpdateJob
<1> HIDE DEF k
<1> QED BY <1>1, <1>2, <1>3

\* A stored session is active again, or is forgotten because its tab is gone.
LEMMA RestoreKeeps ==
  ASSUME ReplayInv, NEW j \in replayJobs, Restore(j)
  PROVE  ReplayInv'
<1> DEFINE s == j.ses
           n == j.ses.task
<1>1. j.kind = "restore" /\ UNCHANGED <<tab, inbox, news, wiz, srv, tasks, owner, done, replayLeft>>
  BY DEF Restore, ReplayRunning
<1>2. n \in Tasks /\ s \in StoredSession /\ OfTask(s) /\ n <= tasks /\ n # 0
  BY <1>1, JobNamesTask, ZeroIsNone DEF ReplayInv, ReplayTyped, NothingAhead, ReplayJobSet, OfTask
<1>3. sw \in SwSet /\ ss \in SsSet /\ replayMishaps \subseteq ReplayMishaps /\ OfTask(sw.act) /\ OfTask(ss.ses)
  BY DEF ReplayInv, ReplayTyped, SwTyped, SsTyped, BoundsTyped
<1>4. CASE tab[n].open
  <2>1. /\ sw' = [sw EXCEPT !.act = s, !.listens = @ \cup {n}]
        /\ alarms' = alarms \cup {n} /\ replayJobs' = (replayJobs \ {j}) \cup RestoreJobs(n) /\ ss' = ss
        /\ replayMishaps' = replayMishaps \cup
             (IF sw.act # NoReplaySession \/ ss.ses # s \/ ss.ret = n \/ Ending(n) THEN {"overlap"} ELSE {})
    BY <1>4 DEF Restore, Replace, Note
  <2>2. sw' \in SwSet /\ sw'.act = s /\ sw'.listens = sw.listens \cup {n} /\ sw'.rows = sw.rows
    BY <1>2, <1>3, <2>1 DEF SwSet
  <2>3. \A i \in replayJobs' : i \in replayJobs \/ (JobTyped(i) /\ i.kind = "update" /\ i.task = n /\ i.ses.task = n /\ i.then = "none")
    BY <1>2, <2>1, RestoreJobsAre
  <2>4. /\ replayMishaps \subseteq replayMishaps' /\ replayMishaps' \subseteq ReplayMishaps
        /\ (Clean' => Clean) /\ (Sighted' => Sighted)
    BY <1>3, <2>1 DEF Clean, Sighted, ReplayMishaps
  <2>5. Clean' => sw.act = NoReplaySession /\ ss.ses = s /\ ss.ret # n /\ ~Ending(n)
    BY <2>1 DEF Clean
  <2> HIDE DEF s, n
  <2>6. Clean' /\ OneReplay => n = tasks /\ ss.ret = 0 /\ ~ReplayAsked /\ \A i \in replayJobs : i.kind \notin Endings
    <3>1. s # NoReplaySession /\ s.task = n
      BY <1>2, NoneIsSession DEF s, n
    <3>2. Clean' /\ OneReplay => n = tasks /\ ss.ret = 0 /\ ~ReplayAsked
      BY <1>2, <2>5, <3>1 DEF OneReplay
    <3> QED BY <2>5, <3>2 DEF OneReplay, Ending, Endings
  <2>7. s.task = n /\ s # NoReplaySession
    BY <1>2, NoneIsSession DEF s, n
  <2>8. ReplayTyped'
    <3>1. SwTyped' /\ SsTyped'
      BY <1>2, <2>1, <2>2 DEF ReplayInv, ReplayTyped, SwTyped, SsTyped, OfTask
    <3>2. TabsTyped' /\ WizardTyped' /\ BoundsTyped' /\ ServerTyped' /\ WireTyped'
      BY <1>1, <1>2, <2>1, <2>4 DEF ReplayInv, ReplayTyped, TabsTyped, WizardTyped, BoundsTyped, ServerTyped, WireTyped
    <3>3. JobsTyped'
      BY <2>3 DEF ReplayInv, ReplayTyped, JobsTyped, JobTyped
    <3> QED BY <3>1, <3>2, <3>3 DEF ReplayTyped
  <2>9. ChainSound'
    BY <1>1, <2>3, ChainShrinks DEF ReplayInv, OffChain
  <2>10. NothingAhead'
    BY <1>1, <1>2, <2>1, <2>2, <2>3, <2>7 DEF ReplayInv, NothingAhead
  <2>11. BootsFirst'
    BY <1>1, <2>1, <2>3 DEF ReplayInv, BootsFirst
  <2>12. ProgressIsDone'
    BY <1>1, <2>1, <2>3 DEF ReplayInv, ProgressIsDone
  <2>13. ValuesAreKept'
    BY <1>1, <2>1, <2>2, <2>4 DEF ReplayInv, ValuesAreKept, ContextsKept, RowsKept, RowsAccepted, Whole
  <2>14. Clean' /\ OneReplay => OneReplay'
    <3>1. ~ReplayAsked => ~ReplayAsked' /\ ~Queued("create")'
      BY <2>3 DEF ReplayAsked, Queued
    <3>2. \A i \in replayJobs' : i.kind \in Endings => i \in replayJobs
      BY <2>3 DEF Endings
    <3>3. Clean' /\ OneReplay => sw'.listens = {n}
      BY <2>2, <2>5 DEF OneReplay
    <3> QED BY <1>1, <2>1, <2>2, <2>3, <2>5, <2>6, <2>7, <3>1, <3>2, <3>3 DEF OneReplay
  <2>15. Clean' /\ OneReplay /\ EndIsOwn => EndIsOwn'
    <3>1. \A i : Ran(i)' <=> Ran(i)
      BY <1>1 DEF Ran
    <3>2. \A i \in replayJobs' : i.kind \in Endings => i \in replayJobs
      BY <2>3 DEF Endings
    <3> QED BY <1>1, <2>1, <2>2, <2>5, <2>7, <3>1, <3>2 DEF EndIsOwn
  <2>16. Clean' /\ OneReplay /\ OneRuns => OneRuns'
    <3>1. \A i : Reported(i)' => Reported(i)
      BY <1>1, <2>3, ReportedInMail, ReportedInMailNext
    <3>2. \A i \in replayJobs' : i.kind \in Endings \/ i.kind = "clear" => i \in replayJobs
      BY <2>3 DEF Endings
    <3> QED BY <1>1, <2>1, <2>2, <2>5, <2>6, <2>7, <3>1, <3>2 DEF OneRuns
  <2>17. Clean' /\ OneReplay => RetainedIsLeft'
    BY <2>1, <2>6 DEF RetainedIsLeft
  <2> QED BY <2>4, <2>8, <2>9, <2>10, <2>11, <2>12, <2>13, <2>14, <2>15, <2>16, <2>17 DEF ReplayInv, WhenClean
<1>5. CASE ~tab[n].open
  <2>1. /\ ss' = ClearReplayStorage(n) /\ replayJobs' = replayJobs \ {j} /\ UNCHANGED <<sw, alarms>>
        /\ replayMishaps' = replayMishaps \cup (IF ss.ses.task \notin {0, n} THEN {"gone", "overlap"} ELSE {"gone"})
    BY <1>5 DEF Restore, Replace, Note
  <2>2. /\ ss' \in SsSet /\ ss'.ses = NoReplaySession /\ ss'.pay = ss.pay \ {n} /\ ss'.rows = ss.rows
        /\ ss'.ret = ss.ret /\ ss'.dsl = ss.dsl
        /\ ss'.ctx[n] = NoContext /\ \A i \in Tasks \ {n} : ss'.ctx[i] = ss.ctx[i]
    <3>1. NoContext \in [pos : -1..LastStep, got : SUBSET Values] /\ NoReplaySession \in StoredSession
      BY NoContextIs, NoneIsSession
    <3> HIDE DEF n
    <3> QED BY <1>2, <1>3, <2>1, <3>1 DEF SsSet, ClearReplayStorage
  <2>3. \A i \in replayJobs' : i \in replayJobs
    BY <2>1
  <2>4. /\ replayMishaps \subseteq replayMishaps' /\ replayMishaps' \subseteq ReplayMishaps
        /\ (Clean' => Clean) /\ (Sighted' => Sighted)
    BY <1>3, <2>1 DEF Clean, Sighted, ReplayMishaps
  <2>5. Clean' => ss.ses.task \in {0, n}
    BY <2>1 DEF Clean
  <2>6. ~tab[n].run
    BY <1>2, <1>5, NoTabIs DEF ReplayInv, ReplayTyped, TabsTyped
  <2> HIDE DEF s, n
  <2>7. ReplayTyped'
    <3>1. SwTyped' /\ SsTyped'
      BY <2>1, <2>2, NoneIsSession DEF ReplayInv, ReplayTyped, SwTyped, SsTyped, OfTask
    <3>2. TabsTyped' /\ WizardTyped' /\ BoundsTyped' /\ ServerTyped' /\ WireTyped'
      BY <1>1, <2>1, <2>2, <2>4 DEF ReplayInv, ReplayTyped, TabsTyped, WizardTyped, BoundsTyped, ServerTyped, WireTyped
    <3>3. JobsTyped'
      BY <2>3 DEF ReplayInv, ReplayTyped, JobsTyped, JobTyped
    <3> QED BY <3>1, <3>2, <3>3 DEF ReplayTyped
  <2>8. ChainSound'
    BY <1>1, <2>3, ChainShrinks DEF ReplayInv
  <2>9. NothingAhead'
    <3>1. NoReplaySession.task <= tasks
      BY NoneIsSession DEF ReplayInv, ReplayTyped, ServerTyped
    <3> QED BY <1>1, <2>1, <2>2, <2>3, <3>1 DEF ReplayInv, NothingAhead
  <2>10. BootsFirst'
    BY <1>1, <2>1, <2>2, <2>3, JobNamesTask DEF ReplayInv, ReplayTyped, BootsFirst
  <2>11. ProgressIsDone'
    BY <1>1, <2>1, <2>2, <2>3, NoContextIs DEF ReplayInv, ProgressIsDone
  <2>12. ValuesAreKept'
    <3>1. ContextsKept => ContextsKept'
      BY <1>1, <2>2, NoContextIs DEF ContextsKept
    <3> QED BY <1>1, <2>1, <2>2, <2>4, <3>1 DEF ReplayInv, ValuesAreKept, RowsKept, RowsAccepted, Whole
  <2>13. (OneReplay => OneReplay') /\ (EndIsOwn => EndIsOwn') /\ (RetainedIsLeft => RetainedIsLeft')
    BY <1>1, <2>1, <2>2, <2>3, NoneIsSession DEF OneReplay, ReplayAsked, Queued, EndIsOwn, Ran, RetainedIsLeft
  <2>14. Clean' /\ OneRuns => OneRuns'
    <3>1. \A i : Reported(i)' => Reported(i)
      BY <1>1, <2>3, ReportedInMail, ReportedInMailNext
    <3>2. Clean' /\ OneRuns => \A i \in Tasks : ~(tab[i].run /\ ~tab[i].abort)
      BY <2>5, <2>6, ZeroIsNone DEF OneRuns
    <3>3. sw.act # NoReplaySession => sw.act.task \in Tasks
      BY <1>3 DEF OfTask
    <3>4. Clean' /\ OneRuns => ~(sw.act # NoReplaySession /\ sw.act.task \in ss'.pay)
      BY <2>2, <2>5, <3>3, ZeroIsNone DEF OneRuns
    <3> QED BY <1>1, <2>1, <2>2, <2>3, <3>1, <3>2, <3>4 DEF OneRuns
  <2> QED BY <2>4, <2>7, <2>8, <2>9, <2>10, <2>11, <2>12, <2>13, <2>14 DEF ReplayInv, WhenClean
<1> QED BY <1>4, <1>5

\* The cleanup that an alarm starts.
LEMMA AlarmJob ==
  ASSUME NEW n \in Tasks
  PROVE  IsCleanup([ReplayJob("clear", n) EXCEPT !.status = "failure", !.abort = TRUE, !.close = TRUE],
                   n, "failure", TRUE, TRUE, "none")
<1> DEFINE r == ReplayJob("clear", n)
           j == [r EXCEPT !.status = "failure", !.abort = TRUE, !.close = TRUE]
<1>1. n \in 0..MaxTasks /\ "clear" \in JobKinds
  BY ZeroIsNone DEF JobKinds, TaskJobs, Endings
<1>2. r \in ReplayJobSet /\ r.kind = "clear" /\ r.task = n /\ r.ses = NoReplaySession /\ r.then = "none"
  BY <1>1, ReplayJobTyped, ZenonT(60)
<1> HIDE DEF r
<1>3. j \in ReplayJobSet
  BY <1>2 DEF ReplayJobSet, ReplayStatus
<1>4. j.kind = "clear" /\ j.task = n /\ j.status = "failure" /\ j.then = "none" /\ j.ses = NoReplaySession
  BY <1>2 DEF ReplayJobSet
<1>5. j.abort = TRUE /\ j.close = TRUE
  BY <1>2 DEF ReplayJobSet
<1>6. IsCleanup(j, n, "failure", TRUE, TRUE, "none")
  <2> HIDE DEF j
  <2> QED BY <1>3, <1>4, <1>5 DEF IsCleanup, JobTyped, Endings
<1> QED BY <1>6 DEF r

\* An alarm ends the session it finds in storage.
LEMMA AlarmKeeps ==
  ASSUME ReplayInv, NEW n \in Tasks, Alarm(n), replayLeft' \in [ReplayPlanKeys -> Nat]
  PROVE  ReplayInv'
<1> DEFINE k == [ReplayJob("clear", n) EXCEPT !.status = "failure", !.abort = TRUE, !.close = TRUE]
<1>1. /\ ss.ses.task = n /\ replayJobs' = replayJobs \cup {k}
      /\ replayMishaps' = replayMishaps \cup (IF ss.ret = n THEN {"late"} ELSE {})
      /\ UNCHANGED <<sw, ss, alarms, tab, inbox, news, wiz, srv, tasks, owner, done>>
  BY DEF Alarm, AlarmSession, Note
<1>2. IsCleanup(k, n, "failure", TRUE, TRUE, "none")
  BY AlarmJob, Zenon
<1> HIDE DEF k
<1>3. \A i \in replayJobs' : i \in replayJobs \/ i = k
  BY <1>1
<1>4. /\ JobTyped(k) /\ k.kind = "clear" /\ k.task = n /\ k.status = "failure" /\ k.abort /\ k.close /\ k.then = "none"
      /\ k.ses = NoReplaySession
  BY <1>2 DEF IsCleanup
<1>5. n <= tasks /\ ss.ses # NoReplaySession
  BY <1>1, NoneIsSession, ZeroIsNone DEF ReplayInv, NothingAhead
<1>6. /\ replayMishaps \subseteq replayMishaps' /\ replayMishaps' \subseteq ReplayMishaps
      /\ (Clean' => Clean) /\ (Sighted' => Sighted) /\ (Clean' => ss.ret # n)
  BY <1>1 DEF ReplayInv, ReplayTyped, BoundsTyped, Clean, Sighted, ReplayMishaps
<1>7. ReplayTyped'
  <2>1. JobsTyped'
    BY <1>3, <1>4 DEF ReplayInv, ReplayTyped, JobsTyped
  <2> QED BY <1>1, <1>6, <2>1 DEF ReplayInv, ReplayTyped, SwTyped, SsTyped, OfTask, TabsTyped, WizardTyped, BoundsTyped, ServerTyped, WireTyped
<1>8. ChainSound'
  BY <1>1, <1>3, <1>4, ChainShrinks DEF ReplayInv, OffChain
<1>9. NothingAhead'
  <2>1. NoReplaySession.task <= tasks
    BY NoneIsSession DEF ReplayInv, ReplayTyped, ServerTyped
  <2> QED BY <1>1, <1>3, <1>4, <1>5, <2>1 DEF ReplayInv, NothingAhead
<1>10. BootsFirst'
  BY <1>1, <1>3, <1>4 DEF ReplayInv, BootsFirst
<1>11. ProgressIsDone'
  BY <1>1, <1>3, <1>4 DEF ReplayInv, ProgressIsDone
<1>12. ValuesAreKept'
  BY <1>1, <1>6 DEF ReplayInv, ValuesAreKept, ContextsKept, RowsKept, RowsAccepted, Whole
<1>13. Clean' /\ OneReplay => n = tasks /\ ss.ret = 0 /\ ~ReplayAsked
  BY <1>1, <1>5, <1>6, ZeroIsNone DEF OneReplay
<1>14. Clean' /\ OneReplay => OneReplay'
  <2>1. ~ReplayAsked => ~ReplayAsked' /\ ~Queued("create")'
    BY <1>3, <1>4 DEF ReplayAsked, Queued
  <2> QED BY <1>1, <1>3, <1>4, <1>13, <2>1 DEF OneReplay
<1>15. EndIsOwn => EndIsOwn'
  BY <1>1, <1>3, <1>4 DEF EndIsOwn, Ran
<1>16. OneRuns => OneRuns'
  <2>1. \A i : Reported(i)' => Reported(i)
    BY <1>1, <1>3, <1>4, ReportedInMail, ReportedInMailNext
  <2> QED BY <1>1, <1>3, <1>4, <2>1 DEF OneRuns
<1>17. Clean' /\ OneReplay => RetainedIsLeft'
  BY <1>1, <1>13 DEF RetainedIsLeft
<1> QED BY <1>6, <1>7, <1>8, <1>9, <1>10, <1>11, <1>12, <1>14, <1>15, <1>16, <1>17 DEF ReplayInv, WhenClean

-----------------------------------------------------------------------------
(* The replay: the wizard page.                                             *)

\* What the wizard page may do: it hears what was told, asks for a cancellation, completes its attempt.
LEMMA WizardKeeps ==
  ASSUME ReplayInv, WizardTyped',
         news' \in Seq(ReplayNews), Len(news') <= MaxWire + 1, Mail(news)' \subseteq Mail(news),
         sw' \in SwSet,
         \/ sw'.act = sw.act /\ sw'.listens = sw.listens
         \/ sw'.act = NoReplaySession /\ sw'.listens = {} /\ replayJobs' = {},
         \A n \in Tasks : sw'.rows[n] = {} \/ sw'.rows[n] = sw.rows[n],
         replayLeft' \in [ReplayPlanKeys -> Nat], replayMishaps \subseteq replayMishaps', replayMishaps' \subseteq ReplayMishaps,
         RowsKept => Whole(wiz'.rows) /\ Whole(wiz'.sent.rows),
         wiz'.sent.status = "success" => wiz.sent.status = "success" \/ \E m \in Mail(news) : m.status = "success",
         srv' \in [Tasks -> AttemptSet],
         \A a \in Tasks : srv'[a].status = "verified" =>
           \/ srv[a].status = "verified" /\ srv'[a].rows = srv[a].rows
           \/ (EndIsOwn => Ran(a)) /\ (RowsKept => srv'[a].rows = Values),
         \A i \in replayJobs' : i \in replayJobs \/
           (JobTyped(i) /\ i.kind = "abort" /\ i.task = 0 /\ i.ses = NoReplaySession /\ i.then = "none"),
         UNCHANGED <<ss, alarms, tab, inbox, tasks, owner, done>>
  PROVE  ReplayInv'
<1>1. (Clean' => Clean) /\ (Sighted' => Sighted)
  BY DEF Clean, Sighted
<1>2. OfTask(sw.act) /\ OfTask(NoReplaySession) /\ sw.act.task <= tasks /\ NoReplaySession.task = 0 /\ 0 <= tasks
  BY NoneIsSession DEF ReplayInv, ReplayTyped, SwTyped, NothingAhead, ServerTyped
<1>3. ReplayTyped'
  <2>1. SwTyped' /\ SsTyped'
    BY <1>2 DEF ReplayInv, ReplayTyped, SwTyped, SsTyped, OfTask
  <2>2. TabsTyped' /\ BoundsTyped' /\ ServerTyped' /\ WireTyped'
    BY DEF ReplayInv, ReplayTyped, TabsTyped, BoundsTyped, ServerTyped, WireTyped
  <2>3. JobsTyped'
    BY DEF ReplayInv, ReplayTyped, JobsTyped, JobTyped
  <2> QED BY <2>1, <2>2, <2>3 DEF ReplayTyped
<1>4. ChainSound'
  BY ChainShrinks DEF ReplayInv, OffChain
<1>5. NothingAhead'
  BY <1>2 DEF ReplayInv, NothingAhead
<1>6. BootsFirst'
  BY DEF ReplayInv, BootsFirst
<1>7. ProgressIsDone'
  BY DEF ReplayInv, ProgressIsDone
<1>8. ValuesAreKept'
  <2>1. ContextsKept => ContextsKept'
    BY DEF ContextsKept
  <2>2. RowsKept => RowsKept'
    BY DEF RowsKept, Whole
  <2>3. RowsKept /\ RowsAccepted => RowsAccepted'
    BY DEF RowsAccepted
  <2> QED BY <1>1, <2>1, <2>2, <2>3 DEF ReplayInv, ValuesAreKept
<1>9. \A i \in replayJobs' : i.kind # "abort" => i \in replayJobs
  OBVIOUS
<1>10. "abort" \notin Endings /\ "abort" \notin {"start", "create", "clear", "retain", "late"}
  BY DEF Endings
<1>11. OneReplay => OneReplay'
  <2>1. (ReplayAsked' => ReplayAsked) /\ (Queued("create")' => Queued("create"))
    BY <1>9, <1>10 DEF ReplayAsked, Queued
  <2> QED BY <1>2, <1>9, <1>10, <2>1 DEF OneReplay
<1>12. EndIsOwn => EndIsOwn'
  <2>1. \A i : Ran(i)' <=> Ran(i)
    BY DEF Ran
  <2>2. EndIsOwn /\ (wiz'.sent.status = "success" \/ \E m \in Mail(news)' : m.status = "success") => Ran(ss.dsl)
    BY DEF EndIsOwn
  <2>3. EndIsOwn => \A a \in Tasks : srv'[a].status = "verified" => Ran(a)
    BY DEF EndIsOwn
  <2>4. EndIsOwn => \A i \in replayJobs' : i.kind \in Endings /\ i.status = "success" => done[i.task] = Steps /\ owner[i.task] = ss.dsl
    BY <1>9, <1>10 DEF EndIsOwn
  <2>5. EndIsOwn => (sw'.act # NoReplaySession => owner[sw'.act.task] = ss.dsl)
    BY DEF EndIsOwn
  <2> QED BY <2>1, <2>2, <2>3, <2>4, <2>5 DEF EndIsOwn
<1>13. OneRuns => OneRuns'
  <2>1. \A i : Reported(i)' => Reported(i)
    BY <1>9, <1>10, ReportedInMail, ReportedInMailNext
  <2> QED BY <1>9, <1>10, <2>1 DEF OneRuns
<1>14. RetainedIsLeft => RetainedIsLeft'
  BY <1>9, <1>10 DEF RetainedIsLeft
<1> QED BY <1>1, <1>3, <1>4, <1>5, <1>6, <1>7, <1>8, <1>11, <1>12, <1>13, <1>14 DEF ReplayInv, WhenClean

\* The attempt and the rows are taken at once.
LEMMA CompleteReplayIs ==
  ASSUME NEW w \in WizardSet, NEW st \in ReplayStatus
  PROVE  /\ CompleteReplay(w, st) \in WizardSet
         /\ CompleteReplay(w, st).open = w.open /\ CompleteReplay(w, st).att = w.att /\ CompleteReplay(w, st).rows = w.rows
         /\ \/ CompleteReplay(w, st).sent = w.sent
            \/ /\ CompleteReplay(w, st).sent.att = w.att /\ CompleteReplay(w, st).sent.status = st
               /\ CompleteReplay(w, st).sent.rows = w.rows
<1>1. CASE w.att = 0 \/ w.sent # Idle
  BY <1>1 DEF CompleteReplay
<1>2. CASE ~(w.att = 0 \/ w.sent # Idle)
  <2> DEFINE v == [att |-> w.att, status |-> st, rows |-> w.rows]
  <2>1. v \in Verdicts /\ v.att = w.att /\ v.status = st /\ v.rows = w.rows
    BY DEF Verdicts, WizardSet
  <2>2. CompleteReplay(w, st) = [w EXCEPT !.sent = v]
    BY <1>2 DEF CompleteReplay
  <2> HIDE DEF v
  <2>3. [w EXCEPT !.sent = v] \in WizardSet /\ [w EXCEPT !.sent = v].att = w.att /\ [w EXCEPT !.sent = v].rows = w.rows
        /\ [w EXCEPT !.sent = v].sent = v
    BY <2>1 DEF WizardSet
  <2>4. [w EXCEPT !.sent = v].open = w.open
    BY DEF WizardSet
  <2> QED BY <2>1, <2>2, <2>3, <2>4
<1> QED BY <1>1, <1>2

\* Nothing is sent when nothing is under way.
LEMMA IdleIs == Idle \in Verdicts /\ Idle.att = 0 /\ Idle.status = "none" /\ Idle.rows = {}
BY ZeroIsNone DEF Idle, Verdicts, ReplayStatus

\* The page was not opened.
LEMMA NoWizardIs ==
  /\ NoWizard \in WizardSet /\ ~NoWizard.open /\ NoWizard.att = 0 /\ NoWizard.rows = {} /\ NoWizard.sent = Idle
BY ZeroIsNone, IdleIs DEF NoWizard, WizardSet

\* The page hears what was told.
LEMMA HearNewsKeeps ==
  ASSUME ReplayInv, HearNews
  PROVE  ReplayInv'
<1> DEFINE m == Head(news)
<1>1. /\ news # <<>> /\ news' = Tail(news)
      /\ UNCHANGED <<sw, ss, alarms, replayJobs, tab, inbox, srv, tasks, owner, done, replayLeft, replayMishaps>>
  BY DEF HearNews
<1>2. /\ m \in Mail(news) /\ m \in ReplayNews
      /\ news' \in Seq(ReplayNews) /\ Len(news') <= MaxWire + 1 /\ Mail(news)' \subseteq Mail(news)
  <2>1. news \in Seq(ReplayNews) /\ Len(news) <= MaxWire + 1 /\ MaxWire \in Nat
    BY ReplayAssumption DEF ReplayInv, ReplayTyped, WireTyped
  <2>2. Mail(news)' = Mail(Tail(news))
    BY <1>1 DEF Mail
  <2>3. /\ Head(news) \in Mail(news) /\ Mail(news) \subseteq ReplayNews /\ Tail(news) \in Seq(ReplayNews)
        /\ Len(Tail(news)) = Len(news) - 1 /\ Mail(Tail(news)) \subseteq Mail(news)
    BY <1>1, <2>1, MailOfTail
  <2> QED BY <1>1, <2>1, <2>2, <2>3
<1>3. /\ wiz \in WizardSet /\ (wiz.open => wiz.att = ss.dsl) /\ (~wiz.open => wiz = NoWizard)
      /\ (wiz.sent # Idle => wiz.open /\ wiz.sent.att = wiz.att)
  BY DEF ReplayInv, ReplayTyped, WizardTyped
<1>4. m.status \in ReplayStatus /\ m.got \in SUBSET Values /\ (RowsKept => Whole(m.got))
  BY <1>2, SMTT(60) DEF ReplayNews, RowsKept
<1> HIDE DEF m
<1>5. /\ wiz' \in WizardSet /\ wiz'.open = wiz.open /\ wiz'.att = wiz.att
      /\ wiz'.rows = wiz.rows \/ wiz'.rows = wiz.rows \cup m.got
      /\ \/ wiz'.sent = wiz.sent
         \/ /\ wiz.open /\ wiz'.sent.att = wiz.att /\ wiz'.sent.rows = wiz.rows
            /\ wiz'.sent.status = "success" => m.status = "success"
      /\ ~wiz.open => wiz' = wiz
  <2>1. CASE wiz' = wiz
    BY <1>3, <2>1
  <2>2. CASE wiz.open /\ wiz' = AbortAnswered(wiz)
    <3> DEFINE w == [wiz EXCEPT !.cancel = "no", !.status = "cancelled"]
    <3>1. w \in WizardSet /\ w.att = wiz.att /\ w.rows = wiz.rows /\ w.sent = wiz.sent
      BY <1>3 DEF WizardSet
    <3>2. w.open = wiz.open
      BY <1>3 DEF WizardSet
    <3>3. wiz' = CompleteReplay(w, "cancelled")
      BY <2>2 DEF AbortAnswered
    <3>4. "cancelled" \in ReplayStatus /\ "cancelled" # "success"
      BY DEF ReplayStatus
    <3> DEFINE c == CompleteReplay(w, "cancelled")
    <3> HIDE DEF w
    <3>5. /\ c \in WizardSet /\ c.open = w.open /\ c.att = w.att /\ c.rows = w.rows
          /\ c.sent = w.sent \/ (c.sent.att = w.att /\ c.sent.status = "cancelled" /\ c.sent.rows = w.rows)
      BY <3>1, <3>4, CompleteReplayIs
    <3>6. wiz' = c
      BY <3>3
    <3> HIDE DEF c
    <3> QED BY <2>2, <3>1, <3>2, <3>4, <3>5, <3>6
  <2>3. CASE wiz.open /\ wiz' = ProgressShown(wiz, m.got)
    <3>1. wiz' \in WizardSet /\ wiz'.att = wiz.att /\ wiz'.sent = wiz.sent /\ wiz'.rows = wiz.rows \cup m.got
      BY <1>3, <1>4, <2>3 DEF WizardSet, ProgressShown
    <3>2. wiz'.open = wiz.open
      BY <1>3, <2>3 DEF WizardSet, ProgressShown
    <3> QED BY <2>3, <3>1, <3>2
  <2>4. CASE wiz.open /\ wiz' = CompleteReplay([wiz EXCEPT !.status = IF @ = "idle" THEN "running" ELSE @], m.status)
    <3> DEFINE w == [wiz EXCEPT !.status = IF @ = "idle" THEN "running" ELSE @]
    <3>1. w \in WizardSet /\ w.att = wiz.att /\ w.rows = wiz.rows /\ w.sent = wiz.sent
      BY <1>3 DEF WizardSet
    <3>2. w.open = wiz.open
      BY <1>3 DEF WizardSet
    <3>3. wiz' = CompleteReplay(w, m.status)
      BY <2>4
    <3> DEFINE c == CompleteReplay(w, m.status)
    <3> HIDE DEF w
    <3>4. /\ c \in WizardSet /\ c.open = w.open /\ c.att = w.att /\ c.rows = w.rows
          /\ c.sent = w.sent \/ (c.sent.att = w.att /\ c.sent.status = m.status /\ c.sent.rows = w.rows)
      BY <1>4, <3>1, CompleteReplayIs
    <3>5. wiz' = c
      BY <3>3
    <3> HIDE DEF c
    <3> QED BY <2>4, <3>1, <3>2, <3>4, <3>5
  <2> QED BY <2>1, <2>2, <2>3, <2>4 DEF HearNews, m
<1>6. WizardTyped'
  BY <1>1, <1>3, <1>5 DEF WizardTyped
<1>7. RowsKept => Whole(wiz'.rows) /\ Whole(wiz'.sent.rows)
  BY <1>4, <1>5 DEF RowsKept, Whole
<1>8. wiz'.sent.status = "success" => wiz.sent.status = "success" \/ \E x \in Mail(news) : x.status = "success"
  BY <1>2, <1>5
<1>9. sw \in SwSet /\ replayLeft \in [ReplayPlanKeys -> Nat] /\ replayMishaps \subseteq ReplayMishaps /\ srv \in [Tasks -> AttemptSet]
  BY DEF ReplayInv, ReplayTyped, SwTyped, BoundsTyped, ServerTyped
<1> QED BY <1>1, <1>2, <1>6, <1>7, <1>8, <1>9, WizardKeeps

\* The page sends nothing new and hears nothing.
LEMMA WizardStays ==
  ASSUME ReplayInv, WizardTyped', UNCHANGED <<ss, alarms, tab, inbox, news, srv, tasks, owner, done>>,
         sw' \in SwSet, sw'.rows = sw.rows, sw'.act = sw.act, sw'.listens = sw.listens,
         replayLeft' \in [ReplayPlanKeys -> Nat], replayMishaps \subseteq replayMishaps', replayMishaps' \subseteq ReplayMishaps,
         wiz'.rows = wiz.rows \/ wiz'.rows = {}, wiz'.sent = wiz.sent \/ wiz'.sent = Idle,
         \A i \in replayJobs' : i \in replayJobs \/
           (JobTyped(i) /\ i.kind = "abort" /\ i.task = 0 /\ i.ses = NoReplaySession /\ i.then = "none")
  PROVE  ReplayInv'
<1>1. RowsKept => Whole(wiz'.rows) /\ Whole(wiz'.sent.rows)
  BY IdleIs DEF RowsKept, Whole
<1>2. wiz'.sent.status = "success" => wiz.sent.status = "success"
  BY IdleIs
<1>3. news \in Seq(ReplayNews) /\ Len(news) <= MaxWire + 1 /\ srv \in [Tasks -> AttemptSet] /\ Mail(news)' = Mail(news)
  BY DEF ReplayInv, ReplayTyped, WireTyped, ServerTyped, Mail
<1> QED BY <1>1, <1>2, <1>3, WizardKeeps

\* What the page asks the service worker for.
LEMMA RequestJob ==
  ASSUME NEW kind \in {"start", "abort"}
  PROVE  LET k == ReplayJob(kind, 0) IN
         JobTyped(k) /\ k.kind = kind /\ k.task = 0 /\ k.then = "none" /\ k.ses = NoReplaySession
<1>1. kind \in JobKinds /\ kind \notin TaskJobs /\ kind # "restore"
  BY DEF JobKinds, TaskJobs, Endings
<1> QED BY <1>1, ZeroIsNone, ReplayJobTyped

\* The cancellation is asked for.
LEMMA AbortReplayKeeps ==
  ASSUME ReplayInv, AbortReplay
  PROVE  ReplayInv'
<1> DEFINE k == ReplayJob("abort", 0)
<1>1. /\ wiz.open /\ SpendMishap("cancel") /\ wiz' = [wiz EXCEPT !.cancel = "asked"] /\ replayJobs' = replayJobs \cup {k}
      /\ UNCHANGED <<sw, ss, alarms, tab, inbox, news, srv, tasks, owner, done, replayMishaps>>
  BY DEF AbortReplay, Free
<1>2. JobTyped(k) /\ k.kind = "abort" /\ k.task = 0 /\ k.ses = NoReplaySession /\ k.then = "none"
  BY RequestJob
<1> HIDE DEF k
<1>3. wiz \in WizardSet /\ sw \in SwSet /\ replayMishaps \subseteq ReplayMishaps
  BY DEF ReplayInv, ReplayTyped, WizardTyped, SwTyped, BoundsTyped
<1>4. wiz' \in WizardSet /\ wiz'.att = wiz.att /\ wiz'.rows = wiz.rows /\ wiz'.sent = wiz.sent
  BY <1>1, <1>3 DEF WizardSet
<1>5. wiz'.open = wiz.open
  BY <1>1, <1>3 DEF WizardSet
<1>6. WizardTyped'
  BY <1>1, <1>4, <1>5 DEF ReplayInv, ReplayTyped, WizardTyped
<1>7. replayLeft' \in [ReplayPlanKeys -> Nat]
  BY <1>1, Spends DEF ReplayInv, ReplayTyped
<1> QED BY <1>1, <1>2, <1>3, <1>4, <1>6, <1>7, WizardStays

\* The request fails.
LEMMA SendFailsKeeps ==
  ASSUME ReplayInv, SendFails
  PROVE  ReplayInv'
<1>1. /\ wiz.sent # Idle /\ wiz' = [wiz EXCEPT !.sent = Idle, !.status = "failure"]
      /\ replayMishaps' = replayMishaps \cup {"unfinished"}
      /\ UNCHANGED <<sw, ss, alarms, replayJobs, tab, inbox, news, srv, tasks, owner, done, replayLeft>>
  BY DEF SendFails, Note
<1>2. wiz \in WizardSet /\ sw \in SwSet /\ replayMishaps \subseteq ReplayMishaps /\ wiz.open /\ replayLeft \in [ReplayPlanKeys -> Nat]
  BY <1>1 DEF ReplayInv, ReplayTyped, WizardTyped, SwTyped, BoundsTyped
<1>3. wiz' \in WizardSet /\ wiz'.att = wiz.att /\ wiz'.rows = wiz.rows /\ wiz'.sent = Idle
  BY <1>1, <1>2, IdleIs DEF WizardSet
<1>4. wiz'.open = wiz.open
  BY <1>1, <1>2 DEF WizardSet
<1>5. WizardTyped'
  BY <1>1, <1>2, <1>3, <1>4 DEF ReplayInv, ReplayTyped, WizardTyped
<1>6. replayMishaps \subseteq replayMishaps' /\ replayMishaps' \subseteq ReplayMishaps
  BY <1>1, <1>2 DEF ReplayMishaps
<1> QED BY <1>1, <1>2, <1>3, <1>5, <1>6, WizardStays

\* The page's port is there again, goes with the page and comes with it.
LEMMA ReconnectKeeps ==
  ASSUME ReplayInv, Reconnect
  PROVE  ReplayInv'
<1>1. /\ wiz.open /\ wiz' = [wiz EXCEPT !.port = TRUE] /\ sw' = [sw EXCEPT !.port = TRUE]
      /\ UNCHANGED <<ss, alarms, replayJobs, tab, inbox, news, srv, tasks, owner, done, replayLeft, replayMishaps>>
  BY DEF Reconnect
<1>2. wiz \in WizardSet /\ sw \in SwSet /\ replayMishaps \subseteq ReplayMishaps /\ replayLeft \in [ReplayPlanKeys -> Nat]
  BY DEF ReplayInv, ReplayTyped, WizardTyped, SwTyped, BoundsTyped
<1>3. wiz' \in WizardSet /\ wiz'.att = wiz.att /\ wiz'.rows = wiz.rows /\ wiz'.sent = wiz.sent
  BY <1>1, <1>2 DEF WizardSet
<1>4. wiz'.open = wiz.open
  BY <1>1, <1>2 DEF WizardSet
<1>5. WizardTyped'
  BY <1>1, <1>3, <1>4 DEF ReplayInv, ReplayTyped, WizardTyped
<1>6. sw' \in SwSet /\ sw'.rows = sw.rows /\ sw'.act = sw.act /\ sw'.listens = sw.listens
  BY <1>1, <1>2 DEF SwSet
<1> QED BY <1>1, <1>2, <1>3, <1>5, <1>6, WizardStays

\* The page goes.
LEMMA WizardClosesKeeps ==
  ASSUME ReplayInv, WizardCloses
  PROVE  ReplayInv'
<1>1. /\ SpendMishap("wizard") /\ wiz' = NoWizard /\ sw' = [sw EXCEPT !.port = FALSE]
      /\ replayMishaps' = replayMishaps \cup (IF wiz.sent # Idle \/ news # <<>> \/ wiz.cancel # "no" THEN {"unfinished"} ELSE {})
      /\ UNCHANGED <<ss, alarms, replayJobs, tab, inbox, news, srv, tasks, owner, done>>
  BY DEF WizardCloses, Note
<1>2. sw \in SwSet /\ replayMishaps \subseteq ReplayMishaps
  BY DEF ReplayInv, ReplayTyped, SwTyped, BoundsTyped
<1>3. WizardTyped'
  BY <1>1, NoWizardIs DEF WizardTyped
<1>4. wiz'.rows = {} /\ wiz'.sent = Idle
  BY <1>1, NoWizardIs
<1>5. sw' \in SwSet /\ sw'.rows = sw.rows /\ sw'.act = sw.act /\ sw'.listens = sw.listens
  BY <1>1, <1>2 DEF SwSet
<1>6. replayLeft' \in [ReplayPlanKeys -> Nat]
  BY <1>1, Spends DEF ReplayInv, ReplayTyped
<1>7. replayMishaps \subseteq replayMishaps' /\ replayMishaps' \subseteq ReplayMishaps
  BY <1>1, <1>2 DEF ReplayMishaps
<1> QED BY <1>1, <1>3, <1>4, <1>5, <1>6, <1>7, WizardStays

\* The page is opened and follows the remembered attempt.
LEMMA WizardOpensKeeps ==
  ASSUME ReplayInv, WizardOpens
  PROVE  ReplayInv'
<1>1. /\ wiz' = Resumed /\ sw' = [sw EXCEPT !.port = TRUE]
      /\ UNCHANGED <<ss, alarms, replayJobs, tab, inbox, news, srv, tasks, owner, done, replayLeft, replayMishaps>>
  BY DEF WizardOpens
<1>2. sw \in SwSet /\ replayMishaps \subseteq ReplayMishaps /\ replayLeft \in [ReplayPlanKeys -> Nat] /\ ss.dsl \in 0..MaxTasks
  BY DEF ReplayInv, ReplayTyped, SwTyped, BoundsTyped, SsTyped, SsSet
<1> DEFINE x == IF ss.dsl = 0 THEN "idle" ELSE ShownStatus(srv[ss.dsl].status)
<1>3. x \in {"idle", "running", "success", "failure", "cancelled"}
  BY DEF ShownStatus
<1>4. Resumed = [NoWizard EXCEPT !.open = TRUE, !.port = TRUE, !.att = ss.dsl, !.status = x]
  BY DEF Resumed
<1> HIDE DEF x
<1>5. Resumed \in WizardSet /\ Resumed.att = ss.dsl /\ Resumed.rows = {} /\ Resumed.sent = Idle
  BY <1>2, <1>3, <1>4, NoWizardIs DEF WizardSet
<1>6. Resumed.open
  BY <1>4, NoWizardIs DEF WizardSet
<1>7. WizardTyped'
  BY <1>1, <1>5, <1>6 DEF WizardTyped
<1>8. wiz'.rows = {} /\ wiz'.sent = Idle
  BY <1>1, <1>5
<1>9. sw' \in SwSet /\ sw'.rows = sw.rows /\ sw'.act = sw.act /\ sw'.listens = sw.listens
  BY <1>1, <1>2 DEF SwSet
<1> QED BY <1>1, <1>2, <1>7, <1>8, <1>9, WizardStays

\* The service worker dies.
LEMMA ReplayCrashKeeps ==
  ASSUME ReplayInv, ReplayCrash
  PROVE  ReplayInv'
<1> DEFINE x == IF wiz.cancel = "asked" THEN "cancelled" ELSE IF wiz.asked = "yes" THEN "failure" ELSE wiz.status
           y == IF ~wiz.open \/ (wiz.asked = "no" /\ wiz.cancel = "no") \/ wiz.sent # Idle THEN wiz.sent
                ELSE [att |-> wiz.att, rows |-> {}, status |-> IF wiz.asked = "yes" THEN "failure" ELSE "cancelled"]
<1>1. /\ SpendMishap("crash") /\ replayMishaps' = replayMishaps \cup {"crash"} /\ replayJobs' = {}
      /\ sw' = [up |-> FALSE, act |-> NoReplaySession, listens |-> {}, rows |-> [n \in Tasks |-> {}], port |-> FALSE]
      /\ wiz' = [wiz EXCEPT !.port = FALSE, !.status = x, !.asked = "no", !.cancel = "no", !.sent = y]
      /\ UNCHANGED <<ss, alarms, tab, inbox, news, srv, tasks, owner, done>>
  BY DEF ReplayCrash, Note
<1>2. wiz \in WizardSet /\ replayMishaps \subseteq ReplayMishaps /\ news \in Seq(ReplayNews) /\ Len(news) <= MaxWire + 1
      /\ srv \in [Tasks -> AttemptSet] /\ Mail(news)' = Mail(news)
  BY <1>1 DEF ReplayInv, ReplayTyped, WizardTyped, BoundsTyped, WireTyped, ServerTyped, Mail
<1>3. x \in {"idle", "running", "success", "failure", "cancelled"} /\ (~(wiz.cancel = "asked") /\ ~(wiz.asked = "yes") => x = wiz.status)
  BY <1>2 DEF WizardSet
<1>4. /\ y \in Verdicts
      /\ y = wiz.sent \/ (wiz.open /\ y.att = wiz.att /\ y.rows = {} /\ y.status # "success")
  BY <1>2 DEF WizardSet, Verdicts, ReplayStatus
<1> HIDE DEF x, y
<1>5. wiz' \in WizardSet /\ wiz'.att = wiz.att /\ wiz'.rows = wiz.rows /\ wiz'.sent = y
  BY <1>1, <1>2, <1>3, <1>4 DEF WizardSet
<1>6. wiz'.open = wiz.open
  BY <1>1, <1>2 DEF WizardSet
<1>7. wiz = NoWizard => wiz' = wiz
  <2>1. wiz = NoWizard => ~wiz.port /\ wiz.cancel = "no" /\ wiz.asked = "no" /\ ~wiz.open
    BY DEF NoWizard
  <2>2. wiz = NoWizard => x = wiz.status /\ y = wiz.sent /\ wiz.port = FALSE
    BY <1>2, <1>3, <1>4, <2>1 DEF WizardSet
  <2>3. wiz.port = FALSE /\ wiz.cancel = "no" /\ wiz.asked = "no" /\ x = wiz.status /\ y = wiz.sent =>
          [wiz EXCEPT !.port = FALSE, !.status = x, !.asked = "no", !.cancel = "no", !.sent = y] = wiz
    BY <1>2 DEF WizardSet
  <2> QED BY <1>1, <2>1, <2>2, <2>3
<1>8. WizardTyped'
  BY <1>1, <1>4, <1>5, <1>6, <1>7 DEF ReplayInv, ReplayTyped, WizardTyped
<1>9. sw' \in SwSet /\ sw'.act = NoReplaySession /\ sw'.listens = {} /\ \A n \in Tasks : sw'.rows[n] = {}
  BY <1>1, NoneIsSession DEF SwSet
<1>10. replayLeft' \in [ReplayPlanKeys -> Nat]
  BY <1>1, Spends DEF ReplayInv, ReplayTyped
<1>11. replayMishaps \subseteq replayMishaps' /\ replayMishaps' \subseteq ReplayMishaps
  BY <1>1, <1>2 DEF ReplayMishaps
<1>12. RowsKept => Whole(wiz'.rows) /\ Whole(wiz'.sent.rows)
  BY <1>4, <1>5 DEF RowsKept, Whole
<1>13. wiz'.sent.status = "success" => wiz.sent.status = "success"
  BY <1>4, <1>5
<1> QED BY <1>1, <1>2, <1>8, <1>9, <1>10, <1>11, <1>12, <1>13, WizardKeeps

\* The page asks for a replay: of the running attempt, or of a new one.
LEMMA Asks ==
  ASSUME ReplayInv, MayAsk, NEW a \in Tasks, ss' = [ss EXCEPT !.dsl = a],
         replayJobs' = replayJobs \cup {ReplayJob("start", 0)}, Note(Overlap), news = <<>>,
         wiz' \in WizardSet, wiz'.open, wiz'.att = a, wiz'.sent = Idle, wiz'.rows = {},
         srv' \in [Tasks -> AttemptSet],
         \A b \in Tasks : srv'[b].status = "verified" => srv[b].status = "verified" /\ srv'[b].rows = srv[b].rows,
         UNCHANGED <<sw, alarms, tab, inbox, news, tasks, owner, done>>
  PROVE  ReplayInv'
<1> DEFINE k == ReplayJob("start", 0)
<1>1. JobTyped(k) /\ k.kind = "start" /\ k.task = 0 /\ k.ses = NoReplaySession /\ k.then = "none"
  BY RequestJob
<1>2. replayJobs' = replayJobs \cup {k}
  OBVIOUS
<1> HIDE DEF k
<1>3. OnChain = {} /\ ~Queued("start") /\ tasks < MaxTasks /\ SpendMishap("start")
  BY DEF MayAsk, ChainIdle
<1>4. \A i \in replayJobs' : i \in replayJobs \/ i = k
  BY <1>2
<1>5. ss \in SsSet /\ a \in 0..MaxTasks /\ replayMishaps \subseteq ReplayMishaps
  BY ZeroIsNone DEF ReplayInv, ReplayTyped, SsTyped, BoundsTyped
<1>6. /\ ss' \in SsSet /\ ss'.ses = ss.ses /\ ss'.pay = ss.pay /\ ss'.ctx = ss.ctx /\ ss'.rows = ss.rows
      /\ ss'.ret = ss.ret /\ ss'.dsl = a
  BY <1>5 DEF SsSet
<1>7. /\ replayMishaps \subseteq replayMishaps' /\ replayMishaps' \subseteq ReplayMishaps
      /\ (Clean' => Clean) /\ (Sighted' => Sighted)
  BY <1>5 DEF Note, Overlap, Clean, Sighted, ReplayMishaps
<1>8. Clean' => sw.act = NoReplaySession /\ ss.ses = NoReplaySession /\ \A i \in replayJobs : i.kind \notin Endings
  <2>1. Clean' => sw.act = NoReplaySession /\ ss.ses = NoReplaySession /\ \A i \in Tasks : ~Ending(i)
    BY DEF Clean, Note, Overlap
  <2> QED BY <2>1, JobNamesTask DEF ReplayInv, ReplayTyped, Ending, Endings
<1>9. replayLeft' \in [ReplayPlanKeys -> Nat]
  BY <1>3, Spends DEF ReplayInv, ReplayTyped
<1>10. Mail(news)' = {}
  BY DEF Mail
<1>11. ReplayTyped'
  <2>1. SwTyped' /\ SsTyped'
    BY <1>6 DEF ReplayInv, ReplayTyped, SwTyped, SsTyped, OfTask
  <2>2. WizardTyped'
    BY <1>6 DEF WizardTyped
  <2>3. TabsTyped' /\ BoundsTyped' /\ ServerTyped' /\ WireTyped'
    BY <1>7, <1>9 DEF ReplayInv, ReplayTyped, TabsTyped, BoundsTyped, ServerTyped, WireTyped
  <2>4. JobsTyped'
    BY <1>1, <1>4 DEF ReplayInv, ReplayTyped, JobsTyped
  <2> QED BY <2>1, <2>2, <2>3, <2>4 DEF ReplayTyped
<1>12. ChainSound'
  <2>1. OnChain' = {}
    BY <1>1, <1>3, <1>4 DEF OnChain
  <2>2. \A i \in replayJobs' : i.kind = "start" => i = k
    BY <1>3, <1>4 DEF Queued
  <2> QED BY <1>3, <2>1, <2>2 DEF ChainSound
<1>13. NothingAhead'
  <2>1. NoReplaySession.task <= tasks /\ 0 <= tasks
    BY NoneIsSession DEF ReplayInv, ReplayTyped, ServerTyped
  <2> QED BY <1>1, <1>4, <1>6, <2>1 DEF ReplayInv, NothingAhead
<1>14. BootsFirst'
  BY <1>1, <1>4, <1>6 DEF ReplayInv, BootsFirst
<1>15. ProgressIsDone'
  BY <1>1, <1>4, <1>6 DEF ReplayInv, ProgressIsDone
<1>16. ValuesAreKept'
  <2>1. ContextsKept => ContextsKept'
    BY <1>6 DEF ContextsKept
  <2>2. RowsKept => RowsKept'
    BY <1>6, <1>10, IdleIs DEF RowsKept, Whole
  <2>3. RowsAccepted => RowsAccepted'
    BY DEF RowsAccepted
  <2> QED BY <1>7, <2>1, <2>2, <2>3 DEF ReplayInv, ValuesAreKept
<1>17. k.kind \notin Endings /\ k.kind # "create" /\ k.kind # "clear" /\ k.kind \notin {"retain", "late"}
  BY <1>1 DEF Endings
<1>18. ~Queued("create")'
  BY <1>3, <1>4, <1>17 DEF Queued, OnChain
<1>19. Clean' /\ OneReplay => OneReplay'
  BY <1>1, <1>4, <1>6, <1>8, <1>17, <1>18 DEF OneReplay
<1>20. Clean' /\ EndIsOwn => EndIsOwn'
  <2>1. \A i : Ran(i)' <=> Ran(i)
    BY DEF Ran
  <2>2. wiz'.sent.status # "success"
    BY IdleIs
  <2> QED BY <1>4, <1>6, <1>8, <1>10, <1>17, <2>1, <2>2 DEF EndIsOwn
<1>21. Clean' /\ OneRuns => OneRuns'
  <2>1. \A i : Reported(i)' => Reported(i)
    BY <1>4, <1>17, ReportedInMail, ReportedInMailNext
  <2> QED BY <1>4, <1>6, <1>8, <1>17, <2>1 DEF OneRuns
<1>22. RetainedIsLeft => RetainedIsLeft'
  BY <1>4, <1>6, <1>17 DEF RetainedIsLeft
<1> QED BY <1>7, <1>11, <1>12, <1>13, <1>14, <1>15, <1>16, <1>19, <1>20, <1>21, <1>22 DEF ReplayInv, WhenClean

\* The page that asks.
LEMMA AskingPage ==
  ASSUME NEW w \in WizardSet, w.open, w.sent = Idle, NEW a \in Tasks
  PROVE  LET r == [w EXCEPT !.status = "running", !.att = a, !.rows = {}, !.asked = "yes"] IN
         r \in WizardSet /\ r.open /\ r.att = a /\ r.sent = Idle /\ r.rows = {}
<1> DEFINE r == [w EXCEPT !.status = "running", !.att = a, !.rows = {}, !.asked = "yes"]
<1>1. r \in WizardSet /\ r.att = a /\ r.sent = w.sent /\ r.rows = {}
  BY ZeroIsNone DEF WizardSet
<1>2. r.open = w.open
  BY DEF WizardSet
<1> QED BY <1>1, <1>2

\* The user starts a replay.
LEMMA StartReplayKeeps ==
  ASSUME ReplayInv, StartReplay
  PROVE  ReplayInv'
<1> DEFINE a == NextAttempt
<1>1. /\ wiz.open /\ wiz.sent = Idle /\ news = <<>> /\ MayAsk /\ a \in Tasks
      /\ srv' = IF srv[a].status = "none" THEN [srv EXCEPT ![a].status = "running"] ELSE srv
      /\ ss' = [ss EXCEPT !.dsl = a]
      /\ wiz' = [wiz EXCEPT !.status = "running", !.att = a, !.rows = {}, !.asked = "yes"]
      /\ replayJobs' = replayJobs \cup {ReplayJob("start", 0)} /\ Note(Overlap)
      /\ UNCHANGED <<sw, alarms, tab, inbox, news, tasks, owner, done>>
  BY DEF StartReplay, Free, AskReplay
<1> HIDE DEF a
<1>2. wiz \in WizardSet /\ srv \in [Tasks -> AttemptSet]
  BY DEF ReplayInv, ReplayTyped, WizardTyped, ServerTyped
<1>3. wiz' \in WizardSet /\ wiz'.open /\ wiz'.att = a /\ wiz'.sent = Idle /\ wiz'.rows = {}
  BY <1>1, <1>2, AskingPage, ZenonT(60)
<1>4. /\ srv' \in [Tasks -> AttemptSet]
      /\ \A b \in Tasks : srv'[b].status = "verified" => srv[b].status = "verified" /\ srv'[b].rows = srv[b].rows
  <2>1. srv[a] \in AttemptSet
    BY <1>1, <1>2
  <2> DEFINE r == [srv[a] EXCEPT !.status = "running"]
  <2>2. r \in AttemptSet /\ r.status = "running"
    BY <2>1 DEF AttemptSet
  <2>3. srv' = srv \/ srv' = [srv EXCEPT ![a] = r]
    BY <1>1
  <2> HIDE DEF r
  <2> QED BY <1>1, <1>2, <2>2, <2>3
<1> QED BY <1>1, <1>3, <1>4, Asks

\* The page completes its attempt, and may replay a repaired rule at once.
LEMMA SendCompleteKeeps ==
  ASSUME ReplayInv, SendComplete
  PROVE  ReplayInv'
<1> DEFINE t == wiz.sent.att
           ok == wiz.sent.status = "success"
           v == Verdict(t, ok, wiz.sent.rows)
           w == [wiz EXCEPT !.sent = Idle]
<1>1. /\ wiz.open /\ wiz.sent # Idle /\ news = <<>>
      /\ UNCHANGED <<sw, alarms, tab, inbox, news, tasks, owner, done>>
  BY Zenon DEF SendComplete
<1>2. wiz \in WizardSet /\ srv \in [Tasks -> AttemptSet] /\ wiz.sent \in Verdicts /\ t = ss.dsl
  BY <1>1 DEF ReplayInv, ReplayTyped, WizardTyped, ServerTyped, WizardSet
<1>3. t \in 0..MaxTasks /\ wiz.sent.rows \in SUBSET Values /\ ok \in BOOLEAN
  BY <1>2 DEF Verdicts
<1>4. /\ v \in [Tasks -> AttemptSet]
      /\ \A b \in Tasks : v[b].status = "verified" =>
           \/ srv[b].status = "verified" /\ v[b].rows = srv[b].rows
           \/ b = t /\ ok /\ wiz.sent.rows # {} /\ v[b].rows = wiz.sent.rows
  <2> HIDE DEF t, ok
  <2> QED BY <1>2, <1>3, VerdictIs
<1>5. w \in WizardSet /\ w.att = wiz.att /\ w.rows = wiz.rows /\ w.sent = Idle
  BY <1>2, IdleIs DEF WizardSet
<1>6. w.open
  BY <1>1, <1>2 DEF WizardSet
<1> HIDE DEF v, w
<1>7. CASE /\ srv' = v /\ wiz' = [w EXCEPT !.status = ShownStatus(v[t].status)]
           /\ UNCHANGED <<ss, replayJobs, replayLeft, replayMishaps>>
  <2>1. ShownStatus(v[t].status) \in {"idle", "running", "success", "failure", "cancelled"}
    BY DEF ShownStatus
  <2>2. wiz' \in WizardSet /\ wiz'.att = wiz.att /\ wiz'.rows = wiz.rows /\ wiz'.sent = Idle
    BY <1>5, <1>7, <2>1 DEF WizardSet
  <2>3. wiz'.open
    BY <1>5, <1>6, <1>7 DEF WizardSet
  <2>4. WizardTyped'
    BY <1>1, <1>7, <2>2, <2>3 DEF ReplayInv, ReplayTyped, WizardTyped
  <2>5. RowsKept => Whole(wiz'.rows) /\ Whole(wiz'.sent.rows)
    BY <2>2, IdleIs DEF RowsKept, Whole
  <2>6. \A b \in Tasks : srv'[b].status = "verified" =>
          \/ srv[b].status = "verified" /\ srv'[b].rows = srv[b].rows
          \/ (EndIsOwn => Ran(b)) /\ (RowsKept => srv'[b].rows = Values)
    <3>1. RowsKept /\ wiz.sent.rows # {} => wiz.sent.rows = Values
      BY DEF RowsKept, Whole
    <3>2. EndIsOwn /\ ok => Ran(t)
      BY <1>2 DEF EndIsOwn
    <3> QED BY <1>4, <1>7, <3>1, <3>2
  <2>7. /\ sw \in SwSet /\ replayLeft \in [ReplayPlanKeys -> Nat] /\ replayMishaps \subseteq ReplayMishaps
        /\ news \in Seq(ReplayNews) /\ Len(news) <= MaxWire + 1 /\ Mail(news)' = Mail(news)
    BY <1>1 DEF ReplayInv, ReplayTyped, SwTyped, BoundsTyped, WireTyped, Mail
  <2>8. wiz'.sent.status # "success"
    BY <2>2, IdleIs
  <2>9. srv' \in [Tasks -> AttemptSet]
    BY <1>4, <1>7, SMTT(60)
  <2> QED BY <1>1, <1>7, <2>4, <2>5, <2>6, <2>7, <2>8, <2>9, WizardKeeps
<1>8. CASE /\ v[t].status = "failed" /\ MayAsk
           /\ LET a == Cardinality({b \in Tasks : v[b].status # "none"}) + 1 IN
              /\ a \in Tasks
              /\ srv' = [v EXCEPT ![a].status = "running"]
              /\ ss' = [ss EXCEPT !.dsl = a]
              /\ wiz' = [w EXCEPT !.status = "running", !.att = a, !.rows = {}, !.asked = "yes"]
           /\ replayJobs' = replayJobs \cup {ReplayJob("start", 0)} /\ Note(Overlap)
  <2> DEFINE c == Cardinality({b \in Tasks : v[b].status # "none"}) + 1
  <2>1. /\ c \in Tasks /\ srv' = [v EXCEPT ![c].status = "running"] /\ ss' = [ss EXCEPT !.dsl = c]
        /\ wiz' = [w EXCEPT !.status = "running", !.att = c, !.rows = {}, !.asked = "yes"]
    BY <1>8
  <2> HIDE DEF c
  <2>2. wiz' \in WizardSet /\ wiz'.open /\ wiz'.att = c /\ wiz'.sent = Idle /\ wiz'.rows = {}
    BY <1>5, <1>6, <2>1, AskingPage, Zenon
  <2> DEFINE r == [v[c] EXCEPT !.status = "running"]
  <2>3. r \in AttemptSet /\ r.status = "running"
    BY <1>4, <2>1 DEF AttemptSet
  <2>4. srv' = [v EXCEPT ![c] = r]
    BY <2>1
  <2> HIDE DEF r
  <2>5. /\ srv' \in [Tasks -> AttemptSet]
        /\ \A b \in Tasks : srv'[b].status = "verified" => srv[b].status = "verified" /\ srv'[b].rows = srv[b].rows
    BY <1>4, <1>8, <2>1, <2>3, <2>4
  <2> QED BY <1>1, <1>8, <2>1, <2>2, <2>5, Asks, Zenon
<1> QED BY <1>7, <1>8, ZenonT(60) DEF SendComplete, v, w

-----------------------------------------------------------------------------
(* The replay: the invariant.                                               *)

\* Nothing has happened yet.
LEMMA ReplayStarts ==
  ASSUME ReplayInit
  PROVE  ReplayInv
<1>1. /\ sw = [up |-> TRUE, act |-> NoReplaySession, listens |-> {}, rows |-> [n \in Tasks |-> {}], port |-> TRUE]
      /\ ss = [ses |-> NoReplaySession, pay |-> {}, ctx |-> [n \in Tasks |-> NoContext],
               rows |-> [n \in Tasks |-> {}], ret |-> 0, dsl |-> 0]
      /\ alarms = {} /\ replayJobs = {} /\ inbox = <<>> /\ news = <<>> /\ tab = [n \in Tasks |-> NoTab]
      /\ wiz = [NoWizard EXCEPT !.open = TRUE, !.port = TRUE]
      /\ srv = [a \in Tasks |-> [status |-> "none", rows |-> {}]]
      /\ tasks = 0 /\ owner = [n \in Tasks |-> 0] /\ done = [n \in Tasks |-> {}]
      /\ replayLeft \in ReplayPlans /\ replayMishaps = {}
  BY DEF ReplayInit
<1>2. sw \in SwSet /\ sw.act = NoReplaySession /\ sw.listens = {} /\ \A n \in Tasks : sw.rows[n] = {}
  BY <1>1, NoneIsSession DEF SwSet
<1>3. /\ ss \in SsSet /\ ss.ses = NoReplaySession /\ ss.pay = {} /\ ss.ret = 0 /\ ss.dsl = 0
      /\ \A n \in Tasks : ss.rows[n] = {} /\ ss.ctx[n] = NoContext
  BY <1>1, NoneIsSession, NoContextIs, ZeroIsNone DEF SsSet
<1>4. tab \in [Tasks -> TabSet] /\ \A n \in Tasks : tab[n] = NoTab
  <2>1. NoTab \in TabSet
    <3>1. 0 \in 0..LastStep /\ -1 \in -1..LastStep
      BY ReplayAssumption
    <3> QED BY <3>1 DEF NoTab, TabSet, ReplayPages
  <2> QED BY <1>1, <2>1
<1>5. wiz \in WizardSet /\ wiz.att = 0 /\ wiz.rows = {} /\ wiz.sent = Idle
  BY <1>1, NoWizardIs DEF WizardSet
<1>6. wiz.open
  BY <1>1, NoWizardIs DEF WizardSet
<1>7. srv \in [Tasks -> AttemptSet] /\ \A a \in Tasks : srv[a].status = "none"
  BY <1>1 DEF AttemptSet
<1>8. /\ owner \in [Tasks -> 0..MaxTasks] /\ \A n \in Tasks : owner[n] = 0
      /\ done \in [Tasks -> SUBSET Steps] /\ \A n \in Tasks : done[n] = {}
  BY <1>1, ZeroIsNone
<1>9. inbox \in Seq(ReplayMessages) /\ news \in Seq(ReplayNews) /\ Len(inbox) = 0 /\ Len(news) = 0 /\ 0 <= MaxWire + 1
  BY <1>1, ReplayAssumption
<1>10. Mail(inbox) = {} /\ Mail(news) = {}
  BY <1>1, MailOfNone
<1>11. ReplayTyped
  <2>1. SwTyped /\ SsTyped
    BY <1>2, <1>3, NoneIsSession DEF SwTyped, SsTyped
  <2>2. TabsTyped /\ WizardTyped
    BY <1>3, <1>4, <1>5, <1>6, <1>8 DEF TabsTyped, WizardTyped
  <2>3. ServerTyped /\ BoundsTyped
    BY <1>1, <1>7, <1>8, ZeroIsNone, ReplayAssumption DEF ServerTyped, BoundsTyped
  <2>4. WireTyped /\ JobsTyped
    BY <1>1, <1>9 DEF WireTyped, JobsTyped
  <2> QED BY <2>1, <2>2, <2>3, <2>4 DEF ReplayTyped
<1>12. ChainSound
  BY <1>1 DEF ChainSound, OnChain, Queued
<1>13. NothingAhead
  <2>1. sw.act.task <= tasks /\ ss.ses.task <= tasks /\ ss.ret <= tasks
    BY <1>1, <1>2, <1>3, NoneIsSession
  <2> QED BY <1>1, <1>3, <1>4, <1>8, <1>10, <2>1 DEF NothingAhead
<1>14. BootsFirst
  BY <1>1 DEF BootsFirst
<1>15. ProgressIsDone
  BY <1>1, <1>3, <1>4, <1>10, NoTabIs, NoContextIs DEF ProgressIsDone
<1>16. ValuesAreKept
  <2>1. ContextsKept
    BY <1>3, <1>4, <1>10, NoTabIs, NoContextIs DEF ContextsKept
  <2>2. RowsKept /\ RowsAccepted
    BY <1>2, <1>3, <1>5, <1>7, <1>10, IdleIs DEF RowsKept, RowsAccepted, Whole
  <2> QED BY <2>1, <2>2 DEF ValuesAreKept
<1>17. OneReplay
  BY <1>1, <1>2, <1>3, NoneIsSession DEF OneReplay, ReplayAsked, Queued
<1>18. EndIsOwn
  BY <1>1, <1>2, <1>3, <1>5, <1>7, <1>10, IdleIs DEF EndIsOwn
<1>19. OneRuns
  BY <1>1, <1>2, <1>4, NoTabIs DEF OneRuns
<1>20. RetainedIsLeft
  BY <1>3 DEF RetainedIsLeft
<1> QED BY <1>11, <1>12, <1>13, <1>14, <1>15, <1>16, <1>17, <1>18, <1>19, <1>20 DEF ReplayInv, WhenClean

\* Every step keeps the invariant.
LEMMA ReplayStep ==
  ASSUME ReplayInv, [ReplayNext]_replayVars
  PROVE  ReplayInv'
<1>1. CASE UNCHANGED replayVars
  <2>1. UNCHANGED <<sw, ss, alarms, replayJobs, tab, inbox, news, wiz, srv, tasks, owner, done, replayLeft, replayMishaps>>
    BY <1>1 DEF replayVars
  <2>2. inbox' \in Seq(ReplayMessages) /\ Len(inbox') <= MaxWire + 1 /\ Mail(inbox)' \subseteq Mail(inbox)
    BY <2>1 DEF ReplayInv, ReplayTyped, WireTyped, Mail
  <2> QED BY <2>1, <2>2, MailGoes
<1>2. CASE Deliver \/ Wake
  BY <1>2, DeliverKeeps, WakeKeeps
<1>3. ASSUME NEW j \in replayJobs, CleanupClear(j) \/ CleanupClose(j) \/ CleanupReport(j) \/ Retain(j) \/ LateComplete(j)
      PROVE  ReplayInv'
  BY <1>3, CleanupClearKeeps, CleanupCloseKeeps, CleanupReportKeeps, RetainKeeps, LateCompleteKeeps
<1>4. ASSUME NEW j \in replayJobs, Start(j) \/ Create(j) \/ Boot(j) \/ Update(j) \/ Inject(j)
      PROVE  ReplayInv'
  BY <1>4, StartKeeps, CreateKeeps, BootKeeps, UpdateKeeps, InjectKeeps
<1>5. ASSUME NEW j \in replayJobs, Abort(j) \/ Recover(j) \/ Restore(j) \/ ReleaseRetained(j)
      PROVE  ReplayInv'
  BY <1>5, AbortKeeps, RecoverKeeps, RestoreKeeps, ReleaseRetainedKeeps
<1>6. CASE Page
  BY <1>6, HearNewsKeeps, SendCompleteKeeps, SendFailsKeeps, ReconnectKeeps DEF Page
<1>7. CASE StartReplay \/ AbortReplay \/ WizardCloses \/ WizardOpens \/ ReplayCrash
  BY <1>7, StartReplayKeeps, AbortReplayKeeps, WizardClosesKeeps, WizardOpensKeeps, ReplayCrashKeeps
<1>8. ASSUME NEW n \in Tasks, RunnerStep(n) \/ RunnerEnd(n) \/ RunnerBeat(n) \/ UserCloses(n) \/ ReplayTabLoaded(n)
      PROVE  ReplayInv'
  BY <1>8, RunnerStepKeeps, RunnerEndKeeps, RunnerBeatKeeps, UserClosesKeeps, ReplayTabLoadedKeeps
<1>9. ASSUME NEW n \in Tasks, EarlyAlarm(n) \/ LateAlarm(n)
      PROVE  ReplayInv'
  <2>1. Alarm(n) /\ (SpendMishap("alarm") \/ replayLeft' = replayLeft)
    BY <1>9 DEF EarlyAlarm, LateAlarm
  <2>2. replayLeft' \in [ReplayPlanKeys -> Nat]
    BY <2>1, Spends DEF ReplayInv, ReplayTyped, BoundsTyped
  <2> QED BY <2>1, <2>2, AlarmKeeps
<1> QED BY <1>1, <1>2, <1>3, <1>4, <1>5, <1>6, <1>7, <1>8, <1>9 DEF ReplayNext, ReplayWorker, Outside, Runner

\* What the invariant promises.
LEMMA ReplayPromises ==
  ASSUME ReplayInv
  PROVE  ReplayIsTrue
<1>1. VerifiedRan
  BY DEF ReplayInv, WhenClean, Clean, EndIsOwn, Ran, ProgressIsDone, VerifiedRan
<1>2. VerifiedHasRows
  BY DEF ReplayInv, ValuesAreKept, Sighted, RowsAccepted, VerifiedHasRows
<1>3. OneRunner
  <2> DEFINE S == {n \in Tasks : tab[n].run /\ ~tab[n].abort}
  <2>1. CASE Clean
    <3>1. \A n \in S : n = ss.ses.task
      BY <2>1 DEF ReplayInv, WhenClean, OneRuns
    <3>2. S = {} \/ S = {ss.ses.task}
      BY <3>1
    <3>3. Cardinality(S) \in {0, 1}
      BY <3>2, FS_EmptySet, FS_Singleton
    <3> HIDE DEF S
    <3>4. ~(Cardinality(S) > 1)
      BY <3>3
    <3> QED BY <3>4 DEF OneRunner, S
  <2>2. CASE ~Clean
    BY <2>2 DEF Clean, OneRunner
  <2> QED BY <2>1, <2>2
<1>4. ReplayTypeOK
  <2>1. Values \subseteq Steps
    BY DEF Values
  <2>2. \A f \in [Tasks -> SUBSET Values] : f \in [Tasks -> SUBSET Steps]
    BY <2>1
  <2>3. sw \in [up : BOOLEAN, act : StoredSession, listens : SUBSET Tasks, rows : [Tasks -> SUBSET Steps], port : BOOLEAN]
    BY <2>2 DEF ReplayInv, ReplayTyped, SwTyped, SwSet
  <2>4. \A f \in [Tasks -> [pos : -1..LastStep, got : SUBSET Values]] : f \in [Tasks -> [pos : -1..LastStep, got : SUBSET Steps]]
    BY <2>1
  <2>5. ss \in [ses : StoredSession, pay : SUBSET Tasks, ctx : [Tasks -> [pos : -1..LastStep, got : SUBSET Steps]],
                rows : [Tasks -> SUBSET Steps], ret : 0..MaxTasks, dsl : 0..MaxTasks]
    BY <2>2, <2>4 DEF ReplayInv, ReplayTyped, SsTyped, SsSet
  <2>6. tab \in [Tasks -> [open : BOOLEAN, load : {"loading", "complete"}, at : ReplayPages,
                           run : BOOLEAN, abort : BOOLEAN, pos : 0..LastStep, got : SUBSET Steps, ctl : -1..LastStep]]
    BY <2>1 DEF ReplayInv, ReplayTyped, TabsTyped, TabSet
  <2>7. srv \in [Tasks -> [status : {"none", "running", "verified", "failed"}, rows : SUBSET Steps]]
    BY <2>1 DEF ReplayInv, ReplayTyped, ServerTyped, AttemptSet
  <2>8. wiz.status \in {"idle", "running", "success", "failure", "cancelled"} /\ wiz.att \in 0..MaxTasks
    BY DEF ReplayInv, ReplayTyped, WizardTyped, WizardSet
  <2> QED BY <2>3, <2>5, <2>6, <2>7, <2>8 DEF ReplayTypeOK, ReplayInv, ReplayTyped, TabsTyped, ServerTyped, BoundsTyped, WireTyped
<1> QED BY <1>1, <1>2, <1>3, <1>4 DEF ReplayIsTrue

\* What the server accepts of replays was executed to its end by a replay made for it, with every
\* value, in the only tab that executes, and a retained tab's replay was complete: cleanups,
\* resumes and restarts in any order (onTabUpdated, cleanupReplaySession, REPLAY_COMPLETE).
THEOREM ReplayAlwaysTrue == ReplaySpec => []ReplayIsTrue
<1>1. ReplayInit => ReplayInv
  BY ReplayStarts
<1>2. ReplayInv /\ [ReplayNext]_replayVars => ReplayInv'
  BY ReplayStep
<1>3. ReplayInv => ReplayIsTrue
  BY ReplayPromises
<1> QED BY <1>1, <1>2, <1>3, PTL DEF ReplaySpec

-----------------------------------------------------------------------------
(* The replay: the retained tab.                                            *)

\* An open tab stays open when its runner starts, resumes, goes on or ends, or its document loads.
LEMMA TabsStay ==
  ASSUME ReplayInv, NEW r \in Tasks, tab[r].open,
         \/ \E n \in Tasks : RunnerStep(n) \/ RunnerEnd(n) \/ ReplayTabLoaded(n)
         \/ \E j \in replayJobs : CleanupClear(j) \/ Create(j) \/ Boot(j) \/ Inject(j)
  PROVE  tab'[r].open
<1>1. tab \in [Tasks -> TabSet] /\ tab[r] \in TabSet
  BY DEF ReplayInv, ReplayTyped, TabsTyped
<1>2. ASSUME NEW n \in Tasks, NEW t, t.open, tab' = [tab EXCEPT ![n] = t] PROVE tab'[r].open
  BY <1>1, <1>2
<1>3. ASSUME NEW n \in Tasks, RunnerStep(n) PROVE tab'[r].open
  BY <1>3, StepIs DEF ReplayInv
<1>4. ASSUME NEW n \in Tasks, RunnerEnd(n) PROVE tab'[r].open
  BY <1>4, RunnerEndIs DEF ReplayInv
<1>5. ASSUME NEW n \in Tasks, ReplayTabLoaded(n) PROVE tab'[r].open
  <2>1. tab' = [tab EXCEPT ![n].load = "complete"]
    BY <1>5 DEF ReplayTabLoaded
  <2> QED BY <1>1, <2>1 DEF TabSet
<1>6. ASSUME NEW j \in replayJobs, CleanupClear(j) PROVE tab'[r].open
  <2>1. tab' = tab \/ tab' = [tab EXCEPT ![j.task].abort = TRUE]
    BY <1>6 DEF CleanupClear
  <2> QED BY <1>1, <2>1 DEF TabSet
<1>7. ASSUME NEW j \in replayJobs, Create(j) PROVE tab'[r].open
  <2> DEFINE t == [NoTab EXCEPT !.open = TRUE, !.load = "loading"]
  <2>1. tab' = [tab EXCEPT ![tasks + 1] = t]
    BY <1>7 DEF Create
  <2>2. t.open
    BY DEF NoTab
  <2> HIDE DEF t
  <2> QED BY <1>1, <2>1, <2>2
<1>8. ASSUME NEW j \in replayJobs, Boot(j) PROVE tab'[r].open
  <2>1. j.task \in Tasks
    BY <1>8, JobNamesTask DEF ReplayInv, ReplayTyped, Boot, ReplayRunning
  <2>2. tab[j.task] \in TabSet
    BY <1>1, <2>1
  <2> DEFINE t == RunnerBoot(tab[j.task], j.task).tab
  <2>3. t.open = tab[j.task].open
    BY <2>2 DEF RunnerBoot, TabSet
  <2>4. tab' = tab \/ (tab[j.task].open /\ tab' = [tab EXCEPT ![j.task] = t])
    BY <1>8 DEF Boot
  <2> HIDE DEF t
  <2> QED BY <1>1, <2>1, <2>3, <2>4
<1>9. ASSUME NEW j \in replayJobs, Inject(j) PROVE tab'[r].open
  <2>1. j.task \in Tasks
    BY <1>9, JobNamesTask DEF ReplayInv, ReplayTyped, Inject, ReplayRunning
  <2> DEFINE t == RunnerResume(tab[j.task], j.task, ss.ctx[j.task]).tab
  <2>2. tab[j.task].open => t.open
    BY <2>1, ResumeIs
  <2>3. tab' = tab \/ (tab[j.task].open /\ tab' = [tab EXCEPT ![j.task] = t])
    BY <1>9 DEF Inject
  <2> HIDE DEF t
  <2> QED BY <1>1, <2>1, <2>2, <2>3
<1> QED BY <1>3, <1>4, <1>5, <1>6, <1>7, <1>8, <1>9

\* The tab that is retained is not closed by a step that leaves it retained.
LEMMA RetainedStep ==
  ASSUME ReplayInv, [ReplayNext]_replayVars, ss.ret # 0, tab[ss.ret].open, ~tab'[ss.ret].open
  PROVE  ss'.ret # ss.ret \/ replayLeft'["close"] # replayLeft["close"] \/ replayMishaps \cap {"late", "overlap"} # {}
<1> DEFINE r == ss.ret
<1>1. r \in Tasks /\ r # 0 /\ tab[r].open /\ ~tab'[r].open /\ tab' # tab
  BY DEF ReplayInv, ReplayTyped, SsTyped, SsSet, Tasks
<1>2. Clean => sw.act = NoReplaySession /\ \A j \in replayJobs : j.kind \in Endings => ~j.close
  BY <1>1 DEF ReplayInv, WhenClean, RetainedIsLeft
<1>3. tab \in [Tasks -> TabSet]
  BY DEF ReplayInv, ReplayTyped, TabsTyped
<1>4. ss \in SsSet
  BY DEF ReplayInv, ReplayTyped, SsTyped
<1> HIDE DEF r
<1>5. ASSUME NEW j \in replayJobs, CleanupClose(j) PROVE ~Clean
  <2>1. j.close /\ j.kind \in Endings
    BY <1>1, <1>5 DEF CleanupClose, ReplayRunning, Endings
  <2> QED BY <1>2, <2>1
<1>6. ASSUME Deliver PROVE ~Clean
  <2>1. Head(inbox).kind = "complete" /\ TakeComplete(Head(inbox))
    BY <1>1, <1>6, DeliverIs
  <2>2. sw.act # NoReplaySession
    BY <1>1, <2>1 DEF TakeComplete
  <2> QED BY <1>2, <2>2
<1>7. ASSUME NEW j \in replayJobs, LateComplete(j) PROVE FALSE
  <2>1. j.task # r /\ CloseReplayTab(j.task)
    BY <1>1, <1>7 DEF LateComplete, IsRetained, r
  <2>2. tab'[r] = tab[r]
    BY <1>1, <1>3, <2>1 DEF CloseReplayTab
  <2> QED BY <1>1, <2>2
<1>8. ASSUME NEW j \in replayJobs, Start(j) \/ Abort(j) \/ ReleaseRetained(j) PROVE ss'.ret # r
  <2>1. ss' = [ss EXCEPT !.ret = 0]
    BY <1>1, <1>8 DEF Start, Abort, ReleaseRetained
  <2> QED BY <1>1, <1>4, <2>1 DEF SsSet
<1>9. ASSUME NEW n \in Tasks, UserCloses(n) PROVE replayLeft'["close"] # replayLeft["close"]
  <2>1. SpendMishap("close") /\ replayLeft \in [ReplayPlanKeys -> Nat] /\ "close" \in ReplayPlanKeys
    BY <1>9 DEF UserCloses, ReplayInv, ReplayTyped, BoundsTyped, ReplayPlanKeys
  <2> QED BY <2>1 DEF SpendMishap
<1>10. CASE UNCHANGED replayVars
  BY <1>1, <1>10, SMTT(60) DEF replayVars
<1>11. CASE Page \/ Wake
  BY <1>1, <1>11, Zenon DEF Page, HearNews, SendComplete, SendFails, Reconnect, Wake
<1>12. CASE StartReplay \/ AbortReplay \/ WizardCloses \/ WizardOpens \/ ReplayCrash
  BY <1>1, <1>12 DEF StartReplay, AbortReplay, WizardCloses, WizardOpens, ReplayCrash
<1>13. ASSUME NEW n \in Tasks, RunnerBeat(n) \/ EarlyAlarm(n) \/ LateAlarm(n) PROVE FALSE
  BY <1>1, <1>13 DEF RunnerBeat, EarlyAlarm, LateAlarm, Alarm
<1>14. ASSUME NEW j \in replayJobs, CleanupReport(j) \/ Retain(j) \/ Update(j) \/ Recover(j) \/ Restore(j) PROVE FALSE
  BY <1>1, <1>14 DEF CleanupReport, Retain, Update, Recover, Restore
<1>15. ASSUME NEW n \in Tasks, RunnerStep(n) \/ RunnerEnd(n) \/ ReplayTabLoaded(n) PROVE FALSE
  BY <1>1, <1>15, TabsStay
<1>16. ASSUME NEW j \in replayJobs, CleanupClear(j) \/ Create(j) \/ Boot(j) \/ Inject(j) PROVE FALSE
  BY <1>1, <1>16, TabsStay
<1> QED BY <1>5, <1>6, <1>7, <1>8, <1>9, <1>10, <1>11, <1>12, <1>13, <1>14, <1>15, <1>16
        DEF ReplayNext, ReplayWorker, Outside, Runner, Clean, r

\* A retained tab is closed only together with its retention or by the user: no second terminal
\* message and no cleanup closes it (REPLAY_COMPLETE, retainSuccessfulReplayTab).
THEOREM RetainedAlwaysStays == ReplaySpec => RetainedStays
<1>1. ReplayInit => ReplayInv
  BY ReplayStarts
<1>2. ReplayInv /\ [ReplayNext]_replayVars => ReplayInv'
  BY ReplayStep
<1>3. ReplayInv /\ [ReplayNext]_replayVars =>
        [ss.ret # 0 /\ tab[ss.ret].open /\ ~tab'[ss.ret].open
          => ss'.ret # ss.ret \/ replayLeft'["close"] # replayLeft["close"] \/ replayMishaps \cap {"late", "overlap"} # {}]_replayVars
  BY RetainedStep
<1> QED BY <1>1, <1>2, <1>3, PTL DEF ReplaySpec, RetainedStays

=============================================================================
