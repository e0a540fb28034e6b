----------------------------- MODULE RuleEditor -----------------------------
(***************************************************************************)
(* The rule page of the admin UI (pages/RuleDetail.tsx) with its toolbar,  *)
(* action panel, flow graph and list: a draft of the rule is edited by     *)
(* path, saved, and replaced by whatever the server answers, while the     *)
(* page's other buttons, a colleague and the enhancement job change the    *)
(* same rule at the server.                                                *)
(*                                                                         *)
(* An action has an identity of its own, which the page does not see; its  *)
(* parameters are one value, blank in a new action.  Containers hold       *)
(* leaves only: two levels show what deeper ones repeat.                   *)
(***************************************************************************)
EXTENDS Naturals, Sequences, FiniteSets
LOCAL INSTANCE SequencesExt

CONSTANTS StoredRules,   \* the rules to start from: sequences of actions
          NewKinds,      \* kinds of action the picker offers
          EditorHabits,  \* what a user at the page does: sets of kinds of acts
          MaxIds,        \* bound: identities
          MaxActs,       \* bound: what the user does
          MaxMishaps     \* bound: calls that fail, colleagues' changes

VARIABLES srv,       \* the server: the rule, its enhancement, its job
          editorPage,      \* loading, ready, error, or left
          rule,      \* the copy the page compares with
          draft,     \* what the page edits
          sel,       \* selectedPath, <<>> without
          panel,     \* the drawer: form and JSON of the selected action
          picker,    \* where a new action is to go, "none" when closed
          saving,
          polling, job, suggested,    \* the enhancement as the page knows it
          calls,     \* requests under way
          bent,      \* the user's habit
          ids, editorActs, mishaps,
          meant,     \* ghost: the identity the user selected, 0 without
          foreign    \* ghost: a colleague or the job changed the rule, an
                     \* answer was lost, or two requests of the page crossed

editorVars == <<srv, editorPage, rule, draft, sel, panel, picker, saving, polling, job, suggested,
                calls, bent, ids, editorActs, mishaps, meant, foreign>>

Leaf(id, v) == [id |-> id, kind |-> "leaf", v |-> v, kids |-> <<>>]
NoPanel == [open |-> FALSE, form |-> Leaf(0, "blank"), json |-> Leaf(0, "blank"), isJson |-> FALSE]

---------------------------------------------------------------------------
(* utils/ruleEdit.ts: lists of actions by path.                              *)

IndexOf(p) == p[Len(p)]
ListAt(steps, p) == IF Len(p) = 1 THEN steps ELSE steps[p[1]].kids
WithList(steps, p, list) == IF Len(p) = 1 THEN list ELSE [steps EXCEPT ![p[1]].kids = list]

Paths(steps) == {<<i>> : i \in DOMAIN steps}
                \cup UNION {{<<i, j>> : j \in DOMAIN steps[i].kids} : i \in DOMAIN steps}
GetActionByPath(steps, p) == ListAt(steps, p)[IndexOf(p)]
UpdateActionByPath(steps, p, a) == WithList(steps, p, [ListAt(steps, p) EXCEPT ![IndexOf(p)] = a])
RemoveActionByPath(steps, p) == WithList(steps, p, RemoveAt(ListAt(steps, p), IndexOf(p)))

\* computeNewPath.
ComputeNewPath(p, position) ==
    [p EXCEPT ![Len(p)] = IF position = "before" THEN @ ELSE @ + 1]
InsertActionByPath(steps, p, position, a) ==
    WithList(steps, p, InsertAt(ListAt(steps, p), IndexOf(ComputeNewPath(p, position)), a))

Other(p, direction) == [p EXCEPT ![Len(p)] = IF direction = "up" THEN @ - 1 ELSE @ + 1]
MoveActionByPath(steps, p, direction) ==
    LET list == ListAt(steps, p)
        i == IndexOf(p)
        k == IndexOf(Other(p, direction))
    IN  WithList(steps, p, [list EXCEPT ![i] = list[k], ![k] = list[i]])

\* validateRule: parameters are set, containers and the rule are not empty.
ValidateAction(a) == a.v # "blank" /\ (a.kind # "leaf" => a.kids # <<>>)
ValidateRule(steps) ==
    /\ steps # <<>>
    /\ \A p \in Paths(steps) : ValidateAction(GetActionByPath(steps, p))

---------------------------------------------------------------------------
(* utils/ruleToGraph.ts: the nodes and edges of the flow.                    *)

Node(p) == <<p, "own">>
JoinNode(p) == <<p, "join">>
Begin == <<<<>>, "start">>
Finis == <<<<>>, "end">>
Walk(nodes, edges, in, out) == [nodes |-> nodes, edges |-> edges, in |-> in, out |-> out]
EmptyWalk == Walk({}, {}, {}, {})

Children(a, p) ==
    LET n == Len(a.kids)
        Kid(j) == Node(Append(p, j))
    IN  IF n = 0 THEN EmptyWalk
        ELSE Walk({Kid(j) : j \in 1 .. n}, {<<Kid(j), Kid(j + 1)>> : j \in 1 .. n - 1},
                  {Kid(1)}, {Kid(n)})

WalkAction(a, p) ==
    LET own == Node(p)
        kids == Children(a, p)
        entering == {<<own, k>> : k \in kids.in}
    IN  CASE a.kind = "leaf" -> Walk({own}, {}, {own}, {own})
          [] a.kind \in {"if", "requestHuman"} ->
               Walk({own} \cup kids.nodes, kids.edges \cup entering, {own},
                    IF kids.out = {} THEN {own} ELSE kids.out)
          [] a.kind = "loop" ->
               Walk({own} \cup kids.nodes,
                    kids.edges \cup entering \cup {<<k, own>> : k \in kids.out}, {own}, {own})
          [] a.kind = "group" -> kids
          [] a.kind = "parallel" ->
               Walk({own, JoinNode(p)} \cup kids.nodes,
                    {<<own, k>> : k \in kids.nodes} \cup {<<k, JoinNode(p)>> : k \in kids.nodes},
                    {own}, {JoinNode(p)})

WalkActionList(steps) ==
    FoldLeft(LAMBDA r, s : [r EXCEPT !.nodes = @ \cup s.nodes,
                                     !.edges = @ \cup s.edges \cup (r.out \X s.in),
                                     !.out = s.out],
             IF steps = <<>> THEN EmptyWalk
             ELSE [WalkAction(steps[1], <<1>>) EXCEPT !.out = {}, !.nodes = {}, !.edges = {}],
             [i \in DOMAIN steps |-> WalkAction(steps[i], <<i>>)])

BuildFlowData(steps) ==
    LET main == WalkActionList(steps)
    IN  [nodes |-> main.nodes \cup {Begin, Finis},
         edges |-> main.edges \cup
                   IF main.in = {} THEN {<<Begin, Finis>>}
                   ELSE {<<Begin, n>> : n \in main.in} \cup {<<n, Finis>> : n \in main.out}]

\* RuleFlowGraph: a node with a path can be clicked.
Clickable(steps) == {n[1] : n \in BuildFlowData(steps).nodes} \ {<<>>}
\* RuleFlowList: every action has its card, a group too.
Cards(steps) == Paths(steps)
Selectable(steps) == Clickable(steps) \cup Cards(steps)

---------------------------------------------------------------------------
Rule(steps, enabled, approval) == [steps |-> steps, enabled |-> enabled, approval |-> approval]
NoRule == Rule(<<>>, FALSE, "none")
Call(kind, body) == [kind |-> kind, body |-> body, stage |-> "sent", load |-> FALSE]
Calling(kind) == \E c \in calls : c.kind = kind

EditorInit ==
    /\ \E steps \in StoredRules, approval \in {"pending", "approved"} :
          srv = [rule |-> Rule(steps, TRUE, approval), exists |-> TRUE, enh |-> FALSE, job |-> "none"]
    /\ editorPage = "loading" /\ rule = srv.rule /\ draft = srv.rule
    /\ sel = <<>> /\ panel = NoPanel /\ picker = "none" /\ saving = FALSE
    /\ polling = FALSE /\ job = "none" /\ suggested = FALSE
    /\ calls = {[Call("get", NoRule) EXCEPT !.load = TRUE]}
    /\ bent \in EditorHabits
    /\ ids = 4 /\ editorActs = 0 /\ mishaps = 0 /\ meant = 0 /\ foreign = FALSE

IsDirty == draft # rule
EditorActs(kind) == editorPage = "ready" /\ kind \in bent /\ editorActs < MaxActs /\ editorActs' = editorActs + 1
AtPage == ~panel.open /\ picker = "none"

clientRest == <<bent, srv, editorPage, rule, saving, polling, job, suggested, calls, mishaps, foreign>>

Select(p, id) == sel' = p /\ meant' = id
Deselect == Select(<<>>, 0)
\* ActionEditorPanel starts over from the action it is given.
OpenEditor(a) == panel' = [open |-> TRUE, form |-> a, json |-> a, isJson |-> FALSE]
CloseEditor == panel' = NoPanel

---------------------------------------------------------------------------
(* Editing.  The keys of the toolbar work behind the drawer too.             *)

HandleSelectNode ==
    /\ EditorActs("select") /\ AtPage
    /\ \E p \in Selectable(draft.steps) :
          /\ Select(p, GetActionByPath(draft.steps, p).id)
          /\ \/ UNCHANGED panel
             \/ OpenEditor(GetActionByPath(draft.steps, p))
    /\ UNCHANGED <<draft, picker, ids>> /\ UNCHANGED clientRest

HandleAddAction ==
    /\ EditorActs("add") /\ AtPage
    /\ \E position \in {"before", "after", "append"} :
          (position # "append" => sel # <<>>) /\ picker' = position
    /\ UNCHANGED <<draft, sel, meant, panel, ids>> /\ UNCHANGED clientRest

HandleSelectActionType ==
    /\ editorPage = "ready" /\ picker # "none" /\ ids < MaxIds /\ ids' = ids + 1
    /\ \E kind \in NewKinds :
         LET new == [Leaf(ids + 1, "blank") EXCEPT !.kind = kind]
             atEnd == picker = "append" \/ sel = <<>>
             path == IF atEnd THEN <<Len(draft.steps) + 1>> ELSE ComputeNewPath(sel, picker)
         IN  /\ draft' = [draft EXCEPT !.steps =
                            IF atEnd THEN Append(@, new) ELSE InsertActionByPath(@, sel, picker, new)]
             /\ Select(path, new.id)
             /\ OpenEditor(new)
    /\ picker' = "none"
    /\ UNCHANGED editorActs /\ UNCHANGED clientRest

HandleDeleteAction ==
    /\ EditorActs("delete") /\ sel # <<>>
    /\ draft' = [draft EXCEPT !.steps = RemoveActionByPath(@, sel)]
    /\ Deselect /\ CloseEditor
    /\ UNCHANGED <<picker, ids>> /\ UNCHANGED clientRest

HandleMoveAction ==
    /\ EditorActs("move") /\ AtPage /\ sel # <<>>
    /\ \E direction \in {"up", "down"} :
          /\ Other(sel, direction) \in Paths(draft.steps)
          /\ draft' = [draft EXCEPT !.steps = MoveActionByPath(@, sel, direction)]
          /\ Select(Other(sel, direction), meant)
    /\ UNCHANGED <<panel, picker, ids>> /\ UNCHANGED clientRest

HandleCloneAction ==
    /\ EditorActs("clone") /\ AtPage /\ sel # <<>> /\ ids < MaxIds /\ ids' = ids + 1
    /\ LET old == GetActionByPath(draft.steps, sel)
           \* The children are cloned too; their identity is not looked at.
           new == [old EXCEPT !.id = ids + 1]
       IN  /\ draft' = [draft EXCEPT !.steps = InsertActionByPath(@, sel, "after", new)]
           /\ Select(ComputeNewPath(sel, "after"), new.id)
           /\ OpenEditor(new)
    /\ UNCHANGED picker /\ UNCHANGED clientRest

HandleUndo ==
    /\ EditorActs("undo") /\ IsDirty
    /\ draft' = rule
    /\ Deselect /\ CloseEditor
    /\ UNCHANGED <<picker, ids>> /\ UNCHANGED clientRest

(* ActionEditorPanel: the fields above the editor write to the form in JSON  *)
(* mode too, where it is the text that is applied.                           *)
PanelEdit ==
    /\ EditorActs("panel") /\ panel.open /\ ~saving
    /\ \/ panel' = [panel EXCEPT !.form.v = "set"]
       \/ panel.isJson /\ panel' = [panel EXCEPT !.json.v = "set"]
       \/ /\ panel.isJson /\ panel.json.kind # "leaf" /\ panel.json.kids = <<>>
          /\ panel' = [panel EXCEPT !.json.kids = <<Leaf(0, "set")>>]
    /\ UNCHANGED <<draft, sel, meant, picker, ids>> /\ UNCHANGED clientRest

HandleToggleJson ==
    /\ EditorActs("json") /\ panel.open /\ ~saving
    /\ panel' = IF panel.isJson THEN [panel EXCEPT !.isJson = FALSE, !.form = panel.json]
                                ELSE [panel EXCEPT !.isJson = TRUE, !.json = panel.form]
    /\ UNCHANGED <<draft, sel, meant, picker, ids>> /\ UNCHANGED clientRest

HandleActionChange ==
    /\ editorPage = "ready" /\ panel.open /\ ~saving
    /\ draft' = [draft EXCEPT !.steps =
                   UpdateActionByPath(@, sel, IF panel.isJson THEN panel.json ELSE panel.form)]
    /\ CloseEditor
    /\ UNCHANGED <<sel, meant, picker, ids, editorActs>> /\ UNCHANGED clientRest

ClosePanel ==
    /\ editorPage = "ready" /\ panel.open
    /\ CloseEditor
    /\ UNCHANGED <<draft, sel, meant, picker, ids, editorActs>> /\ UNCHANGED clientRest

ClosePicker ==
    /\ editorPage = "ready" /\ picker # "none"
    /\ picker' = "none"
    /\ UNCHANGED <<draft, sel, meant, panel, ids, editorActs>> /\ UNCHANGED clientRest

---------------------------------------------------------------------------
(* What the page asks of the server.                                         *)

Send(c) == calls' = calls \cup {c} /\ foreign' = (foreign \/ calls # {})
editRest == <<bent, draft, sel, meant, panel, picker, ids>>

HandleSave ==
    /\ EditorActs("save") /\ IsDirty /\ ~saving
    /\ ValidateRule(draft.steps)
    /\ saving' = TRUE /\ Send(Call("save", draft))
    /\ UNCHANGED <<srv, editorPage, rule, polling, job, suggested, mishaps>> /\ UNCHANGED editRest

\* toggleEnabled, handleApprove, handleReject.
RequestChange ==
    /\ EditorActs("change") /\ AtPage /\ ~IsDirty
    /\ \E c \in {Call("toggle", [NoRule EXCEPT !.enabled = ~rule.enabled])}
               \cup (IF rule.approval = "pending" /\ ~suggested /\ job = "none"
                     THEN {Call("approve", NoRule), Call("reject", NoRule)} ELSE {}) :
          c \notin calls /\ Send(c)
    /\ UNCHANGED <<srv, editorPage, rule, saving, polling, job, suggested, mishaps>>
    /\ UNCHANGED editRest

HandleEnhance ==
    /\ EditorActs("enhance") /\ AtPage /\ rule.approval = "approved" /\ ~suggested /\ job = "none"
    /\ ~Calling("enhance") /\ ~polling
    /\ Send(Call("enhance", NoRule))
    /\ UNCHANGED <<srv, editorPage, rule, saving, polling, job, suggested, mishaps>>
    /\ UNCHANGED editRest

\* handleAcceptEnhancement, handleRejectEnhancement: no look at the draft.
DecideEnhancement ==
    /\ EditorActs("enhance") /\ AtPage /\ (suggested \/ job # "none") /\ job # "running"
    /\ ~Calling("accept") /\ ~Calling("discard")
    /\ \E kind \in {"accept", "discard"} : Send(Call(kind, NoRule))
    /\ UNCHANGED <<srv, editorPage, rule, saving, polling, job, suggested, mishaps>>
    /\ UNCHANGED editRest

\* The interval does not wait for the poll before.
Poll ==
    /\ editorPage # "left" /\ polling /\ ~Calling("poll")
    /\ calls' = calls \cup {Call("poll", NoRule)}
    /\ UNCHANGED <<srv, editorPage, rule, saving, polling, job, suggested, editorActs, mishaps, foreign>>
    /\ UNCHANGED editRest

HandleDelete ==
    /\ EditorActs("remove") /\ AtPage
    /\ Send(Call("delete", NoRule))
    /\ UNCHANGED <<srv, editorPage, rule, saving, polling, job, suggested, mishaps>>
    /\ UNCHANGED editRest

---------------------------------------------------------------------------
(* The server (handlers.go, enhance.go, llm/job.go) and its answers.         *)

Answered(c, body) == calls' = (calls \ {c}) \cup {[c EXCEPT !.stage = "ok", !.body = body]}
Refused(c) == calls' = (calls \ {c}) \cup {[c EXCEPT !.stage = "failed"]}
SetSrv(r, enh) == srv' = [srv EXCEPT !.rule = r, !.enh = enh]

EditorServe(c) ==
    /\ c \in calls /\ c.stage = "sent"
    /\ IF ~srv.exists THEN Refused(c) /\ UNCHANGED srv ELSE
       CASE c.kind = "get" -> Answered(c, srv.rule) /\ UNCHANGED srv
         [] c.kind \in {"suggestion", "poll"} -> Answered(c, NoRule) /\ UNCHANGED srv
         [] c.kind = "save" -> SetSrv(c.body, srv.enh) /\ Answered(c, c.body)
         [] c.kind = "toggle" ->
              SetSrv([srv.rule EXCEPT !.enabled = c.body.enabled], srv.enh) /\ Answered(c, NoRule)
         [] c.kind \in {"approve", "reject"} ->
              /\ SetSrv([srv.rule EXCEPT !.approval = IF c.kind = "approve" THEN "approved"
                                                                              ELSE "rejected"], srv.enh)
              /\ Answered(c, NoRule)
         [] c.kind = "enhance" ->
              srv' = [srv EXCEPT !.job = "running"] /\ Answered(c, NoRule)
         [] c.kind = "accept" ->
              IF srv.enh
              THEN /\ SetSrv([srv.rule EXCEPT !.approval = "approved", !.enabled = TRUE], FALSE)
                   /\ Answered(c, NoRule)
              ELSE Refused(c) /\ UNCHANGED srv
         [] c.kind = "delete" -> srv' = [srv EXCEPT !.exists = FALSE] /\ Answered(c, NoRule)
         [] c.kind = "discard" ->
              IF srv.enh
              THEN srv' = [srv EXCEPT !.exists = FALSE, !.enh = FALSE] /\ Answered(c, NoRule)
              ELSE Refused(c) /\ UNCHANGED srv
    /\ UNCHANGED <<editorPage, rule, saving, polling, job, suggested, editorActs, mishaps, foreign>>
    /\ UNCHANGED editRest

\* The request or its answer is lost.
Lose(c) ==
    /\ c \in calls /\ mishaps < MaxMishaps /\ mishaps' = mishaps + 1
    /\ c.stage \in {"sent", "ok"}
    /\ Refused(c)
    /\ foreign' = (foreign \/ (c.stage = "ok" /\ c.kind \notin {"get", "suggestion", "poll"}))
    /\ UNCHANGED <<srv, editorPage, rule, saving, polling, job, suggested, editorActs>> /\ UNCHANGED editRest

\* processJob: persistEnhancement puts the enhanced rule in the place of the old.
JobEnds ==
    /\ srv.job = "running"
    /\ \/ /\ srv' = [srv EXCEPT !.job = "completed", !.enh = srv.exists,
                                !.rule = Rule([@.steps EXCEPT ![1].v = "enhanced"], FALSE, "pending")]
          /\ foreign' = TRUE
       \/ srv' = [srv EXCEPT !.job = "failed"] /\ UNCHANGED foreign
    /\ UNCHANGED <<editorPage, rule, saving, polling, job, suggested, calls, editorActs, mishaps>>
    /\ UNCHANGED editRest

Colleague ==
    /\ srv.exists /\ mishaps < MaxMishaps /\ mishaps' = mishaps + 1
    /\ srv' \in {[srv EXCEPT !.rule.approval = "rejected"],
                 [srv EXCEPT !.rule.steps[1].v = "theirs"]}
    /\ foreign' = TRUE
    /\ UNCHANGED <<editorPage, rule, saving, polling, job, suggested, calls, editorActs>> /\ UNCHANGED editRest

\* What an answer that carries the whole rule replaces.
TakeRule(r) == rule' = r /\ draft' = r /\ Deselect /\ CloseEditor
KeepRule == UNCHANGED <<rule, draft, sel, meant, panel>>
\* fetchRule.
EditorFetch(c) == editorPage' = "loading" /\ calls' = (calls \ {c}) \cup {[Call("get", NoRule) EXCEPT !.load = TRUE]}

\* An error stays until the next fetch begins.
Loaded == editorPage' = IF editorPage = "error" THEN "error" ELSE "ready"

AnswerGet(c) ==
    /\ IF c.stage = "failed"
       THEN editorPage' = "error" /\ calls' = calls \ {c} /\ KeepRule /\ UNCHANGED suggested
       ELSE /\ TakeRule(c.body)
            /\ IF c.body.approval = "pending"
               THEN /\ calls' = (calls \ {c}) \cup {[Call("suggestion", NoRule) EXCEPT !.load = TRUE]}
                    /\ UNCHANGED <<editorPage, suggested>>
               ELSE Loaded /\ suggested' = FALSE /\ calls' = calls \ {c}
    /\ UNCHANGED <<saving, polling, job, foreign>>

\* loadEnhancement.
AnswerSuggestion(c) ==
    /\ suggested' = (c.stage = "ok" /\ srv.enh)
    /\ IF c.load THEN Loaded ELSE UNCHANGED editorPage
    /\ calls' = calls \ {c} /\ KeepRule
    /\ UNCHANGED <<saving, polling, job, foreign>>

\* A slip: the page takes the draft for saved whatever the answer.
AnswerSaveAnyway(c) ==
    /\ TakeRule(c.body)
    /\ saving' = FALSE /\ calls' = calls \ {c}
    /\ UNCHANGED <<editorPage, polling, job, suggested, foreign>>

AnswerSave(c) ==
    /\ IF c.stage = "ok" THEN TakeRule(c.body) ELSE KeepRule
    /\ saving' = FALSE /\ calls' = calls \ {c}
    /\ UNCHANGED <<editorPage, polling, job, suggested, foreign>>

AnswerChange(c) ==
    /\ IF c.stage = "ok" THEN EditorFetch(c) ELSE calls' = calls \ {c} /\ UNCHANGED editorPage
    /\ job' = IF c.kind = "accept" /\ c.stage = "ok" THEN "none" ELSE job
    /\ KeepRule /\ UNCHANGED <<saving, polling, suggested, foreign>>

AnswerEnhance(c) ==
    /\ polling' = (c.stage = "ok")
    /\ calls' = calls \ {c} /\ KeepRule
    /\ UNCHANGED <<editorPage, saving, job, suggested, foreign>>

\* An answer after the effect was cleaned up is dropped; a failed one ends it.
AnswerPoll(c) ==
    /\ job' = IF polling /\ c.stage = "ok" THEN srv.job ELSE job
    /\ polling' = (polling /\ c.stage = "ok" /\ srv.job = "running")
    /\ calls' = (calls \ {c}) \cup
                (IF polling /\ c.stage = "ok" /\ srv.job = "completed"
                 THEN {Call("suggestion", NoRule)} ELSE {})
    /\ KeepRule /\ UNCHANGED <<editorPage, saving, suggested, foreign>>

\* The rule is gone: the page goes back to the list.
AnswerGone(c) ==
    /\ IF c.stage = "ok" THEN editorPage' = "left" /\ job' = "none" ELSE UNCHANGED <<editorPage, job>>
    /\ calls' = calls \ {c}
    /\ KeepRule /\ UNCHANGED <<saving, polling, suggested, foreign>>

EditorAnswer(c) ==
    /\ c \in calls /\ c.stage # "sent" /\ editorPage # "left"
    /\ CASE c.kind = "get" -> AnswerGet(c)
         [] c.kind = "suggestion" -> AnswerSuggestion(c)
         [] c.kind = "save" -> AnswerSave(c)
         [] c.kind \in {"toggle", "approve", "reject", "accept"} -> AnswerChange(c)
         [] c.kind = "enhance" -> AnswerEnhance(c)
         [] c.kind = "poll" -> AnswerPoll(c)
         [] c.kind \in {"discard", "delete"} -> AnswerGone(c)
    /\ UNCHANGED <<srv, picker, bent, ids, editorActs, mishaps>>

---------------------------------------------------------------------------
Editing ==
    \/ HandleSelectNode \/ HandleAddAction \/ HandleSelectActionType \/ HandleDeleteAction
    \/ HandleMoveAction \/ HandleCloneAction \/ HandleUndo \/ PanelEdit \/ HandleToggleJson
    \/ HandleActionChange \/ ClosePanel \/ ClosePicker
EditorAsking == HandleSave \/ RequestChange \/ HandleEnhance \/ DecideEnhancement \/ HandleDelete

EditorNext ==
    \/ Editing \/ EditorAsking \/ Poll \/ JobEnds \/ Colleague
    \/ \E c \in calls : EditorServe(c) \/ Lose(c) \/ EditorAnswer(c)

\* The server and the network answer or fail, the interval comes round and a
\* job of the server ends.
EditorSpec ==
    /\ EditorInit /\ [][EditorNext]_editorVars
    /\ WF_editorVars(\E c \in calls : EditorServe(c) \/ EditorAnswer(c))
    /\ WF_editorVars(Poll) /\ WF_editorVars(JobEnds)

---------------------------------------------------------------------------
EditorTypeOK ==
    /\ editorPage \in {"loading", "ready", "error", "left"}
    /\ sel = <<>> \/ sel \in Paths(draft.steps)
    /\ panel.open /\ editorPage = "ready" => sel # <<>>
    /\ \A p \in Paths(draft.steps) : GetActionByPath(draft.steps, p).id \in 0 .. MaxIds
    /\ saving <=> Calling("save")

\* The path that the toolbar and the panel work on leads to the action the user
\* selected, through inserts before it, moves, deletes, applied changes and
\* every answer that replaces the draft.
SelectionIsMeant == editorPage = "ready" /\ sel # <<>> => GetActionByPath(draft.steps, sel).id = meant

\* Whatever this page stores, and whoever else stores something, the rule at the
\* server can be run: no container without children, no blank parameter.
StoredIsValid == ValidateRule(srv.rule.steps)

\* A page that shows no unsaved change and waits for nothing shows the rule the
\* server has, unless somebody else changed it, an answer was lost, or two
\* requests of the page were under way together.
CleanIsStored ==
    editorPage = "ready" /\ ~IsDirty /\ calls = {} /\ ~foreign /\ srv.exists => rule = srv.rule

\* The flow of a valid rule is one piece: every action but a group has its node,
\* and control gets from the start to every node.
FlowIsConnected ==
    ValidateRule(draft.steps) =>
        LET flow == BuildFlowData(draft.steps)
            reach[n \in 0 .. Cardinality(flow.nodes)] ==
                IF n = 0 THEN {Begin}
                ELSE LET near == reach[n - 1]
                     IN  near \cup {e[2] : e \in {x \in flow.edges : x[1] \in near}}
        IN  /\ reach[Cardinality(flow.nodes)] = flow.nodes
            /\ \A p \in Paths(draft.steps) :
                  GetActionByPath(draft.steps, p).kind # "group" => Node(p) \in flow.nodes

\* Nothing of the page spins: loading, saving, polling.
EditorAtRest == editorPage # "left" => editorPage # "loading" /\ ~saving /\ ~polling

\* The editor and the stored rule: types hold, the selection leads to the action
\* meant, what is stored can be run, a clean page shows it, and its flow is whole.
EditorIsTrue ==
  /\ EditorTypeOK
  /\ SelectionIsMeant
  /\ StoredIsValid
  /\ CleanIsStored
  /\ FlowIsConnected

=============================================================================
