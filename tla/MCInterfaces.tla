---------------------------- MODULE MCInterfaces ----------------------------
(***************************************************************************)
(* Small instances of what a person works with: the capture of actions in a *)
(* page (Capture), the conversion of what was shown into a rule             *)
(* (RuleConversion), the wizard (Wizard), the rule editor (RuleEditor) and  *)
(* the console's other pages (Console).  A behaviour is a behaviour of one  *)
(* of the five; the others stay in an initial state.                        *)
(***************************************************************************)
EXTENDS Capture, RuleConversion, Wizard, RuleEditor, Console

VARIABLE screen    \* "page", "demo", "wizard", "editor" or "console": what is used

-----------------------------------------------------------------------------
(* What the users do.                                                       *)

TwoAlike == {{"p", "q"}}
SomeHabits ==
  {{"click", "link", "change"}, {"click", "type", "link", "change", "grow"},
   {"enter", "submit", "type"}, {"scroll", "navigate", "select"}, {"navigate", "change"},
   {"mark", "type", "grow"}, {"mark", "change"}}

WizardPlan(f) == [k \in WizardPlanKeys |-> IF k \in DOMAIN f THEN f[k] ELSE 0]
NoWizardPlan == [k \in WizardPlanKeys |-> 0]
SomeWizardPlans ==
  {NoWizardPlan,
   WizardPlan([open |-> 2, ask |-> 3, crash |-> 1]),
   WizardPlan([open |-> 2, ask |-> 2, edit |-> 1, crash |-> 1]),
   WizardPlan([open |-> 1, ask |-> 3, edit |-> 2, marks |-> 1]),
   WizardPlan([open |-> 2, ask |-> 4, record |-> 1]),
   WizardPlan([open |-> 1, ask |-> 5, edit |-> 1, feedback |-> 1]),
   WizardPlan([open |-> 2, ask |-> 4, edit |-> 1, feedback |-> 1]),
   WizardPlan([open |-> 1, ask |-> 5, edit |-> 1, fail |-> 1]),
   WizardPlan([open |-> 1, ask |-> 3, edit |-> 1, deadline |-> 1]),
   WizardPlan([open |-> 2, ask |-> 3, legacy |-> 1])}

L(i) == Leaf(i, "old")
C(i, kind, children) == [id |-> i, kind |-> kind, v |-> "old", kids |-> children]
SomeRules ==
  {<<C(1, "loop", <<L(2), L(3)>>), C(4, "if", <<L(0)>>)>>,
   <<C(1, "group", <<L(2)>>), C(3, "parallel", <<L(4)>>)>>}
SomeEditorHabits ==
  {{"select", "move", "save"}, {"add", "select", "panel", "save"},
   {"select", "clone", "delete", "undo"}, {"select", "delete", "save", "undo"},
   {"panel", "json", "select"}, {"add", "panel", "json"},
   {"enhance", "select", "panel"}, {"remove", "save", "delete"}, {"change", "save", "delete"}}

\* A search page with a link, what it finds, and a page no recorder runs in.
Element(tag, id, name, label, classes, role, text, pos) ==
  [tag |-> tag, id |-> id, testid |-> "", name |-> name, ariaLabel |-> label, classes |-> classes, placeholder |-> "",
   selector |-> tag, role |-> role, text |-> text, position |-> pos]
SomeDetails ==
  [box   |-> Element("input", "", "q", "", {"c"}, "searchbox", "", "1"),
   go    |-> Element("button", "", "", "", {"b"}, "button", "Go", "2"),
   more  |-> Element("a", "", "", "", {"b", "m"}, "link", "More", "3"),
   rowA  |-> Element("div", "", "", "", {"row"}, "", "A", "4"),
   rowB  |-> Element("div", "", "", "", {"row"}, "", "B", "5"),
   sort  |-> Element("select", "sort", "", "", {}, "combobox", "", "6"),
   next  |-> Element("div", "", "", "Next", {"row"}, "", "", "7")]
SomeLayouts ==
  [home |-> <<"box", "go", "more">>,    list |-> <<"rowA", "rowB", "box", "sort", "next">>, about |-> <<>>]
HomeAddress == [scheme |-> "https", host |-> "shop", query |-> <<[kind |-> "other", name |-> <<"ref">>, value |-> <<"ad">>]>>]
SomeAddress ==
  [home |-> HomeAddress,    list |-> [scheme |-> "https", host |-> "found", query |-> <<[kind |-> "search", name |-> <<"q">>, value |-> <<"new", " ", "york">>]>>],
   about |-> [scheme |-> "about", host |-> "", query |-> <<>>]]
SomeLeads == [click |-> [go |-> "list", more |-> "list"], enter |-> [box |-> "list"]]
Demo(does, words, from, events) == [does |-> does, words |-> words, from |-> from, events |-> events]
NewYork == <<"new", " ", "york">>
IdleDemo == Demo({}, {}, "home", 0)
SomeDemos ==
  {IdleDemo} \cup
  {Demo({"click", "type", "enter"}, {<<"new">>, NewYork}, "home", 4),
   Demo({"click", "type", "tab"}, {<<"red">>}, "home", 4),
   Demo({"quick", "type", "scroll"}, {<<"new">>}, "home", 4),
   Demo({"navigate", "select", "type"}, {NewYork, <<"word">>}, "about", 3),
   Demo({"navigate", "type"}, {NewYork, <<"york">>}, "list", 3),
   Demo({"click", "notes"}, {}, "list", 3),
   Demo({"scroll", "click"}, {}, "list", 3),
   Demo({"calls"}, {<<"new">>}, "home", 2)}

StepsPerPage == [p \in ConsolePages |-> IF p \in {"tasks", "rules", "results"} THEN 2 ELSE 3]
SomeApproved == [r1 |-> {11}, r2 |-> {21, 22}, r3 |-> {}, r4 |-> {}]

-----------------------------------------------------------------------------
InterfacesInit ==
  /\ screen \in {"page", "demo", "wizard", "editor", "console"}
  /\ CaptureInit /\ ConversionInit /\ WizardInit /\ EditorInit /\ ConsoleInit
  /\ screen # "page" => habit = {"enter", "submit", "type"} /\ form = "typed" /\ delay = "quick"
  /\ screen = "demo" <=> demo # IdleDemo
  /\ screen = "wizard" <=> spare # NoWizardPlan
  /\ screen # "editor" => Len(srv.rule.steps[1].kids) = 1 /\ srv.rule.approval = "pending"
                          /\ bent = {"add", "panel", "json"}
  /\ screen # "console" => goal = "create"

OfPage    == screen = "page"    /\ UNCHANGED <<screen, conversionVars, wizardVars, editorVars, consoleVars>>
OfDemo    == screen = "demo"    /\ UNCHANGED <<screen, captureVars, wizardVars, editorVars, consoleVars>>
OfWizard  == screen = "wizard"  /\ UNCHANGED <<screen, captureVars, conversionVars, editorVars, consoleVars>>
OfEditor  == screen = "editor"  /\ UNCHANGED <<screen, captureVars, conversionVars, wizardVars, consoleVars>>
OfConsole == screen = "console" /\ UNCHANGED <<screen, captureVars, conversionVars, wizardVars, editorVars>>

InterfacesNext ==
  \/ OfPage    /\ CaptureNext
  \/ OfDemo    /\ ConversionNext
  \/ OfWizard  /\ WizardNext
  \/ OfEditor  /\ EditorNext
  \/ OfConsole /\ ConsoleNext

interfacesVars == <<screen, captureVars, conversionVars, wizardVars, editorVars, consoleVars>>

\* Queued events are taken and frames given up, calls are answered or fail, jobs end and
\* the timers of the pages fire.  screen never changes, so fairness of a disjunction of
\* which each part has one disjunct is fairness of that disjunct.
InterfacesSpec ==
  /\ InterfacesInit /\ [][InterfacesNext]_interfacesVars
  /\ WF_interfacesVars((OfPage /\ CaptureProgress)
                       \/ (OfEditor /\ \E c \in calls : EditorServe(c) \/ EditorAnswer(c))
                       \/ (OfConsole /\ \E r \in reqs : Landing(r)))
  /\ WF_interfacesVars((OfEditor /\ Poll) \/ (OfConsole /\ Debounce))
  /\ WF_interfacesVars(OfEditor /\ JobEnds)

-----------------------------------------------------------------------------
\* A person is never left waiting: a stop of the recording that has begun ends, whatever
\* frame or queued event holds it (the 3 s of the aggregation); the editor's loading, saving and polling and the console's checking, loading, exporting and submitting come to an end,
\* whatever fails.
NobodyWaits ==
  (\/ screen = "page"    /\ stage \in {"draining", "final"}
   \/ screen = "editor"  /\ ~EditorAtRest
   \/ screen = "console" /\ ~ConsoleAtRest)
  ~>
  (\/ screen = "page"    /\ stage = "done"
   \/ screen = "editor"  /\ EditorAtRest
   \/ screen = "console" /\ ConsoleAtRest)
=============================================================================
