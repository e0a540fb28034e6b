--------------------------- MODULE RuleConversion ---------------------------
(***************************************************************************)
(* A demonstration becomes a rule: src/rule-generator, with the            *)
(* deduplication of extension/src/recording/preprocessor.ts.               *)
(*                                                                         *)
(* A recording has two sources.  A page recorder (content.ts, in Capture)  *)
(* writes an event with a snapshot of its own moment; here that is one     *)
(* step.  PageAgentRecorder hooks the methods of a page controller: a call *)
(* awaits a snapshot, then the method, and only then writes its event.     *)
(* convert() merges events, resolves every index in a snapshot of the      *)
(* recording and writes one step per event, with the texts it takes for    *)
(* inputs replaced by variables.                                           *)
(*                                                                         *)
(* An element is what a snapshot says of it (Details).  The alias el<n> of *)
(* a target is its key.  Texts are sequences of tokens.                    *)
(***************************************************************************)
EXTENDS Naturals, Sequences, FiniteSets, SequencesExt

CONSTANTS Layout,         \* view of the document -> index -> element
          Details,       \* element -> what a snapshot says of it
          Address,       \* view -> scheme, host and parameters of its URL
          Leads,         \* "click" or "enter" -> element -> the view it leads to
          Radius,        \* dedupeClickRadiusMs
          Demos          \* bound: what a demonstration does, with which words, from where,
                         \* and for how many events

VARIABLES demo,      \* what this demonstration consists of
          world,     \* the document: view, fields, focus, and what was done to it
          tree,      \* the controller's elements as of its last updateTree
          now,       \* Date.now()
          tape,      \* recording: events, snapshots and start
          hooked,    \* hooked calls that have not written their event
          beyond,    \* something was done that no recording can tell
          made       \* what convert() returned

conversionVars == <<demo, world, tree, now, tape, hooked, beyond, made>>

Unfilled == [e \in {} |-> <<>>]
Nowhere == "nowhere"

-----------------------------------------------------------------------------
(* Targets: selector-optimizer.ts and selector-resolver.ts.                 *)

\* A selector is what it goes by and the names it asks for.
OptimizeSelector(d, all) ==
  LET exact == SelectSeq(<<"id", "testid", "name", "ariaLabel">>, LAMBDA k : d[k] # "")
      alone == Cardinality({i \in DOMAIN all : d.classes \subseteq all[i].classes}) = 1
  IN IF exact # <<>> THEN <<exact[1], {d[exact[1]]}>>
     ELSE IF d.classes # {} /\ alone THEN <<"classes", d.classes>>
     ELSE IF d.placeholder # "" THEN <<"placeholder", {d.placeholder}>>
     ELSE <<"selector", {d.selector}>>

Known(x) == IF x = "[REDACTED]" THEN "" ELSE x

\* The text of a control is what was typed into it and names nothing.
StableTargetText(d) ==
  IF d.tag \in {"input", "textarea", "select"} \/ d.role \in {"combobox", "textbox", "searchbox", "spinbutton"}
  THEN "" ELSE Known(d.text)

CompositeKey(sel, d) ==
  [sel |-> sel, ariaLabel |-> Known(d.ariaLabel), role |-> Known(d.role),
   text |-> StableTargetText(d), position |-> d.position]

NoTarget == [sel |-> <<"none", {}>>, ariaLabel |-> "", role |-> "", text |-> "", position |-> ""]

\* A position is a last resort: it would bypass every other strategy.
BuildTarget(key) ==
  IF key.ariaLabel = "" /\ key.role = "" /\ key.text = "" THEN key ELSE [key EXCEPT !.position = ""]

KeyIn(map, i) == CompositeKey(OptimizeSelector(map[i], map), map[i])

\* findSnapshot: binary search for the last snapshot that is not later than t; 0 if none.
FindSnapshot(snaps, t) ==
  LET search[lo \in 1..Len(snaps) + 1, hi \in 0..Len(snaps)] ==
        IF lo > hi THEN hi
        ELSE LET mid == (lo + hi) \div 2
             IN IF snaps[mid].timestamp <= t THEN search[mid + 1, hi] ELSE search[lo, mid - 1]
  IN search[1, Len(snaps)]

\* resolveTarget, with findEventSnapshot: the snapshot taken for this very event, or else
\* the last one before it.  NoTarget stands for each of the three errors that are thrown.
Resolve(i, t) ==
  LET snaps == tape.snapshots
      exact == {k \in DOMAIN snaps : snaps[k].timestamp = t /\ snaps[k].phase = "before-action"
                                     /\ i \in DOMAIN snaps[k].map}
      at == IF exact # {} THEN CHOOSE k \in exact : TRUE ELSE FindSnapshot(snaps, t)
  IN IF Cardinality(exact) > 1 \/ at = 0 THEN NoTarget
     ELSE IF i \notin DOMAIN snaps[at].map THEN NoTarget
     ELSE KeyIn(snaps[at].map, i)

-----------------------------------------------------------------------------
(* Events and what convert() merges.                                        *)

Event(type, i, t) ==
  [type |-> type, index |-> i, timestamp |-> t, text |-> <<>>, url |-> Nowhere, tab |-> FALSE,
   submit |-> FALSE, submitter |-> 0, amount |-> 0, annotation |-> ""]

Butlast(s) == SubSeq(s, 1, Len(s) - 1)

\* What is typed slowly is recorded as it grows; only the last text counts.
CoalesceInputText(events) ==
  FoldLeft(LAMBDA out, e :
    IF /\ out # <<>> /\ e.type = "inputText"
       /\ Last(out).type = "inputText" /\ Last(out).index = e.index
       /\ IsStrictPrefix(Last(out).text, e.text) /\ ~Last(out).submit
    THEN Append(Butlast(out), e) ELSE Append(out, e), <<>>, events)

\* A slip: the text keeps no word of the submission that was merged into it.
MergeSubmitFormDrops(events) ==
  FoldLeft(LAMBDA out, e :
    IF /\ out # <<>> /\ e.type = "submitForm"
       /\ Last(out).type = "inputText" /\ Last(out).index = e.index
    THEN out ELSE Append(out, e), <<>>, events)

MergeSubmitForm(events) ==
  FoldLeft(LAMBDA out, e :
    IF /\ out # <<>> /\ e.type = "submitForm"
       /\ Last(out).type = "inputText" /\ Last(out).index = e.index
    THEN Append(Butlast(out), [Last(out) EXCEPT !.submit = TRUE]) ELSE Append(out, e), <<>>, events)

\* A tab that a click opened and the user went to is one transition.
CollapseOpenedTab(events) ==
  LET Follows(k) == /\ k > 1 /\ events[k].type = "navigate" /\ events[k].tab
                    /\ events[k - 1].type = "click" /\ events[k - 1].tab
                    /\ events[k - 1].url = events[k].url
  IN FlattenSeq([k \in DOMAIN events |-> IF Follows(k) THEN <<>> ELSE <<events[k]>>])

\* preprocessor.ts, for the model that improves a rule: a click too soon after its like is
\* dropped, scrolls in one direction (kept in text) are added up.
DedupeEvents(events) ==
  FoldLeft(LAMBDA out, e :
    IF /\ out # <<>> /\ e.type = "click" /\ Last(out).type = "click"
       /\ e.index = Last(out).index /\ e.timestamp - Last(out).timestamp < Radius
    THEN out
    ELSE IF out # <<>> /\ e.type = "scroll" /\ Last(out).type = "scroll" /\ e.text = Last(out).text
    THEN Append(Butlast(out), [Last(out) EXCEPT !.amount = @ + e.amount])
    ELSE Append(out, e), <<>>, events)

-----------------------------------------------------------------------------
(* Variables: variable-guesser.ts.                                          *)

Keyword == <<"key", "word">>
LooksLikeVariable(w) == w # <<>> /\ \A k \in DOMAIN w : w[k] # "[REDACTED]"

\* encodeURIComponent, and the form's encoding of a blank.
Encoded(w, blank) == [k \in DOMAIN w |-> IF w[k] = " " THEN blank ELSE w[k]]
Plain(w) == [k \in DOMAIN w |-> IF w[k] \in {"%20", "+"} THEN " " ELSE w[k]]

UrlText(v) ==
  <<Address[v].host>> \o FlattenSeq([k \in DOMAIN Address[v].query |->
    <<"&">> \o Address[v].query[k].name \o <<"=">> \o Encoded(Address[v].query[k].value, "+")])

\* variables[name] = value: a name keeps the place it was given first.
Assign(vs, name, value) ==
  IF \E k \in DOMAIN vs : vs[k].name = name
  THEN [k \in DOMAIN vs |-> IF vs[k].name = name THEN [vs[k] EXCEPT !.value = value] ELSE vs[k]]
  ELSE Append(vs, [name |-> name, value |-> value])

FindMostCommon(ws) ==
  LET times(w) == Cardinality({k \in DOMAIN ws : ws[k] = w})
  IN ws[CHOOSE k \in DOMAIN ws : /\ \A j \in DOMAIN ws : times(ws[j]) <= times(ws[k])
                                 /\ \A j \in 1..k - 1 : times(ws[j]) < times(ws[k])]

\* Search parameters first, then others that mean something; never what may be a secret.
GuessVariables(events) ==
  LET query == Address[tape.start].query
      of(kind) == SelectSeq(query, LAMBDA p : p.kind = kind /\ LooksLikeVariable(p.value))
      params == [k \in DOMAIN of("search") |-> [of("search")[k] EXCEPT !.name = Keyword]] \o of("other")
      guessed == FoldLeft(LAMBDA vs, p : Assign(vs, p.name, p.value), <<>>, params)
      inputs == SelectSeq(events, LAMBDA e : e.type = "inputText" /\ e.text # <<>>)
      common == FindMostCommon([k \in DOMAIN inputs |-> inputs[k].text])
  IN IF inputs # <<>> /\ LooksLikeVariable(common) THEN Assign(guessed, Keyword, common) ELSE guessed

Hole(name) == <<"{{">> \o name \o <<"}}">>

OccursAt(w, text, k) == k + Len(w) - 1 <= Len(text) /\ SubSeq(text, k, k + Len(w) - 1) = w

\* text.split(w).join(hole)
ReplaceAllOf(text, w, hole) ==
  LET from[k \in 1..Len(text) + 1] ==
        IF k > Len(text) THEN <<>>
        ELSE IF OccursAt(w, text, k) /\ Len(w) > 0 THEN hole \o from[k + Len(w)]
        ELSE <<text[k]>> \o from[k + 1]
  IN from[1]

\* Longer values first, each in the forms a URL may give it.
Longest(vs) == SortSeq(vs, LAMBDA a, b : Len(a.value) > Len(b.value))

Templatize(vs, text) ==
  LET whole == SelectSeq(Longest(vs), LAMBDA v : v.value = text)
      forms(v) == <<v.value, Encoded(v.value, "%20"), Encoded(v.value, "+")>>
  IN IF whole # <<>> THEN Hole(whole[1].name)
     ELSE FoldLeft(LAMBDA t, v : FoldLeft(LAMBDA u, w : ReplaceAllOf(u, w, Hole(v.name)), t, forms(v)),
                   text, Longest(vs))

-----------------------------------------------------------------------------
(* Steps: event-mappers.ts, pattern-analyzer.ts and annotated-converter.ts. *)

Step(action, key, value) ==
  [action |-> action, target |-> key, value |-> value, submit |-> FALSE, steps |-> <<>>]
Screen == [NoTarget EXCEPT !.sel = <<"screen", {}>>]   \* the target of a step that has none

\* A script that was run is never written into a rule.
MapEvent(e) ==
  LET At(i) == Resolve(i, e.timestamp)
  IN CASE e.type = "navigate" \/ (e.type = "click" /\ e.tab) -> <<Step("navigate", Screen, UrlText(e.url))>>
       [] e.type = "click" /\ ~e.tab  -> <<Step("click", At(e.index), <<>>)>>
       [] e.type = "inputText"        -> <<[Step("type", At(e.index), e.text) EXCEPT !.submit = e.submit]>>
       [] e.type = "selectOption"     -> <<Step("select", At(e.index), e.text)>>
       [] e.type = "submitForm"       -> IF e.submitter # 0 THEN <<Step("click", At(e.submitter), <<>>)>>
                                         ELSE <<Step("pressKey", Screen, <<>>)>>
       [] e.type = "scroll"           -> <<Step("scrollBy", IF e.index = 0 THEN Screen ELSE At(e.index), <<>>)>>
       [] e.type = "extract"          -> <<Step("extractText", At(e.index), <<>>)>>
       [] e.type = "executeJavascript" -> <<>>

MapEvents(events) == FlattenSeq([k \in DOMAIN events |-> MapEvent(events[k])])

Noted(e, notes) == e.type = "click" /\ e.annotation \in notes
InGroup(e) == e.type = "extract" /\ e.annotation # ""
\* analyzePatterns and collectExtractGroup: a group is a run of extractions noted alike.
StartsGroup(events, k) ==
  InGroup(events[k]) /\ (k > 1 => ~InGroup(events[k - 1]) \/ events[k - 1].annotation # events[k].annotation)
HasAnnotations(events) == \E k \in DOMAIN events : events[k].annotation # ""

\* A group becomes one extraction, from its first element.  With an extraction the way to
\* the next page closes a loop around everything from the first noted event on; logins and
\* captchas come last, each if its element is there.
BuildAnnotatedActions(events) ==
  LET Those(test(_)) == {k \in DOMAIN events : test(k)}
      turns == Those(LAMBDA k : Noted(events[k], {"nextPage"}))
      auths == Those(LAMBDA k : Noted(events[k], {"login", "captcha"}))
      groups == Those(LAMBDA k : StartsGroup(events, k))
      First(S) == CHOOSE k \in S : \A j \in S : k <= j
      from == IF turns \cup auths \cup groups = {} THEN Len(events) + 1 ELSE First(turns \cup auths \cup groups)
      at(k) == Resolve(events[k].index, events[k].timestamp)
      body == FlattenSeq([k \in DOMAIN events |->
                IF k < from \/ k \in turns \cup auths THEN <<>>
                ELSE IF k \in groups THEN <<Step("extract", at(k), <<>>)>>
                ELSE IF InGroup(events[k]) THEN <<>> ELSE MapEvent(events[k])])
      next == at(First(turns))
      loop == [Step("loop", next, <<>>) EXCEPT !.steps = Append(body, Step("click", next, <<>>))]
      branch(k) == [Step("if", at(k), <<>>) EXCEPT !.steps = <<Step(events[k].annotation, at(k), <<>>)>>]
  IN MapEvents(SubSeq(events, 1, from - 1))
       \o (IF turns # {} /\ groups # {} THEN <<loop>> ELSE body)
       \o FlattenSeq([k \in DOMAIN events |-> IF k \in auths THEN <<branch(k)>> ELSE <<>>])

-----------------------------------------------------------------------------
(* The rule: PageAgentToDslConverter.ts.                                    *)

Loopback == {"localhost"}
DomainSafe(v) == \/ Address[v].scheme = "https"
                 \/ Address[v].scheme = "http" /\ Address[v].host \in Loopback
EntrySafe(v) == Address[v].scheme \in {"http", "https"}

RecordedHttpsDomains ==
  LET Urls(items) == {x.url : x \in ToSet(items)}
      safe == {v \in {tape.start} \cup Urls(tape.snapshots)
                     \cup Urls(SelectSeq(tape.events, LAMBDA e : e.type = "navigate" \/ e.tab)) : DomainSafe(v)}
  IN {Address[v].host : v \in IF safe = {} THEN {tape.start} ELSE safe}

\* recordedEntry: where the recording began, or the earliest address that a rule may open.
RecordedEntry ==
  LET visits == SelectSeq(tape.events, LAMBDA e : e.type = "navigate")
      seen == [k \in DOMAIN visits |-> [url |-> visits[k].url, timestamp |-> visits[k].timestamp]]
              \o [k \in DOMAIN tape.snapshots |-> [url |-> tape.snapshots[k].url,
                                                   timestamp |-> tape.snapshots[k].timestamp]]
      fit == {k \in DOMAIN seen : EntrySafe(seen[k].url)}
      sooner(j, k) == \/ seen[j].timestamp < seen[k].timestamp
                      \/ seen[j].timestamp = seen[k].timestamp /\ j <= k
  IN IF EntrySafe(tape.start) \/ fit = {} THEN tape.start
     ELSE seen[CHOOSE k \in fit : \A j \in fit : sooner(k, j)].url

Unresolved(steps) == \E k \in DOMAIN steps : steps[k].target = NoTarget \/
                       \E j \in DOMAIN steps[k].steps : steps[k].steps[j].target = NoTarget

\* convert(): an index that no snapshot resolves fails the whole rule.  Only the steps of
\* the outermost list have their texts replaced.
Convert ==
  LET events == CollapseOpenedTab(MergeSubmitForm(CoalesceInputText(tape.events)))
      steps == IF HasAnnotations(tape.events) THEN BuildAnnotatedActions(events) ELSE MapEvents(events)
      variables == GuessVariables(events)
      texts == {"navigate", "type", "select"}
  IN IF Unresolved(steps) THEN [status |-> "thrown"]
     ELSE [status |-> "rule", entry |-> RecordedEntry, domains |-> RecordedHttpsDomains,
           variables |-> variables, sent |-> DedupeEvents(tape.events),
           steps |-> [k \in DOMAIN steps |-> IF steps[k].action \in texts
                        THEN [steps[k] EXCEPT !.value = Templatize(variables, @)] ELSE steps[k]]]

-----------------------------------------------------------------------------
(* A document and what is done to it, by a person, a controller or a rule.  *)

Infos(v) == [i \in DOMAIN Layout[v] |-> Details[Layout[v][i]]]
TargetAt(v, i) == BuildTarget(KeyIn(Infos(v), i))
Places(v, t) == {i \in DOMAIN Layout[v] : TargetAt(v, i) = t}

Put(w, entry) == [w EXCEPT !.log = Append(@, entry)]

\* A fresh document at v; to load the fresh document that is there changes nothing.
Visit(w, v) ==
  IF w.view = v /\ w.filled = Unfilled THEN w
  ELSE Put([w EXCEPT !.view = v, !.filled = Unfilled, !.focus = Screen], <<"go", v>>)

\* What a click on t, or Enter in it, brings about.
Follow(w, how, t) ==
  LET from == {Layout[w.view][i] : i \in Places(w.view, t)} \cap DOMAIN Leads[how]
  IN IF from = {} THEN w ELSE Visit(w, Leads[how][CHOOSE e \in from : TRUE])
Click(w, t) == Follow(Put([w EXCEPT !.focus = t], <<"click", t, w.filled>>), "click", t)
Fill(w, t, text) == [w EXCEPT !.filled = (t :> text) @@ @, !.focus = t]
Enter(w) == Follow(Put(w, <<"submit", w.focus, w.filled>>), "enter", w.focus)

\* The engine's {{name}}.
Expand(vs, text) ==
  LET from[k \in 1..Len(text) + 1] ==
        LET here == {n \in DOMAIN vs : k <= Len(text) /\ OccursAt(Hole(vs[n].name), text, k)}
            n == CHOOSE m \in here : TRUE
        IN IF k > Len(text) THEN <<>>
           ELSE IF here # {} THEN vs[n].value \o from[k + Len(Hole(vs[n].name))]
           ELSE <<text[k]>> \o from[k + 1]
  IN from[1]

Perform(w, step, vs) ==
  LET t == BuildTarget(step.target)
      text == Expand(vs, step.value)
      there == {v \in DOMAIN Address : Plain(UrlText(v)) = Plain(text)}
  IN IF step.action = "if" THEN w    \* a login or a captcha: a person's
     ELSE IF step.action = "navigate" /\ there # {} THEN Visit(w, CHOOSE v \in there : TRUE)
     ELSE IF step.action = "navigate" \/ (step.target # Screen /\ Places(w.view, t) = {}) THEN Put(w, <<"missing">>)
     ELSE CASE step.action = "pressKey" -> Enter(w)
            [] step.action = "click" -> Click(w, t)
            [] step.action = "scrollBy" -> Put(w, <<"scroll", t>>)
            [] step.action \in {"extract", "extractText"} -> Put(w, <<"extract", t>>)
            [] step.action \in {"type", "select"} ->
                 IF step.submit THEN Enter(Fill(w, t, text)) ELSE Fill(w, t, text)

Fresh(v) == [view |-> v, filled |-> Unfilled, focus |-> Screen, log |-> IF EntrySafe(v) THEN <<<<"go", v>>>> ELSE <<>>]

\* The rule from its entry, a loop passed through once.
Replayed(rule) ==
  FoldLeft(LAMBDA w, step : Perform(w, step, rule.variables), Fresh(rule.entry),
           FlattenSeq([k \in DOMAIN rule.steps |-> IF rule.steps[k].action = "loop" THEN rule.steps[k].steps
                                                   ELSE <<rule.steps[k]>>]))

-----------------------------------------------------------------------------
(* The demonstration.                                                       *)

Snapshot(v, t, phase) == [timestamp |-> t, phase |-> phase, map |-> Infos(v), url |-> v]

\* A deed and what the page recorder writes of it, with the arrival in a new document.  The
\* recorder is in no page but http's.
Done(w, events, tab) ==
  LET arrives == Address[w.view] # Address[world.view]
      arrival == [Event("navigate", 0, now + 2) EXCEPT !.url = w.view, !.tab = tab]
      before == [k \in DOMAIN events |-> Snapshot(world.view, events[k].timestamp, "before-action")]
  IN /\ made.status = "none" /\ "calls" \notin demo.does /\ Len(tape.events) < demo.events
     /\ events # <<>> => EntrySafe(world.view)
     /\ world' = w
     /\ tape' = [tape EXCEPT
          !.events = @ \o events \o (IF arrives THEN <<arrival>> ELSE <<>>),
          !.snapshots = @ \o before \o (IF arrives THEN <<Snapshot(w.view, now + 2, "before-action")>> ELSE <<>>)]
     /\ now' = now + 3
     /\ UNCHANGED <<demo, tree, hooked, made>>

Here == DOMAIN Layout[world.view]
At(i) == TargetAt(world.view, i)
Is(i, tags) == Details[Layout[world.view][i]].tag \in tags
Leading(i) == Layout[world.view][i] \in DOMAIN Leads.click

\* The kind of event, done to the element i with the text; what is noted of it later.
ClicksOn(i, note) ==
  /\ "click" \in demo.does /\ ~Is(i, {"input", "select"})
  /\ note # "" => "notes" \in demo.does /\ ~Leading(i)
  /\ Done(Click(world, At(i)), <<[Event("click", i, now) EXCEPT !.annotation = note]>>, FALSE)
  /\ UNCHANGED beyond
Types(i, text) ==
  /\ "type" \in demo.does /\ Is(i, {"input"})
  /\ Done(Fill(world, At(i), text), <<[Event("inputText", i, now) EXCEPT !.text = text]>>, FALSE)
  /\ UNCHANGED beyond
Chooses(i, text) ==
  /\ "select" \in demo.does /\ Is(i, {"select"})
  /\ Done(Fill(world, At(i), text), <<[Event("selectOption", i, now) EXCEPT !.text = text]>>, FALSE)
  /\ UNCHANGED beyond
\* Enter in a field; the recording does not tell of a field that was reached by Tab.
Enters(i) ==
  /\ "enter" \in demo.does /\ Is(i, {"input"})
  /\ Done(Enter([world EXCEPT !.focus = At(i)]), <<Event("submitForm", i, now)>>, FALSE)
  /\ beyond' = (beyond \/ world.focus # At(i))
\* Enter while the text still waits: handleKeydown has read the clock before it flushes.
TypesAndEnters(i, text, late) ==
  /\ "quick" \in demo.does /\ Is(i, {"input"})
  /\ Done(Enter(Fill(world, At(i), text)),
          <<[Event("inputText", i, now + late) EXCEPT !.text = text], Event("submitForm", i, now)>>, FALSE)
  /\ UNCHANGED beyond
\* A submission whose button was not clicked: the form has no index of its own here.
Submits(i) ==
  /\ "enter" \in demo.does /\ Is(i, {"button"})
  /\ Done(Click(world, At(i)), <<[Event("submitForm", 0, now) EXCEPT !.submitter = i]>>, FALSE)
  /\ UNCHANGED beyond
Scrolls(i, way) ==
  /\ "scroll" \in demo.does /\ (i # 0 => Is(i, {"div"}))
  /\ Done(Put(world, <<"scroll", IF i = 0 THEN Screen ELSE At(i)>>),
          <<[Event("scroll", i, now) EXCEPT !.text = <<way>>, !.amount = 1]>>, FALSE)
  /\ UNCHANGED beyond
Extracts(i, note) ==
  /\ "notes" \in demo.does /\ Is(i, {"div"})
  /\ LET e == [Event("extract", i, now) EXCEPT !.annotation = note]
         goesOn == note # "" /\ tape.events # <<>> /\ ~StartsGroup(Append(tape.events, e), Len(tape.events) + 1)
     IN Done(IF goesOn THEN world ELSE Put(world, <<"extract", At(i)>>), <<e>>, FALSE)
  /\ UNCHANGED beyond
\* A link opens a tab.  The user goes there, or stays: then no recording tells which page
\* the next events are of.
OpensTab(i, goes) ==
  /\ "tab" \in demo.does /\ Leading(i) /\ Is(i, {"a"})
  /\ LET to == Leads.click[Layout[world.view][i]]
     IN Done(IF goes THEN Visit(world, to) ELSE world,
             <<[Event("click", i, now) EXCEPT !.tab = TRUE, !.url = to]>>, TRUE)
  /\ beyond' = (beyond \/ ~goes)
Navigates(v) ==
  /\ "navigate" \in demo.does /\ Address[v] # Address[world.view]
  /\ Done(Visit(world, v), <<>>, FALSE)
  /\ UNCHANGED beyond

-----------------------------------------------------------------------------
(* PageAgentRecorder: hooked calls of a controller.                         *)

Blurred(which(_)) == [k \in DOMAIN hooked |-> IF which(hooked[k]) THEN [hooked[k] EXCEPT !.blurred = TRUE] ELSE hooked[k]]

\* The hook awaits updateTree, which numbers the elements anew, and the snapshot; a failure
\* of either is only logged, and the event will be resolved in an older snapshot.
CallBegins(type, i, text, fails) ==
  /\ "calls" \in demo.does /\ made.status = "none"
  /\ Len(hooked) < 2 /\ now < 2 * demo.events - 1
  /\ (type = "click" <=> ~Is(i, {"input"}))
  /\ tree' \in (IF fails THEN {tree} ELSE {}) \cup {Infos(world.view), Reverse(Infos(world.view))}
  /\ tape' = IF fails THEN tape
             ELSE [tape EXCEPT !.snapshots = Append(@, [Snapshot(world.view, now, "") EXCEPT !.map = tree'])]
  /\ hooked' = Append(Blurred(LAMBDA c : fails \/ c.pc = "write"),
                      [type |-> type, index |-> i, text |-> text, pc |-> "act", blurred |-> fails])
  /\ now' = now + 1
  /\ UNCHANGED <<demo, world, beyond, made>>

\* The original method, on the controller's tree as it is now.  What throws is not recorded;
\* neither is a call that tears down the document it is made from.
CallActs(k) ==
  LET c == hooked[k]
      t == BuildTarget(KeyIn(tree, c.index))
      acts == c.index \in DOMAIN tree /\ Places(world.view, t) # {}
      w == IF ~acts THEN world ELSE IF c.type = "click" THEN Click(world, t)
           ELSE IF c.type = "inputText" THEN Fill(world, t, c.text) ELSE Put(world, <<"script">>)
      others == \E j \in DOMAIN hooked : hooked[j].pc = "write"
  IN /\ c.pc = "act"
     /\ world' = w
     /\ hooked' = IF w.view # world.view THEN <<>>
                  ELSE IF acts THEN [Blurred(LAMBDA o : o.pc = "write") EXCEPT ![k] =
                                      [c EXCEPT !.pc = "write", !.blurred = @ \/ others]]
                  ELSE RemoveAt(hooked, k)
     /\ beyond' = (beyond \/ w.view # world.view)
     /\ UNCHANGED <<demo, tree, now, tape, made>>

CallWrites(k) ==
  LET c == hooked[k]
  IN /\ c.pc = "write"
     /\ tape' = [tape EXCEPT !.events = Append(@, [Event(c.type, c.index, now) EXCEPT !.text = c.text])]
     /\ hooked' = RemoveAt(hooked, k)
     /\ now' = now + 1
     /\ beyond' = (beyond \/ c.blurred \/ c.type = "executeJavascript")
     /\ UNCHANGED <<demo, world, tree, made>>

-----------------------------------------------------------------------------
ConversionInit ==
  /\ demo \in Demos
  /\ world = Fresh(demo.from) /\ tree = Infos(demo.from)
  /\ tape = [start |-> demo.from, events |-> <<>>, snapshots |-> <<>>]
  /\ now = 0 /\ hooked = <<>> /\ beyond = FALSE
  /\ made = [status |-> "none"]

Converts == made.status = "none" /\ hooked = <<>> /\ made' = Convert
            /\ UNCHANGED <<demo, world, tree, now, tape, hooked, beyond>>

ConversionNext ==
  \/ \E i \in Here :
       \/ \E note \in {"", "nextPage", "login", "captcha"} : ClicksOn(i, note)
       \/ \E text \in demo.words : Types(i, text) \/ Chooses(i, text)
       \/ \E text \in demo.words, late \in {0, 1} : TypesAndEnters(i, text, late)
       \/ Enters(i) \/ Submits(i)
       \/ \E note \in {"", "listItem", "field"} : Extracts(i, note)
       \/ \E goes \in BOOLEAN : OpensTab(i, goes)
       \/ \E type \in {"click", "inputText", "executeJavascript"}, fails \in BOOLEAN :
            \E text \in IF type = "inputText" THEN demo.words ELSE {<<>>} : CallBegins(type, i, text, fails)
  \/ \E i \in Here \cup {0}, way \in {"down", "up"} : Scrolls(i, way)
  \/ \E v \in DOMAIN Address : Navigates(v)
  \/ \E k \in DOMAIN hooked : CallActs(k) \/ CallWrites(k)
  \/ Converts

-----------------------------------------------------------------------------
(* Correctness.                                                             *)

\* A variable whose value is part of another's placeholder is written into it.
NamesClash(vs) ==
  \E a, b \in DOMAIN vs : \E w \in {vs[a].value, Encoded(vs[a].value, "%20"), Encoded(vs[a].value, "+")} :
    \E k \in 1..Len(Hole(vs[b].name)) : OccursAt(w, Hole(vs[b].name), k)

\* What was noted is a matter of its own: a turn of the page closes the loop, a login is
\* left to a person.
Told(w) ==
  LET noted == {BuildTarget(Resolve(e.index, e.timestamp)) : e \in {f \in ToSet(tape.events) :
                  Noted(f, {"nextPage", "login", "captcha"})}}
  IN [log |-> SelectSeq(w.log, LAMBDA x : Len(x) = 1 \/ x[1] = "go" \/ x[2] \notin noted),
      filled |-> w.filled, at |-> Address[w.view]]

\* The rule, run from its entry, does what was demonstrated: the same clicks, submissions,
\* extractions and scrolls of the same targets in the same order, each with the same
\* contents of the fields, and it ends in the same document.
ReplayDoesTheSame ==
  made.status = "rule" /\ ~beyond /\ ~NamesClash(made.variables) => Told(Replayed(made)) = Told(world)

\* convert() throws only where two events of one element fall into one millisecond, or
\* where a call of a controller had no snapshot of its own or overlapped with another.
ThrownForCause ==
  made.status = "thrown" =>
    beyond \/ \E k \in DOMAIN tape.snapshots : \E j \in 1..k - 1 :
                tape.snapshots[j].timestamp = tape.snapshots[k].timestamp

\* The rule may open every page it opens, its entry included, if that page may lend a
\* rule its domain; and only what the recording has seen.
DomainsSuffice ==
  made.status = "rule" =>
    \A v \in {made.entry} \cup {e.url : e \in {f \in ToSet(tape.events) : f.type = "navigate" \/ f.tab}} :
      DomainSafe(v) => Address[v].host \in made.domains

\* What is sent to be improved scrolls as far as the recording, and a click is missing
\* from it only shortly after its like.
SentIsEnough ==
  made.status = "rule" =>
    LET Far(events, way) == FoldLeft(LAMBDA n, e : IF e.text = <<way>> THEN n + e.amount ELSE n, 0, events)
        gone == {k \in DOMAIN tape.events : tape.events[k].type # "scroll" /\ tape.events[k] \notin ToSet(made.sent)}
    IN /\ \A way \in {"down", "up"} : Far(made.sent, way) = Far(tape.events, way)
       /\ \A k \in gone : \E j \in 1..k - 1 : /\ tape.events[j] \in ToSet(made.sent)
                                              /\ tape.events[j].type = "click" /\ tape.events[k].type = "click"
                                              /\ tape.events[j].index = tape.events[k].index
                                              /\ tape.events[k].timestamp - tape.events[j].timestamp < Radius

\* The rule made from a recording is what was demonstrated, whatever order calls,
\* snapshots and events came in (convert, resolveTarget, guessVariables and the hooks of
\* PageAgentRecorder).
RuleIsWhatWasShown == ReplayDoesTheSame /\ ThrownForCause /\ DomainsSuffice /\ SentIsEnough
=============================================================================
