------------------------------ MODULE Actions ------------------------------
(***************************************************************************)
(* The actions of a rule on a live page: the handlers of                   *)
(* src/scriptcat-engine/actions/index.ts, the element search they share    *)
(* (selectors.ts, worker/BrowserEnvironment.ts) and the hard timeout and   *)
(* retries the executor puts around each of them.                          *)
(*                                                                         *)
(* A handler is a script: what it does to the page, in order, with its     *)
(* waits.  The page changes on its own between any two of them.  The       *)
(* executor's timeout rejects the step and starts it again, but nothing    *)
(* stops the handler: the abandoned script goes on, beside the new one.    *)
(***************************************************************************)
EXTENDS Naturals, Sequences, FiniteSets

CONSTANTS ActionRules,        \* sequences of kinds of actions to run
          MaxTries,     \* attempts of a step
          MaxToggles    \* bound: changes of the page

VARIABLES steps,    \* the rule: a sequence of kinds
          at,       \* the step that runs
          tries,    \* its attempts so far
          cur,      \* the attempt: kind and place in its script
          strays,   \* attempts the executor has given up
          el,       \* the target: in the document, shown, enabled
          toggles,  \* changes of the page so far
          menu,     \* a menu or a suggestion is shown
          moved,    \* the address has changed since the step began
          low,      \* the window shows the end of the page
          field,    \* the characters in the target
          ticked,   \* the target is checked
          held,     \* mouse buttons that are down
          keys,     \* keys that are down
          rows,     \* results given to the transport
          verdict,  \* of the run
          strayed   \* ghost: some attempt was given up before its handler ended

actionVars == <<steps, at, tries, cur, strays, el, toggles, menu, moved, low, field,
                ticked, held, keys, rows, verdict, strayed>>
pageVars == <<el, toggles, menu, moved, low>>
deviceVars == <<field, ticked, held, keys, rows>>

Text == <<"a", "b">>

---------------------------------------------------------------------------
(* The handlers.  "find" is findElement with its timeout; "pause" is a sleep, *)
(* "act" an event or a call on the page that leaves nothing behind.           *)

HandleClick == <<"find", "enabled", "pause", "down", "pause", "up", "url", "pause">>
HandleType == <<"find", "clear", "pause", "char", "char", "act", "url", "pause">>
HandleClear == <<"find", "clear">>
HandleSelect == <<"find", "act">>
HandleCheck == <<"find", "tick">>
HandlePressKey == <<"keydown", "pause", "keyup">>
HandleKeyCombination == <<"keydown", "pause", "keyup">>
HandleDoubleClick == <<"find", "pause", "act", "pause">>
HandleRightClick == <<"find", "pause", "act", "pause">>
HandleMiddleClick == <<"find", "pause", "act", "pause">>
HandleHover == <<"find", "pause", "act", "pause", "act", "pause">>
HandleHoverClick == <<"find", "act", "menu", "pause", "act", "pause">>
HandleMoveMouse == <<"find", "pause">>
HandlePressAndHold == <<"find", "down", "pause", "up">>

\* A slip: the drop target is looked for while the button is down.
HandleDragAndDropLate == <<"find", "down", "find", "pause", "up">>

HandleDragAndDrop == <<"find", "find", "down", "pause", "up">>
HandleDragBy == <<"find", "down", "pause", "up">>
HandleSlide == <<"find", "down", "pause", "up">>

HandlePaste == <<"find", "set">>
HandleSelectRadio == <<"find", "tick">>
HandleTypeAndSelect == <<"find", "set", "menu">>
HandleUploadFile == <<"find", "act">>
HandleFocus == <<"find", "act">>
HandleBlur == <<"seek", "act">>
HandleTab == <<"act", "pause">>

HandleWaitFor == <<"find">>
HandleWaitForText == <<"shown">>
HandleWaitForTimeout == <<"pause">>
HandleWaitForElementHidden == <<"gone">>
HandleWaitForUrl == <<"urlMust">>
HandleWaitForElementVisible == <<"shown">>
HandleWaitForFunction == <<"shown">>
HandleReadPause == <<"pause">>

HandleScrollToBottom == <<"bottom", "pause">>
HandleScrollBy == <<"find", "act", "pause">>
HandleScrollTo == <<"find", "act", "pause">>
HandlePageDown == <<"act", "pause">>
HandleSetStyle == <<"find", "act">>
HandleRemoveElement == <<"find", "remove">>
HandleNavigate == <<"go", "urlMust">>
HandleReload == <<"act", "pause">>
GoBack == <<"go", "url">>

HandleExtract == <<"find", "act">>
HandleExtractText == <<"seek", "act">>
HandleExtractTable == <<"find", "act">>
HandleEvaluate == <<"act">>
HandleValidateData == <<"valid">>

HandleSendResult == <<"send">>
HandleSendHtml == <<"find", "send">>
HandleSendLog == <<"post">>
HandleCheckpoint == <<"post">>
HandleAbort == <<"post", "throw">>

\* executeAction's switch.
Scripts ==
 [ click |-> HandleClick,
  type |-> HandleType,
  clear |-> HandleClear,
  select |-> HandleSelect,
  check |-> HandleCheck,
  pressKey |-> HandlePressKey,
  keyCombination |-> HandleKeyCombination,
  doubleClick |-> HandleDoubleClick,
  rightClick |-> HandleRightClick,
  middleClick |-> HandleMiddleClick,
  hover |-> HandleHover,
  hoverClick |-> HandleHoverClick,
  moveMouse |-> HandleMoveMouse,
  pressAndHold |-> HandlePressAndHold,
  dragAndDrop |-> HandleDragAndDrop,
  dragBy |-> HandleDragBy,
  slide |-> HandleSlide,
  paste |-> HandlePaste,
  selectRadio |-> HandleSelectRadio,
  typeAndSelect |-> HandleTypeAndSelect,
  uploadFile |-> HandleUploadFile,
  focus |-> HandleFocus,
  blur |-> HandleBlur,
  tab |-> HandleTab,
  waitFor |-> HandleWaitFor,
  waitForText |-> HandleWaitForText,
  waitForTimeout |-> HandleWaitForTimeout,
  waitForElementHidden |-> HandleWaitForElementHidden,
  waitForUrl |-> HandleWaitForUrl,
  waitForElementVisible |-> HandleWaitForElementVisible,
  waitForFunction |-> HandleWaitForFunction,
  readPause |-> HandleReadPause,
  scrollToBottom |-> HandleScrollToBottom,
  scrollBy |-> HandleScrollBy,
  scrollTo |-> HandleScrollTo,
  pageDown |-> HandlePageDown,
  setStyle |-> HandleSetStyle,
  removeElement |-> HandleRemoveElement,
  navigate |-> HandleNavigate,
  reload |-> HandleReload,
  goBack |-> GoBack,
  extract |-> HandleExtract,
  extractText |-> HandleExtractText,
  extractTable |-> HandleExtractTable,
  evaluate |-> HandleEvaluate,
  validateData |-> HandleValidateData,
  sendResult |-> HandleSendResult,
  sendHtml |-> HandleSendHtml,
  sendLog |-> HandleSendLog,
  checkpoint |-> HandleCheckpoint,
  abort |-> HandleAbort]
Script(kind) == Scripts[kind]
ActionKinds == DOMAIN Scripts

\* A rule without steps does nothing; a step is tried at least once.
ASSUME ActionsAssumption ==
    /\ ActionRules \subseteq Seq(ActionKinds) \ {<<>>}
    /\ MaxTries \in Nat \ {0}
    /\ MaxToggles \in Nat

---------------------------------------------------------------------------
(* One operation of a script: when it goes on, what it does, how it fails. *)

\* verifyElement, isElementVisible and the polling loops over them.
Found == el.there
Shown == el.there /\ el.shown

Goes(op) ==
    CASE op = "find" -> Found
      [] op = "enabled" -> el.enabled
      [] op = "shown" -> Shown
      [] op = "gone" -> ~el.there
      [] op = "menu" -> menu
      [] op \in {"url", "urlMust"} -> moved
      [] op = "bottom" -> low
      [] op = "throw" -> FALSE
      [] OTHER -> TRUE

\* The loop's own timeout: "seek" and "url" are content without, a stepped
\* scroll has none.
Fails(op) ==
    \/ op \in {"find", "shown", "gone", "menu", "urlMust", "enabled"} /\ ~Goes(op)
    \/ op \in {"throw", "valid", "send", "post"}

Tolerates(op) == op = "url" /\ ~moved

Devices(op) ==
    /\ field' = CASE op = "clear" -> <<>>
                  [] op = "char" -> Append(field, Text[(Len(field) % 2) + 1])
                  [] op = "set" -> Text
                  [] OTHER -> field
    /\ ticked' = (ticked \/ op = "tick")
    /\ held' = CASE op = "down" -> held + 1
                 [] op = "up" -> IF held = 0 THEN 0 ELSE held - 1
                 [] OTHER -> held
    /\ keys' = CASE op = "keydown" -> keys + 1
                 [] op = "keyup" -> IF keys = 0 THEN 0 ELSE keys - 1
                 [] OTHER -> keys
    /\ rows' = IF op = "send" THEN rows + 1 ELSE rows

OfPage(op) ==
    /\ el' = IF op = "remove" THEN [el EXCEPT !.there = FALSE] ELSE el
    /\ moved' = (moved \/ op = "go")
    /\ UNCHANGED <<toggles, menu, low>>

---------------------------------------------------------------------------
NoAttempt == [kind |-> "none", pc |-> 0, step |-> 0, try |-> 0]
Attempt(step, try) == [kind |-> steps[step], pc |-> 1, step |-> step, try |-> try]

ActionsInit ==
    /\ steps \in ActionRules
    /\ at = 1 /\ tries = 1
    /\ cur = Attempt(1, 1)
    /\ strays = {}
    /\ el \in [there : BOOLEAN, shown : {FALSE}, enabled : {TRUE}]
    /\ toggles = 0 /\ menu = FALSE /\ moved = FALSE /\ low = FALSE
    /\ field = <<>> /\ ticked = FALSE /\ held = 0 /\ keys = 0 /\ rows = 0
    /\ verdict = "running" /\ strayed = FALSE

\* The page's own scripts and its network.
Toggle ==
    /\ toggles < MaxToggles /\ toggles' = toggles + 1
    /\ \/ /\ el' \in {[el EXCEPT !.there = ~@], [el EXCEPT !.shown = ~@],
                      [el EXCEPT !.enabled = ~@]}
          /\ UNCHANGED <<menu, moved>>
       \/ menu' = ~menu /\ UNCHANGED <<el, moved>>
       \/ ~moved /\ moved' = TRUE /\ UNCHANGED <<el, menu>>
    /\ UNCHANGED <<low, steps, at, tries, cur, strays, verdict, strayed>>
    /\ UNCHANGED deviceVars

\* A stepped scroll and a page that grows under it.
Scrolls ==
    /\ cur.kind = "scrollToBottom" \/ \E s \in strays : s.kind = "scrollToBottom"
    /\ low' = ~low
    /\ UNCHANGED <<el, toggles, menu, moved, steps, at, tries, cur, strays, verdict, strayed>>
    /\ UNCHANGED deviceVars

\* runSteps: the next step, or the end.
StepDone ==
    IF at = Len(steps)
    THEN /\ verdict' = "success" /\ cur' = NoAttempt
         /\ UNCHANGED <<at, tries>>
    ELSE /\ at' = at + 1 /\ tries' = 1 /\ cur' = Attempt(at + 1, 1)
         /\ UNCHANGED verdict

\* runStep: again while attempts are left, else the rule fails.
StepFails ==
    IF tries < MaxTries
    THEN /\ tries' = tries + 1 /\ cur' = Attempt(at, tries + 1)
         /\ UNCHANGED <<at, verdict>>
    ELSE /\ verdict' = "failed" /\ cur' = NoAttempt
         /\ UNCHANGED <<at, tries>>

Op(a) == Script(a.kind)[a.pc]

Runs ==
    /\ cur # NoAttempt
    /\ Goes(Op(cur)) \/ Tolerates(Op(cur))
    /\ Devices(Op(cur)) /\ OfPage(Op(cur))
    /\ IF cur.pc = Len(Script(cur.kind))
       THEN StepDone
       ELSE /\ cur' = [cur EXCEPT !.pc = @ + 1]
            /\ UNCHANGED <<at, tries, verdict>>
    /\ UNCHANGED <<steps, strays, strayed>>

Throws ==
    /\ cur # NoAttempt /\ Fails(Op(cur))
    /\ StepFails
    \* A transport that throws may have kept the row.
    /\ rows' \in {rows, IF Op(cur) = "send" THEN rows + 1 ELSE rows}
    /\ UNCHANGED <<steps, strays, field, ticked, held, keys, strayed>>
    /\ UNCHANGED pageVars

\* executeWithTimeout: the step is rejected, its handler is not stopped.
HardTimeout ==
    /\ cur # NoAttempt
    /\ strays' = strays \cup {cur} /\ strayed' = TRUE
    /\ StepFails
    /\ UNCHANGED steps
    /\ UNCHANGED pageVars
    /\ UNCHANGED deviceVars

StrayRuns ==
    \E s \in strays :
        /\ Goes(Op(s)) \/ Tolerates(Op(s))
        /\ Devices(Op(s)) /\ OfPage(Op(s))
        /\ strays' = (strays \ {s}) \cup
              (IF s.pc = Len(Script(s.kind)) THEN {} ELSE {[s EXCEPT !.pc = @ + 1]})
        /\ UNCHANGED <<steps, at, tries, cur, verdict, strayed>>

StrayThrows ==
    \E s \in strays :
        /\ Fails(Op(s))
        /\ strays' = strays \ {s}
        /\ UNCHANGED <<steps, at, tries, cur, verdict, strayed>>
        /\ UNCHANGED pageVars
        /\ UNCHANGED deviceVars

ActionsProgress == Runs \/ Throws
ActionsNext ==
    Toggle \/ Scrolls \/ Runs \/ Throws \/ HardTimeout \/ StrayRuns \/ StrayThrows

ActionsFairness == WF_actionVars(ActionsProgress) /\ WF_actionVars(HardTimeout)

ActionsSpec == ActionsInit /\ [][ActionsNext]_actionVars /\ ActionsFairness

---------------------------------------------------------------------------
Idle == cur = NoAttempt /\ strays = {}
Writers == [type |-> Text, paste |-> Text, typeAndSelect |-> Text, clear |-> <<>>]
Sends == {i \in DOMAIN steps : steps[i] \in {"sendResult", "sendHtml"}}

ActionsTypeOK ==
    /\ at \in DOMAIN steps /\ tries \in 1 .. MaxTries
    /\ cur # NoAttempt => cur.kind = steps[at] /\ cur.pc \in DOMAIN Script(cur.kind)
    /\ \A s \in strays : s.step <= at /\ s.try <= MaxTries /\ s.pc \in DOMAIN Script(s.kind)
    /\ held \in 0 .. Len(steps) * MaxTries /\ keys \in 0 .. Len(steps) * MaxTries

\* Once no handler of the rule runs any more, the given-up ones included, no
\* mouse button and no key is left down: every handler that presses one has
\* nothing that can fail before it lets go, whatever the page does meanwhile.
NothingHeld == Idle => held = 0 /\ keys = 0

\* A rule that succeeded, failed attempts and a moving page included, and whose
\* handlers all ended before their steps did, left the field as its last writing
\* step says (nothing typed twice, nothing of an earlier step) and gave the
\* transport a row for each of its sends.
CleanRunIsExact ==
    verdict = "success" /\ ~strayed =>
       /\ rows >= Cardinality(Sends)
       /\ \A i \in DOMAIN steps :
            steps[i] \in DOMAIN Writers /\ (\A j \in DOMAIN steps : j > i => steps[j] \notin DOMAIN Writers)
            => field = Writers[steps[i]]

\* What the handlers do to devices, field and transport: types hold, nothing stays
\* pressed, and a run without strays did exactly what its steps say.
HandlersLeaveNothing ==
  /\ ActionsTypeOK
  /\ NothingHeld
  /\ CleanRunIsExact

=============================================================================
