------------------------------ MODULE LiveSetup ------------------------------
(***************************************************************************)
(* main() of scripts/live-workflow-test.ts: the environment variables of a *)
(* live qualification are checked by several validators                    *)
(* (human-demonstration.ts, dedicated-profile.ts, books-category-matrix    *)
(* .ts), the environment is booted, a record-only preflight or the         *)
(* selected scenarios run, and everything is shut down.  What a scenario   *)
(* does is LiveRun's; here it passes, fails or throws.                     *)
(***************************************************************************)
EXTENDS Naturals, Sequences, FiniteSets, SequencesExt

CONSTANTS Selections,  \* what AEGIS_LIVE_WORKFLOW_SCENARIOS may be: the names between
                       \* its commas, "" where there is none; <<>> when it is not set
          Flags        \* the other switches a user may set

ASSUME SetupAssumption == \A asked \in Selections : asked \in Seq(STRING)

Baidu == "baidu-search"
Books == "books-category-matrix"
Fixtures == {"fixture-candidates", "fixture-intent", "fixture-models"}
HumanRequirement == {"quotes-human-choose-requirement", "quotes-human-input-requirement"}
Quotes == {"quotes-by-tag", "quotes-one-page", "quotes-renamed-contract",
           "quotes-output-projection"} \cup HumanRequirement
RealSites == {"apple", "mdn-css-grid", "iana-link-roundtrip", Baidu, "bing-search-full",
              "bing-footer-link-roundtrip", "bing-search-readonly", Books, "scrape-site-hockey",
              "rfc-editor-section-readonly", "duckduckgo-search-readonly",
              "sqlite-docs-roundtrip"} \cup Quotes
KnownScenarios == Fixtures \cup RealSites

VARIABLES opts,    \* what the user asked for, and the selection made of it
          stage,   \* where main() is
          held,    \* what it has open
          reports, \* one report per scenario that ran
          traces   \* what was loaded, saved and shown to a person

setupVars == <<opts, stage, held, reports, traces>>

On(o, flag) == flag \in o.flags
Single(o, name) == o.selection = <<name>>
Selects(o, names) == \E i \in DOMAIN o.selection : o.selection[i] \in names
-----------------------------------------------------------------------------
\* Blank names are dropped, and each name is kept once, at its first place.  A list of
\* commas alone selects nothing.
ParseScenarioSelection(asked) ==
  LET kept == {i \in DOMAIN asked : asked[i] # "" /\ \A j \in 1..i - 1 : asked[j] # asked[i]}
      nth(k) == CHOOSE i \in kept : Cardinality({j \in kept : j < i}) = k - 1
  IN IF asked = <<>> THEN <<"fixture-candidates", "fixture-models">>
     ELSE [k \in 1..Cardinality(kept) |-> asked[nth(k)]]
KnowsScenarios(o) == \A i \in DOMAIN o.selection : o.selection[i] \in KnownScenarios

\* The token limits and the provider's URL it checks too are no switches: see CheckOptions.
AssertBooksQualificationEnvironment(o) ==
  Selects(o, {Books}) =>
    /\ o.asked = <<Books>> /\ o.profile = "none"
    /\ \A flag \in {"humanDemo", "humanRequirement", "headed", "warmup", "profileApproved", "reuse"} :
         ~On(o, flag)
    /\ On(o, "recordOnly") \/ ~On(o, "save")

ValidateReusableRecordingConfiguration(o) ==
  LET save == On(o, "save") reuse == On(o, "reuse") books == Single(o, Books) IN
  /\ ~(save /\ reuse)
  /\ (save \/ reuse) => \E s \in {Baidu, Books} \cup Quotes : Single(o, s)
  /\ (save /\ books) => On(o, "recordOnly") /\ ~On(o, "humanDemo")
  /\ (save /\ ~books) => On(o, "humanDemo") /\ ~On(o, "recordOnly")
  /\ reuse => ~books
  /\ (books /\ (save \/ reuse)) => ~On(o, "warmup") /\ ~On(o, "headed")
  /\ reuse => ~On(o, "humanDemo") /\ ~On(o, "recordOnly")
  /\ (reuse /\ On(o, "warmup")) => On(o, "headed") /\ Single(o, Baidu)

ValidateHumanDemoConfiguration(o) ==
  /\ Selects(o, Quotes) => On(o, "humanDemo") \/ On(o, "reuse")
  /\ On(o, "humanDemo") => On(o, "headed") /\ Len(o.selection) = 1

ValidateHumanRequirementConfiguration(o) ==
  /\ Selects(o, HumanRequirement) => On(o, "humanRequirement")
  /\ On(o, "humanRequirement") =>
       On(o, "headed") /\ \E s \in HumanRequirement : Single(o, s)

ValidateRecordOnlyConfiguration(o) ==
  On(o, "recordOnly") =>
    /\ On(o, "recordOnlyApproved")
    /\ Single(o, Baidu) \/ Single(o, Books)
    /\ Single(o, Baidu) => On(o, "humanDemo")
    /\ Single(o, Books) => ~On(o, "humanDemo")

\* resolveDedicatedProfile: whether it does not throw; and whether the persistent profile
\* is used.  It has one name, and any other is refused.
ResolveDedicatedProfile(o) ==
  IF o.profile = "none"
  THEN ~On(o, "warmup") /\ ~(Single(o, Baidu) /\ (On(o, "save") \/ On(o, "reuse")))
  ELSE /\ o.profile = "baidu-qualification" /\ On(o, "profileApproved")
       /\ On(o, "reuse") \/ (On(o, "headed") /\ On(o, "humanDemo"))
       /\ Single(o, Baidu)
Dedicated(o) == o.profile # "none"

Valid(o) ==
  /\ KnowsScenarios(o)
  /\ AssertBooksQualificationEnvironment(o)
  /\ ValidateReusableRecordingConfiguration(o)
  /\ ValidateHumanDemoConfiguration(o)
  /\ ValidateHumanRequirementConfiguration(o)
  /\ ValidateRecordOnlyConfiguration(o)
  /\ ResolveDedicatedProfile(o)
-----------------------------------------------------------------------------
Goes(s) == stage' = s
Remember(what) == traces' = traces \cup what

\* Every validator throws before anything is opened.
CheckOptions ==
  /\ stage = "options"
  /\ \/ Valid(opts) /\ Goes("load")
     \/ /\ ~Valid(opts) \/ Selects(opts, {Books})
        /\ Goes("exit1")
  /\ UNCHANGED <<opts, held, reports, traces>>

\* "Paid configuration is never parsed or loaded during the free preflight."
LoadsProvider(o) == ~On(o, "recordOnly")

\* The budget of a real site, the recording to be used again and the provider, in this
\* order; each may be missing.
Load ==
  LET recording == IF On(opts, "reuse") THEN {"restored"} ELSE {}
  IN /\ stage = "load"
     /\ \/ /\ Goes("shop")
           /\ Remember(recording \cup (IF LoadsProvider(opts) THEN {"provider"} ELSE {}))
        \/ /\ Selects(opts, RealSites) \/ On(opts, "reuse")
           /\ Goes("exit1") /\ UNCHANGED traces
        \/ /\ LoadsProvider(opts)
           /\ Goes("exit1") /\ Remember(recording)
     /\ UNCHANGED <<opts, held, reports>>

\* The fixtures' server, and then the registry, which narrows the budget of real sites for
\* each of them.  The server is in this process and ends with it.
StartShop ==
  /\ stage = "shop"
  /\ \/ /\ Goes("boot")
        /\ held' = held \cup (IF Selects(opts, Fixtures) THEN {"shop"} ELSE {})
     \/ Goes("exit1") /\ UNCHANGED held
  /\ UNCHANGED <<opts, reports, traces>>

\* The profile of a run that has none of its own is a directory made for it.
Temporary == IF Dedicated(opts) THEN {} ELSE {"directory"}

\* A failed boot has cleaned up after itself (BootLiveEnvironment of LiveRun), unless the
\* directory of the profile cannot be removed.
BootAll ==
  /\ stage = "boot"
  /\ \/ /\ held' = held \cup {"server", "browser"} \cup Temporary
        /\ Goes(IF On(opts, "warmup") THEN "warmup"
                ELSE IF On(opts, "recordOnly") THEN "preflight" ELSE "scenario")
     \/ Goes("finally") /\ \E left \in SUBSET Temporary : held' = held \cup left
  /\ UNCHANGED <<opts, reports, traces>>

\* Who is waited for at the terminal: a person who can see the browser, or nobody.
Waited == IF On(opts, "headed") THEN {"person"} ELSE {"nobody"}

\* warmUpDedicatedBaiduProfile waits, and then looks at what it waited for.
WarmUp ==
  /\ stage = "warmup"
  /\ \/ Goes(IF On(opts, "recordOnly") THEN "preflight" ELSE "scenario") /\ Remember(Waited)
     \/ Goes("finally") /\ (UNCHANGED traces \/ Remember(Waited))
  /\ UNCHANGED <<opts, held, reports>>

\* A demonstration by a person, and a requirement a person completes.
Demonstrated == IF On(opts, "humanDemo") THEN Waited ELSE {}
Completed == IF Selects(opts, HumanRequirement) THEN Waited ELSE {}

\* runRecordOnlyPreflight: what was captured is forecast and judged.  Only that of Books
\* is then kept, if that was asked for, and is read again: then it may fail, too.
RunRecordOnlyPreflight ==
  LET kept == IF On(opts, "save") /\ Single(opts, Books) THEN {"scripted"} ELSE {}
  IN /\ stage = "preflight"
     /\ \/ Goes("return") /\ Remember({"preflight"} \cup kept \cup Demonstrated)
        \/ Goes("finally") /\ (UNCHANGED traces \/ Remember(Demonstrated) \/ Remember(kept \cup Demonstrated))
     /\ UNCHANGED <<opts, held, reports>>

\* The loop over the selection.  A failed scenario never aborts the rest, unless it cannot
\* even be reported.  What it captured, if it is not given one, is kept when that is asked
\* for; requirement and tasks come after.
RunScenario ==
  LET captured == IF On(opts, "reuse") THEN {} ELSE Demonstrated
      kept == IF On(opts, "save") /\ ~On(opts, "reuse") THEN {"human"} ELSE {}
  IN /\ stage = "scenario"
     /\ \/ /\ Len(reports) < Len(opts.selection)
           /\ \/ /\ reports' = Append(reports, "passed") /\ UNCHANGED stage
                 /\ Remember(captured \cup kept \cup Completed)
              \/ /\ \E done \in {{}, captured, captured \cup kept, captured \cup kept \cup Completed} :
                      Remember(done)
                 /\ \/ reports' = Append(reports, "failed") /\ UNCHANGED stage
                    \/ UNCHANGED reports /\ Goes("finally")
        \/ Len(reports) = Len(opts.selection) /\ Goes("judged") /\ UNCHANGED <<reports, traces>>
     /\ UNCHANGED <<opts, held>>

\* The finally: the environment, if there is one, then the shop.  Where the directory
\* of a profile cannot be removed main() throws, and what is left of the process ends.
Finally ==
  /\ stage \in {"finally", "return", "judged"}
  /\ \/ /\ held' = held \ (IF "server" \in held THEN {"server", "browser", "directory", "shop"} ELSE {"shop"})
        /\ Goes(CASE stage = "finally" -> "exit1"
                  [] stage = "return" -> "exit0"
                  [] OTHER -> "count")
     \/ /\ {"server", "directory"} \subseteq held
        /\ held' = {"directory"} /\ Goes("exit1")
  /\ UNCHANGED <<opts, reports, traces>>

\* A slip: the last report decides.
SomeFailedLast(rs) == rs[Len(rs)] # "passed"
SomeFailed(rs) == \E i \in DOMAIN rs : rs[i] # "passed"

CountReports ==
  /\ stage = "count"
  /\ Goes(IF reports = <<>> \/ SomeFailed(reports) THEN "exit1" ELSE "exit0")
  /\ UNCHANGED <<opts, held, reports, traces>>

Options(asked, profile, flags) ==
  [asked |-> asked, selection |-> ParseScenarioSelection(asked), profile |-> profile, flags |-> flags]

SetupRest ==
  /\ opts = Options(<<>>, "none", {})
  /\ stage = "idle" /\ held = {} /\ reports = <<>> /\ traces = {}

SetupInit ==
  /\ \E asked \in Selections, profile \in {"none", "baidu-qualification", "other"},
       flags \in SUBSET Flags :
       opts = Options(asked, profile, flags)
  /\ stage = "options" /\ held = {} /\ reports = <<>> /\ traces = {}

SetupNext == \/ CheckOptions \/ Load \/ StartShop \/ BootAll \/ WarmUp
             \/ RunRecordOnlyPreflight \/ RunScenario \/ Finally \/ CountReports

SetupSpec == SetupInit /\ [][SetupNext]_setupVars /\ WF_setupVars(SetupNext)
-----------------------------------------------------------------------------
\* Types of main()'s state.
SetupTypeOK ==
  /\ held \subseteq {"shop", "server", "browser", "directory"}
  /\ traces \subseteq {"provider", "restored", "person", "nobody", "preflight", "scripted", "human"}
  /\ Len(reports) <= Len(opts.selection)
  /\ stage \in {"idle", "options", "load", "shop", "boot", "warmup", "preflight", "scenario",
                "finally", "return", "judged", "count", "exit0", "exit1"}

\* No combination of switches gets past the validators together: whoever is waited for can
\* see the browser, the persistent profile belongs to one approved Baidu run, and a run
\* with more than one scenario has nobody at it.
PersonalRunsAreAlone ==
  stage \notin {"idle", "options", "exit1"} =>
    /\ "nobody" \notin traces
    /\ On(opts, "warmup") => On(opts, "headed") /\ Dedicated(opts)
    /\ Dedicated(opts) => Single(opts, Baidu) /\ On(opts, "profileApproved")
    /\ Len(opts.selection) > 1 =>
         /\ "person" \notin traces
         /\ \A flag \in {"humanDemo", "humanRequirement", "recordOnly", "save", "reuse"} :
              ~On(opts, flag)

\* "no LLM request was made": a record-only run never reads the provider's
\* credentials and never starts a scenario.
PreflightIsFree == On(opts, "recordOnly") => reports = <<>> /\ "provider" \notin traces

\* What is kept for later runs was recorded by a person in a visible browser
\* of a paid run, or is the scripted Books recording of a free one; and no recording
\* that was used again is overwritten.
SavedAsReviewed ==
  /\ "human" \in traces => /\ "person" \in traces /\ On(opts, "humanDemo") /\ On(opts, "headed")
                           /\ ~On(opts, "recordOnly")
                           /\ Single(opts, Baidu) => Dedicated(opts)
  /\ "scripted" \in traces => ~On(opts, "humanDemo") /\ {"provider", "person"} \cap traces = {}
  /\ "restored" \in traces => {"human", "scripted"} \cap traces = {}

\* The exit code tells the truth: 0 only when every selected scenario ran and
\* passed or the preflight did; and at the exit nothing is left open, at 1 not more than
\* the directory of a profile.
ExitIsHonest ==
  /\ stage = "exit0" => /\ held = {}
                        /\ \/ "preflight" \in traces
                           \/ reports = [i \in DOMAIN opts.selection |-> "passed"]
  /\ stage = "exit1" => held \subseteq {"directory"}

\* The options and the exit of the live workflow: types hold, personal profiles are
\* used alone, the preflight is free, what is kept was reviewed, the exit code tells.
SetupIsHonest ==
  /\ SetupTypeOK
  /\ PersonalRunsAreAlone
  /\ PreflightIsFree
  /\ SavedAsReviewed
  /\ ExitIsHonest

=============================================================================
