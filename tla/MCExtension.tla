----------------------------- MODULE MCExtension -----------------------------
(***************************************************************************)
(* Small instances of the extension's service worker: recordings that move  *)
(* with their user (Recorder) and replays that survive navigations and the  *)
(* service worker's death (ReplaySession).  A behaviour is a behaviour of   *)
(* one of the two, the other being at rest.  A plan bounds the outside      *)
(* events of one kind of trouble.                                           *)
(***************************************************************************)
EXTENDS Recorder, ReplaySession

CONSTANTS t1, t2, oA, oB

VARIABLE half    \* "record" or "replay": what is at work

-----------------------------------------------------------------------------
Plan(ks) == [k \in PlanKeys |-> Cardinality({i \in DOMAIN ks : ks[i] = k})]

SomePlans ==
  { Plan(<<"start", "stop", "act", "nav", "nav", "slow">>),
    Plan(<<"start", "stop", "act", "act", "nav", "limit">>),
    Plan(<<"start", "stop", "act", "tab", "tab", "tab">>),
    Plan(<<"start", "stop", "act", "tab", "tab", "close">>),
    Plan(<<"start", "act", "nav", "nav", "ready", "stop">>),
    Plan(<<"start", "stop", "start", "nav", "crash">>),
    Plan(<<"start", "nav", "nav", "nav", "start", "stop">>),
    Plan(<<"start", "hud", "stop", "act", "tab", "tab">>),
    Plan(<<"start", "ready", "act", "tab", "tab">>) }

ReplayPlan(n, ks) == [k \in ReplayPlanKeys |-> IF k = "start" THEN n ELSE IF k \in ks THEN 1 ELSE 0]

SomeReplayPlans ==
  { ReplayPlan(1, {"crash", "wizard"}), ReplayPlan(1, {"crash", "close"}),
    ReplayPlan(1, {"crash", "stray"}), ReplayPlan(1, {"wizard", "beat", "fail"}),
    ReplayPlan(1, {"wizard", "close", "alarm"}), ReplayPlan(1, {"stray", "cancel", "beat"}),
    ReplayPlan(1, {"cancel", "wizard"}), ReplayPlan(2, {"cancel"}), ReplayPlan(2, {"fail"}),
    ReplayPlan(2, {"close"}), ReplayPlan(1, {"crash", "ttl"}) }

AllPlans == SomePlans \cup {Plan(<<>>)}
AllReplayPlans == SomeReplayPlans \cup {ReplayPlan(0, {})}

\* At rest a half is in its initial state with nothing planned.
ExtensionInit ==
  /\ half \in {"record", "replay"}
  /\ Init /\ ReplayInit
  /\ half = "replay" <=> left = Plan(<<>>)
  /\ half = "record" <=> replayLeft = ReplayPlan(0, {})

OfRecorder == half = "record" /\ UNCHANGED <<half, replayVars>>
OfReplay   == half = "replay" /\ UNCHANGED <<half, vars>>

ExtensionNext ==
  \/ OfRecorder /\ Next
  \/ OfReplay   /\ ReplayNext

extensionVars == <<half, vars, replayVars>>

\* Recorder: the service worker runs the messages it has, a page finishes a drain, and
\* the drain's timer fires for a handler that would otherwise wait for itself.
\* ReplaySession: handlers, the page's callbacks and the runner make progress, documents
\* load, and an armed alarm fires in the end.  The user and crashes are not obliged to
\* anything.  half never changes, so fairness of a disjunction of which each half has
\* one disjunct is fairness of that disjunct.
ExtensionSpec ==
  /\ ExtensionInit /\ [][ExtensionNext]_extensionVars
  /\ WF_extensionVars((OfRecorder /\ ServiceWorker) \/ (OfReplay /\ ReplayWorker))
  /\ WF_extensionVars((OfRecorder /\ \E slot \in Slots : StopTimeout(slot)) \/ (OfReplay /\ Page))
  /\ WF_extensionVars((OfRecorder /\ \E t \in Tabs : FinalizeStop(t)) \/ (OfReplay /\ \E n \in Tasks : Runner(n)))
  /\ WF_extensionVars((OfRecorder /\ \E t \in Tabs : TabLoaded(t)) \/ (OfReplay /\ \E n \in Tasks : ReplayTabLoaded(n)))
  /\ WF_extensionVars(OfReplay /\ \E n \in Tasks : LateAlarm(n))

-----------------------------------------------------------------------------
\* A stop of the recording that was asked for.
StopPending ==
  \/ \E s \in Slots : jobs[s].kind \in {"stop", "hud"}
  \/ \E i \in 1..Len(queue) : queue[i].kind = "stop"

\* A replay whose session is stored, or an attempt without a verdict; with two replays at
\* once, or a handler that outlived its replay, the session is another's, and after any
\* mishap the page that would ask for the verdict may be gone.
ReplayPending ==
  \/ ss.ses.task # 0 /\ replayMishaps \cap {"late", "overlap"} = {}
  \/ replayMishaps = {} /\ \E a \in Tasks : srv[a].status = "running"

\* A stop that was asked for is answered, also when the page it drains waits for the
\* promise chain the stop itself holds; and a replay session does not stay in storage, its
\* runner or a watchdog ends it, restarts included, nor an attempt without its verdict.
StopsAndSessionsEnd ==
  (\/ half = "record" /\ StopPending
   \/ half = "replay" /\ ReplayPending)
  ~>
  (\/ half = "record" /\ ~StopPending
   \/ half = "replay" /\ ~ReplayPending)
=============================================================================
