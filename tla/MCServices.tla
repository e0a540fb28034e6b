----------------------------- MODULE MCServices -----------------------------
(***************************************************************************)
(* Small instances of what runs beside the task store: the idempotency     *)
(* middleware (Idempotency) and the circuit breaker (CircuitBreaker) in    *)
(* front of the API, the userscript dispatcher (Dispatch), the browser     *)
(* worker host (Host) with its page channel (PageBridge), and the live     *)
(* qualification scripts (LiveSetup, LiveRun).  A behaviour is a behaviour *)
(* of one of the seven; the others stay in an initial or idle state.       *)
(***************************************************************************)
EXTENDS Idempotency, CircuitBreaker, Dispatch, Host, PageBridge, LiveRun, LiveSetup

CONSTANTS q1, q2, q3, q4, k1, b1, b2

VARIABLE service   \* which of the seven runs

-----------------------------------------------------------------------------
\* Three requests repeat one body, a fourth has another body under the same key.
Repeats == {q1, q2, q3, q4}
RepeatKey == [r \in Repeats |-> k1]
RepeatBody == [r \in Repeats |-> IF r = q4 THEN b2 ELSE b1]

SomeDispatchRules ==
  {<<"send", "send">>, <<"nav", "send">>, <<"send", "nav", "send">>}

SomeCases == <<"done", "failed">>

\* Not set, a comma, a name given twice and one followed by a comma among them.
SomeSelections ==
  {<<>>, <<"", "">>, <<"fixture-models">>, <<"fixture-intent", "bing-search-full">>,
   <<"baidu-search">>, <<"baidu-search", "baidu-search">>, <<"fixture-intent", "baidu-search">>,
   <<"books-category-matrix">>, <<"books-category-matrix", "">>, <<"books-category-matrix", "apple">>,
   <<"quotes-by-tag">>, <<"quotes-human-choose-requirement">>, <<"typo">>}

-----------------------------------------------------------------------------
Services == {"idempotency", "breaker", "dispatch", "host", "bridge", "run", "setup"}

ServicesInit ==
  /\ service \in Services
  /\ Init /\ BreakerInit /\ DispatchInit /\ HostInit
  /\ service # "dispatch" => recipe = <<"send", "send">> /\ lineage
  /\ IF service = "bridge" THEN BridgeInit ELSE BridgeRest
  /\ IF service = "run" THEN LiveInit ELSE LiveRest
  /\ IF service = "setup" THEN SetupInit ELSE SetupRest

OfIdempotency == service = "idempotency" /\ UNCHANGED <<service, breakerVars, dispatchVars, hostVars, bridgeVars, liveVars, setupVars>>
OfBreaker     == service = "breaker"     /\ UNCHANGED <<service, vars, dispatchVars, hostVars, bridgeVars, liveVars, setupVars>>
OfDispatch    == service = "dispatch"    /\ UNCHANGED <<service, vars, breakerVars, hostVars, bridgeVars, liveVars, setupVars>>
OfHost        == service = "host"        /\ UNCHANGED <<service, vars, breakerVars, dispatchVars, bridgeVars, liveVars, setupVars>>
OfBridge      == service = "bridge"      /\ UNCHANGED <<service, vars, breakerVars, dispatchVars, hostVars, liveVars, setupVars>>
OfRun         == service = "run"         /\ UNCHANGED <<service, vars, breakerVars, dispatchVars, hostVars, bridgeVars, setupVars>>
OfSetup       == service = "setup"       /\ UNCHANGED <<service, vars, breakerVars, dispatchVars, hostVars, bridgeVars, liveVars>>

ServicesNext ==
  \/ OfIdempotency /\ Next
  \/ OfBreaker     /\ BreakerNext
  \/ OfDispatch    /\ DispatchNext
  \/ OfHost        /\ HostNext
  \/ OfBridge      /\ BridgeNext
  \/ OfRun         /\ LiveNext
  \/ OfSetup       /\ SetupNext

servicesVars == <<service, vars, breakerVars, dispatchVars, hostVars, bridgeVars, liveVars, setupVars>>

\* The fairness of each part (FairSpec, DispatchFairness, HostFairness, BridgeSpec,
\* LiveFairness, SetupSpec).  service never changes, so fairness of a disjunction of which
\* each part has one disjunct is fairness of that disjunct.
ServicesSpec ==
  /\ ServicesInit /\ [][ServicesNext]_servicesVars
  /\ WF_servicesVars(\/ OfIdempotency /\ Serve(q1)
                     \/ OfDispatch /\ \E d \in Dispatchers : Dispatching(d)
                     \/ OfHost /\ HostSteps
                     \/ OfBridge /\ CallStep(1)
                     \/ OfRun /\ Driver
                     \/ OfSetup /\ SetupNext)
  /\ WF_servicesVars(\/ OfIdempotency /\ Serve(q2)
                     \/ OfDispatch /\ LeaseLapses
                     \/ OfHost /\ ForceExit
                     \/ OfBridge /\ CallStep(2))
  /\ WF_servicesVars(\/ OfIdempotency /\ Serve(q3)
                     \/ OfDispatch /\ Executing(1)
                     \/ OfHost /\ Work(1)
                     \/ OfBridge /\ CallStep(3))
  /\ WF_servicesVars(\/ OfIdempotency /\ Serve(q4)
                     \/ OfDispatch /\ Executing(2)
                     \/ OfHost /\ Work(2))

-----------------------------------------------------------------------------
\* Whatever is begun comes to an end.  Every request that waits for the mutex of its key
\* and body is answered; a task comes to an end whatever became of its tabs, for the
\* dispatcher does not wait for ever for a task it has lost; a worker that took up a task,
\* met a failing server or waits for a person comes back to claim (unless its browser hung),
\* and after a signal the host exits though a run or a browser never answers host.stop();
\* every call of the page is answered, though flushes wait for each other; the live
\* scripts come to their exit.
EverythingEnds ==
  (\/ service = "idempotency" /\ \E r \in Requests : pc[r] \notin {"new", "done"}
   \/ service = "dispatch"    /\ task.status \notin Ended
   \/ service = "host"        /\ (sig.phase # "no" \/ slot[1].pc \notin {"off", "claim"})
   \/ service = "bridge"      /\ calls # <<>>
   \/ service = "run"         /\ drv.pc # "end"
   \/ service = "setup"       /\ stage \notin {"exit0", "exit1"})
  ~>
  (\/ service = "idempotency" /\ \A r \in Requests : pc[r] \in {"new", "done"}
   \/ service = "dispatch"    /\ task.status \in Ended
   \/ service = "host"        /\ (~Alive \/ (sig.phase = "no" /\ slot[1].pc \in {"claim", "stuck"}))
   \/ service = "bridge"      /\ \A i \in DOMAIN calls : CallAt(i, {"returned", "threw", "rejected"})
   \/ service = "run"         /\ drv.pc = "end"
   \/ service = "setup"       /\ stage \in {"exit0", "exit1"})
=============================================================================
