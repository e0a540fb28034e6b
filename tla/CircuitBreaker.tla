---------------------------- MODULE CircuitBreaker ----------------------------
(***************************************************************************)
(* The circuit breaker of one endpoint.  A request passes allow, is served *)
(* by the rest of the middleware chain, and passes record with its status  *)
(* code; each of the two runs under the endpoint's mutex and is one step.  *)
(* Between them other requests come and go and the circuit may change      *)
(* state any number of times: record judges the circuit it finds, not the  *)
(* one that admitted the request.                                          *)
(*                                                                         *)
(* Time stamps are only compared: of the failures kept, in order, the      *)
(* oldest few are outside the window; openedAt is either openDuration ago  *)
(* or not yet.                                                             *)
(***************************************************************************)
EXTENDS Integers

CONSTANTS
  BreakerRequests,    \* concurrent requests to the endpoint
  Threshold    \* CircuitBreakerFailureThreshold; 0 would disable the breaker

ASSUME ThresholdAssumption == Threshold \in Nat \ {0}

VARIABLES
  state,     \* stateClosed, stateOpen or stateHalfOpen
  failures,  \* how many failures the slice holds
  stale,     \* how many of them are older than the window
  waited,    \* openDuration has passed since openedAt
  request    \* what each request is doing; a probe was admitted half-open

breakerVars == <<state, failures, stale, waited, request>>

\* Type invariant of the endpoint and its requests.
BreakerTypeOK ==
  /\ state \in {"closed", "open", "half_open"}
  /\ failures \in 0..Threshold
  /\ stale \in 0..failures
  /\ waited \in BOOLEAN
  /\ request \in [BreakerRequests -> {"idle", "serving", "probe"}]

BreakerInit ==
  /\ state = "closed"
  /\ failures = 0
  /\ stale = 0
  /\ waited = FALSE
  /\ request = [r \in BreakerRequests |-> "idle"]

-----------------------------------------------------------------------------
\* The window moves past the oldest failure that was still inside.
FailureGrowsStale ==
  /\ stale < failures
  /\ stale' = stale + 1
  /\ UNCHANGED <<state, failures, waited, request>>

OpenDurationPasses ==
  /\ state = "open"
  /\ ~waited
  /\ waited' = TRUE
  /\ UNCHANGED <<state, failures, stale, request>>

open ==
  /\ state' = "open"
  /\ waited' = FALSE

\* allow on a closed circuit: prune, then admit unless the threshold is reached.
AllowClosed(r) ==
  /\ request[r] = "idle"
  /\ state = "closed"
  /\ failures' = failures - stale
  /\ stale' = 0
  /\ IF failures' >= Threshold
     THEN open /\ UNCHANGED request
     ELSE request' = [request EXCEPT ![r] = "serving"] /\ UNCHANGED <<state, waited>>

\* allow on an open circuit whose time is up: half-open, and this request takes
\* the only probe in the same critical section.
AllowProbe(r) ==
  /\ request[r] = "idle"
  /\ state = "open"
  /\ waited
  /\ state' = "half_open"
  /\ request' = [request EXCEPT ![r] = "probe"]
  /\ UNCHANGED <<failures, stale, waited>>

\* allow in every other case: 503.
Refuse(r) ==
  /\ request[r] = "idle"
  /\ (state = "open" /\ ~waited) \/ state = "half_open"
  /\ UNCHANGED breakerVars

\* record of a failure on a closed circuit: append, prune, perhaps open.
RecordFailureClosed ==
  LET kept == failures + 1 - stale
  IN /\ failures' = kept
     /\ stale' = 0
     /\ IF kept >= Threshold THEN open ELSE UNCHANGED <<state, waited>>

\* A slip: the old failures are kept when the circuit closes.
RecordHalfOpenKeepsFailures(failure) ==
  /\ IF failure THEN open ELSE state' = "closed" /\ UNCHANGED waited
  /\ UNCHANGED <<failures, stale>>

\* record on a half-open circuit.
RecordHalfOpen(failure) ==
  IF failure
  THEN open /\ UNCHANGED <<failures, stale>>
  ELSE state' = "closed" /\ failures' = 0 /\ stale' = 0 /\ UNCHANGED waited

record(r, failure) ==
  /\ request[r] # "idle"
  /\ request' = [request EXCEPT ![r] = "idle"]
  /\ \/ state = "closed" /\ failure /\ RecordFailureClosed
     \/ state = "half_open" /\ RecordHalfOpen(failure)
     \/ /\ state = "open" \/ (state = "closed" /\ ~failure)
        /\ UNCHANGED <<state, failures, stale, waited>>

BreakerNext ==
  \/ FailureGrowsStale
  \/ OpenDurationPasses
  \/ \E r \in BreakerRequests :
       AllowClosed(r) \/ AllowProbe(r) \/ Refuse(r) \/ \E failure \in BOOLEAN : record(r, failure)

BreakerSpec == BreakerInit /\ [][BreakerNext]_breakerVars

-----------------------------------------------------------------------------
\* A half-open circuit refuses everything until some request is recorded, so its
\* probe must still be on the way: otherwise the endpoint would answer 503 for ever.
\* (The request timeout is inside the breaker and recovers panics, so that every
\* admitted request comes back and is recorded.)
\* It is so although a late answer to a request of an earlier closed period is taken
\* for the probe's, and a late probe may be recorded in a later period.
HalfOpenHasProbe == state = "half_open" => \E r \in BreakerRequests : request[r] = "probe"

\* A closed circuit holds fewer failures than open it, so that it never opens again on
\* failures that had already opened it before: the check in allow never fires.
ClosedBelowThreshold == state = "closed" => failures < Threshold

\* The endpoint's circuit: types hold, half-open always has its probe in flight, and
\* closed is always below the threshold.
BreakerIsSound ==
  /\ BreakerTypeOK
  /\ HalfOpenHasProbe
  /\ ClosedBelowThreshold

===============================================================================
