----------------------------- MODULE PageBridge -----------------------------
(***************************************************************************)
(* The one channel from the page of a browser worker to its host, and the  *)
(* transport behind it.  bridge-protocol.ts checks every call the page     *)
(* makes; page-driver.ts forwards the sound ones to HttpTransport.ts,      *)
(* whose logs and statuses go through a buffer of undelivered entries that *)
(* a promise chain (withFlushLock) guards.  Calls of parallel branches     *)
(* overlap; the server is busy, refuses, or loses an answer; the run ends  *)
(* and is aborted meanwhile.                                               *)
(*                                                                         *)
(* A payload is a function from field names to classes of values: "text",  *)
(* "empty", "long" (a string past its budget), "number", "object",         *)
(* "absent", and "known" for a value out of a closed list.                 *)
(***************************************************************************)
EXTENDS Naturals, Sequences, FiniteSets, SequencesExt

CONSTANTS Capacity,       \* entries the buffer holds
          MaxSends,       \* maxAttempts of one entry
          MaxBridgeCalls, \* bound: calls of the page
          MaxBusy         \* bound: requests that go wrong

\* bufferCapacity and maxAttempts are 100 and 3 unless a caller gives others; none gives 0.
ASSUME PageBridgeAssumption ==
  Capacity \in Nat \ {0} /\ MaxSends \in Nat \ {0} /\ MaxBridgeCalls \in Nat /\ MaxBusy \in Nat

VARIABLES calls,     \* the calls the page made, in order
          buffer,    \* undelivered entries (calls, by number), oldest first
          chain,     \* flushMutex: the calls waiting for it, holder first
          settled,   \* the run has its result
          aborted,   \* the task's signal
          busy,      \* requests gone wrong so far
          reached    \* per call: how often the server took it, and how it was lost

bridgeVars == <<calls, buffer, chain, settled, aborted, busy, reached>>
-----------------------------------------------------------------------------
Classes == {"text", "empty", "long", "number", "object", "absent", "known"}

RequireString(v)   == v \in {"text", "empty", "known"}
NonEmptyString(v)  == v \in {"text", "known"}
OptionalString(v)  == v = "absent" \/ RequireString(v)
RequireRecord(v)   == v = "object"
OptionalRecord(v)  == v = "absent" \/ RequireRecord(v)

ValidateSendResult(p)    == TRUE
ValidateSendLog(p)       == NonEmptyString(p.level) /\ RequireString(p.message)
                            /\ OptionalRecord(p.extra)
ValidateSendStatus(p)    == NonEmptyString(p.status) /\ OptionalString(p.message)
ValidateSendSnapshot(p)  == NonEmptyString(p.name) /\ p.type = "known"
                            /\ RequireString(p.data)
ValidateSendHeartbeat(p) == OptionalRecord(p.payload)
ValidateRequestHuman(p)  == /\ p.type = "known" /\ NonEmptyString(p.prompt)
                            /\ p.timeoutMs = "number"
                            /\ NonEmptyString(p.stepId) /\ NonEmptyString(p.url)
ValidateCheckpointContext(p) ==
  /\ NonEmptyString(p.taskId) /\ p.path = "known"
  /\ \A f \in {"extracted", "evaluated", "captured"} : OptionalRecord(p[f])
ValidateComplete(p) ==
  /\ p.status = "known" /\ OptionalString(p.message) /\ OptionalRecord(p.error)

\* The fields of each method's payload with a sound value for each.
BridgeMethods ==
  [sendResult    |-> [payload |-> "object"],
   sendLog       |-> [level |-> "text", message |-> "text", extra |-> "absent"],
   sendStatus    |-> [status |-> "text", message |-> "absent"],
   sendSnapshot  |-> [name |-> "text", type |-> "known", data |-> "text"],
   sendHeartbeat |-> [payload |-> "absent"],
   requestHuman  |-> [type |-> "known", prompt |-> "text", timeoutMs |-> "number",
                      stepId |-> "text", url |-> "text"],
   checkpointContext |-> [taskId |-> "text", path |-> "known", extracted |-> "object",
                          evaluated |-> "absent", captured |-> "absent"],
   complete      |-> [status |-> "known", message |-> "absent", error |-> "absent"]]

Validators(m, p) ==
  CASE m = "sendResult"        -> ValidateSendResult(p)
    [] m = "sendLog"           -> ValidateSendLog(p)
    [] m = "sendStatus"        -> ValidateSendStatus(p)
    [] m = "sendSnapshot"      -> ValidateSendSnapshot(p)
    [] m = "sendHeartbeat"     -> ValidateSendHeartbeat(p)
    [] m = "requestHuman"      -> ValidateRequestHuman(p)
    [] m = "checkpointContext" -> ValidateCheckpointContext(p)
    [] m = "complete"          -> ValidateComplete(p)

\* What the page may call: any method, or a name of its own; a payload that
\* is no record, that cannot be serialised, that is too large, or that is
\* sound but for one field.
RawCalls ==
  (UNION {{[method |-> m, payload |-> [BridgeMethods[m] EXCEPT ![f] = c], size |-> "fits"] :
             f \in DOMAIN BridgeMethods[m], c \in Classes} : m \in DOMAIN BridgeMethods})
  \cup {[method |-> m, payload |-> BridgeMethods[m], size |-> s] :
          m \in DOMAIN BridgeMethods, s \in {"large", "cyclic", "noRecord"}}
  \cup {[method |-> "__proto__", payload |-> BridgeMethods["complete"], size |-> "fits"]}

ValidateBridgeCall(c) ==
  /\ c.method \in DOMAIN BridgeMethods
  /\ c.size \notin {"large", "cyclic"}
  /\ c.size = "noRecord" => c.method = "sendHeartbeat"
  /\ Validators(c.method, c.payload)
-----------------------------------------------------------------------------
CallAt(i, pcs) == i \in DOMAIN calls /\ calls[i].pc \in pcs

\* Where the forwarding of a sound call starts.  Results, interventions and
\* checkpoints are not this module's (they return at once here); logs and
\* statuses begin with a flush of the buffer.
\* A status is an entry too, but for those of a versioned attempt: a terminal
\* one is sent at once and not buffered, and runRule's own ends are dropped.
Kinds(m) == CASE m = "sendLog" -> {"entry"}
              [] m = "sendStatus" -> {"entry", "terminal", "other"}
              [] m = "sendSnapshot" -> {"snapshot"}
              [] m = "sendHeartbeat" -> {"heartbeat"}
              [] OTHER -> {"other"}
FirstStep(kind) == CASE kind = "entry" -> "flush"
                     [] kind \in {"terminal", "snapshot", "heartbeat"} -> "send"
                     [] OTHER -> "returned"

\* What a reader of the types takes for sound, field by field.
Expected(f) == CASE f \in {"level", "status", "name", "prompt", "stepId", "url", "taskId"} ->
                      {"text", "known"}
                 [] f \in {"type", "path"} -> {"known"}
                 [] f = "timeoutMs" -> {"number"}
                 [] f \in {"extra", "extracted", "evaluated", "captured", "error"} ->
                      {"absent", "object"}
                 [] f \in {"message", "data"} -> {"absent", "text", "empty", "known"}
                 [] f = "payload" -> Classes

\* bridgeHandler: the call is checked, refused when the run is over, and
\* forwarded.
BridgeHandler ==
  /\ Len(calls) < MaxBridgeCalls
  /\ \E c \in RawCalls : \E kind \in Kinds(c.method) :
       LET refused == \/ ~ValidateBridgeCall(c)
                      \/ settled /\ c.method # "complete"
           pc == IF refused THEN "rejected" ELSE FirstStep(kind)
       IN  /\ calls' = Append(calls,
                 [kind |-> IF refused THEN "other" ELSE kind, pc |-> pc, sends |-> 0,
                  sound |-> \/ refused
                            \/ /\ c.method \in DOMAIN BridgeMethods
                               /\ \A f \in DOMAIN c.payload : c.payload[f] \in Expected(f)])
           /\ settled' = (settled \/ (~refused /\ c.method = "complete"))
           /\ chain' = IF pc = "flush" THEN Append(chain, Len(calls) + 1) ELSE chain
           /\ reached' = Append(reached, [taken |-> 0, lost |-> 0, fate |-> "open"])
  /\ UNCHANGED <<buffer, aborted, busy>>

\* One request that carries call i, and its answer: taken, taken but the
\* answer is lost, a busy server (5xx or no connection), a refusal (4xx), or
\* the abort of the task.  `dropped`: this answer is the end of the call.
Request(i, answer, dropped) ==
  /\ (answer = "abort") = aborted
  /\ answer \in {"lost", "busy", "refused"} => busy < MaxBusy
  /\ busy' = busy + (IF answer \in {"lost", "busy", "refused"} THEN 1 ELSE 0)
  /\ reached' = [reached EXCEPT ![i] =
                   [taken |-> @.taken + (IF answer \in {"ok", "lost"} THEN 1 ELSE 0),
                    lost  |-> @.lost + (IF answer = "lost" THEN 1 ELSE 0),
                    fate  |-> IF dropped THEN answer ELSE @.fate]]

\* sendWithRetry: whether this answer is followed by another attempt.
Retries(i, answer) == answer \in {"lost", "busy"} /\ calls[i].sends + 1 < MaxSends

\* A slip: whoever comes first flushes.
HoldsLockAlways(i) == TRUE

\* withFlushLock: the turns of the promise chain.
HoldsLock(i) == Head(chain) = i

\* The holder's turn is over.
Released == Tail(chain)

\* flushBuffer: the oldest entry is sent, with retries; it leaves the buffer
\* once the send is over, and a failed send ends the flush.
FlushSend(i) ==
  /\ CallAt(i, {"flush", "reflush"}) /\ HoldsLock(i) /\ buffer # <<>>
  /\ \E answer \in {"ok", "lost", "busy", "refused", "abort"} :
       /\ Request(Head(buffer), answer, FALSE)
       /\ \/ /\ answer = "ok"
             /\ calls' = [calls EXCEPT ![i].sends = 0,
                             ![i].pc = IF @ = "flush" THEN "shift" ELSE "reshift"]
             /\ UNCHANGED chain
          \/ /\ Retries(i, answer)
             /\ calls' = [calls EXCEPT ![i].sends = @ + 1]
             /\ UNCHANGED chain
          \/ /\ answer # "ok" /\ ~Retries(i, answer)
             /\ calls' = [calls EXCEPT ![i].sends = 0,
                             ![i].pc = IF @ = "flush" THEN "send" ELSE "returned"]
             /\ chain' = Released
  /\ UNCHANGED <<buffer, settled, aborted>>

FlushShift(i) ==
  /\ CallAt(i, {"shift", "reshift"})
  /\ buffer' = IF buffer = <<>> THEN <<>> ELSE Tail(buffer)
  /\ calls' = [calls EXCEPT ![i].pc = IF @ = "shift" THEN "flush" ELSE "reflush"]
  /\ UNCHANGED <<chain, settled, aborted, busy, reached>>

FlushEnds(i) ==
  /\ CallAt(i, {"flush", "reflush"}) /\ HoldsLock(i) /\ buffer = <<>>
  /\ calls' = [calls EXCEPT ![i].pc = IF @ = "flush" THEN "send" ELSE "returned"]
  /\ chain' = Released
  /\ UNCHANGED <<buffer, settled, aborted, busy, reached>>

\* postWithRetry after its first flush: a log or a status is sent, and
\* queued for the buffer when the server was busy to the end; the rest is
\* dropped, an abort in silence.
Send(i) ==
  /\ CallAt(i, {"send"}) /\ calls[i].kind = "entry"
  /\ \E answer \in {"ok", "lost", "busy", "refused", "abort"} :
       LET next == CASE answer = "ok" -> "reflush"
                     [] Retries(i, answer) -> "send"
                     [] answer \in {"lost", "busy"} /\ ~Retries(i, answer) -> "push"
                     [] OTHER -> "returned"
       IN  /\ Request(i, answer, answer \in {"refused", "abort"})
           /\ calls' = [calls EXCEPT ![i].pc = next,
                           ![i].sends = IF next = "send" THEN @ + 1 ELSE 0]
           /\ chain' = IF next \in {"reflush", "push"} THEN Append(chain, i) ELSE chain
  /\ UNCHANGED <<buffer, settled, aborted>>

\* A terminal status is retried and throws in the end; sendSnapshot posts
\* once and throws; sendHeartbeat retries, whatever the error, and never
\* throws.
SendUnbuffered(i) ==
  /\ CallAt(i, {"send"}) /\ calls[i].kind \in {"terminal", "snapshot", "heartbeat"}
  /\ \E answer \in {"ok", "lost", "busy", "refused", "abort"} :
       /\ Request(i, answer, FALSE)
       /\ LET again == CASE calls[i].kind = "terminal" -> Retries(i, answer)
                         [] calls[i].kind = "snapshot" -> FALSE
                         [] calls[i].kind = "heartbeat" ->
                              answer \notin {"ok", "abort"} /\ calls[i].sends + 1 < MaxSends
          IN calls' = [calls EXCEPT
               ![i].sends = @ + 1,
               ![i].pc = IF again THEN "send"
                         ELSE IF answer = "ok" \/ calls[i].kind = "heartbeat"
                              THEN "returned" ELSE "threw"]
  /\ UNCHANGED <<buffer, chain, settled, aborted>>

\* enqueue: a full buffer loses its oldest entry.
Enqueue(i) ==
  /\ CallAt(i, {"push"}) /\ HoldsLock(i)
  /\ buffer' = Append(IF Len(buffer) >= Capacity THEN Tail(buffer) ELSE buffer, i)
  /\ reached' = IF Len(buffer) >= Capacity
                THEN [reached EXCEPT ![Head(buffer)].fate = "full"] ELSE reached
  /\ calls' = [calls EXCEPT ![i].pc = "returned"]
  /\ chain' = Released
  /\ UNCHANGED <<settled, aborted, busy>>

AbortTask ==
  /\ ~aborted /\ aborted' = TRUE
  /\ UNCHANGED <<calls, buffer, chain, settled, busy, reached>>

BridgeRest ==
  /\ calls = <<>> /\ buffer = <<>> /\ chain = <<>> /\ settled = FALSE /\ aborted = TRUE
  /\ busy = MaxBusy /\ reached = <<>>

BridgeInit ==
  /\ calls = <<>> /\ buffer = <<>> /\ chain = <<>> /\ settled = FALSE /\ aborted = FALSE
  /\ busy = 0 /\ reached = <<>>

CallStep(i) == FlushSend(i) \/ FlushShift(i) \/ FlushEnds(i) \/ Send(i) \/ SendUnbuffered(i)
               \/ Enqueue(i)

BridgeNext ==
  \/ BridgeHandler
  \/ \E i \in 1..MaxBridgeCalls : CallStep(i)
  \/ AbortTask

BridgeSpec ==
  BridgeInit /\ [][BridgeNext]_bridgeVars
  /\ \A i \in 1..MaxBridgeCalls : WF_bridgeVars(CallStep(i))
-----------------------------------------------------------------------------
\* Types; the buffer keeps to its capacity, and what went through the bridge
\* is sound field by field.
BridgeTypeOK ==
  /\ Len(buffer) <= Capacity /\ busy \in 0..MaxBusy
  /\ DOMAIN reached = DOMAIN calls
  /\ \A i \in DOMAIN calls : calls[i].sound /\ calls[i].sends \in 0..MaxSends

\* No log or status vanishes: one whose call returned has reached the
\* server, waits in the buffer, or was refused, aborted or pushed out by a
\* full buffer.
NothingVanishes ==
  \A i \in DOMAIN calls :
    (calls[i].kind = "entry" /\ calls[i].pc = "returned") =>
      \/ reached[i].taken > 0
      \/ \E k \in DOMAIN buffer : buffer[k] = i
      \/ reached[i].fate # "open"

\* The server takes a call twice only where an answer of it was lost.
TakenOnce == \A i \in DOMAIN calls : reached[i].taken <= 1 + reached[i].lost

\* The calls of a page: types hold, what got through is sound, nothing vanishes, and
\* nothing is taken twice without cause.
BridgeKeepsCalls ==
  /\ BridgeTypeOK
  /\ NothingVanishes
  /\ TakenOnce

=============================================================================
