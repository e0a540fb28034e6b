----------------------------- MODULE WorkerTask -----------------------------
(***************************************************************************)
(* One claimed task in a worker (worker/Worker.ts): the executor's rows go *)
(* through the buffer of the engine (scriptcat-engine/                     *)
(* buffering-transport.ts) and the transport of the attempt                *)
(* (worker/HttpTransport.ts) to the server's result and status endpoints.  *)
(*                                                                         *)
(* Three callers use the attempt's result state: a flush of the buffer     *)
(* (started by a full buffer, by the timer or by the final drain), a step  *)
(* that sends a row at once, and the terminal transport with the summary.  *)
(* Each request may be lost, its answer may be lost, and the heartbeat     *)
(* timer may abort the task between any two of them.                       *)
(***************************************************************************)
EXTENDS Integers, Sequences, FiniteSets, SequencesExt

CONSTANTS
  MaxRows,      \* bound: rows the rule produces
  BatchSize,    \* sendPolicy.batchSize
  BufferCap,    \* maxBufferSize
  SendOnFailure,\* values of sendPolicy.sendOnFailure
  MaxSendAttempts,  \* maxAttempts of a request
  MaxFaults     \* bound: requests refused, and requests or answers that get lost

ASSUME WorkerTaskAssumption ==
  /\ MaxRows \in Nat /\ BatchSize \in Nat \ {0} /\ BufferCap \in Nat \ {0}
  /\ SendOnFailure \subseteq BOOLEAN /\ MaxSendAttempts \in Nat \ {0} /\ MaxFaults \in Nat

VARIABLES
  phase,    \* where runTask and the executor are
  result,   \* status of the execution
  produced,     \* rows produced so far: 1..rows
  buffer,   \* BufferingTransport.buffer
  retry,    \* BufferingTransport.retryBatch
  chain,    \* callers of flush() in the order of the promise chain
  posts,    \* requests in flight: one per caller
  seqno,    \* resultState.nextSequence
  pending,  \* resultState.pending
  taskAborted,  \* the task's AbortController
  faults,   \* requests refused or lost and answers lost so far
  server,   \* results stored for the attempt, and its status
  dropped   \* history: rows given up by the cap, a refusal or a failed run

workerVars == <<phase, result, produced, buffer, retry, chain, posts, seqno, pending, taskAborted, faults,
          server, dropped>>

Callers == {"flush", "step", "summary", "status"}
NoPost == [kind |-> "none"]
NoEnvelope == [kind |-> "none", data |-> <<>>, seq |-> 0]
Terminal == {"done", "failed"}

-----------------------------------------------------------------------------
(* Submitting a result of the attempt.                                      *)

\* sendVersionedResult up to the request: the pending envelope again if it carries the
\* same data, a new sequence number if nothing is pending, else an error.
MaySend(kind, data) == pending = NoEnvelope \/ (pending.kind = kind /\ pending.data = data)

Envelope(kind, data) ==
  IF pending.kind = kind /\ pending.data = data THEN pending
  ELSE [kind |-> kind, data |-> data, seq |-> seqno + 1]

SendVersionedResult(c, kind, data) ==
  LET e == Envelope(kind, data) IN
  /\ MaySend(kind, data)
  /\ posts' = [posts EXCEPT ![c] = [kind |-> kind, data |-> data, seq |-> e.seq, attempt |-> 1]]
  /\ pending' = e
  /\ seqno' = IF e.seq > seqno THEN e.seq ELSE seqno

\* What the server does with a request of the running attempt: a sequence number it has
\* is answered as a duplicate.
Apply(sv, p) ==
  IF sv.status # "running" THEN sv
  ELSE IF p.kind = "status" THEN [sv EXCEPT !.status = p.data[1]]
  ELSE IF \E i \in DOMAIN sv.results : sv.results[i].seq = p.seq THEN sv
  ELSE [sv EXCEPT !.results = Append(@, [kind |-> p.kind, data |-> p.data, seq |-> p.seq])]

-----------------------------------------------------------------------------
(* The promise a caller awaits settles.                                     *)

Callee(c) == posts' = [posts EXCEPT ![c] = NoPost]

\* doFlush took these rows: the failed batch before newer rows.
FlushItems == IF retry # <<>> THEN retry ELSE buffer

\* The buffered rows of a run that is drained without sending are given up.
Discard == /\ dropped' = dropped \cup ToSet(buffer) \cup ToSet(retry)
           /\ buffer' = <<>> /\ retry' = <<>>

\* A step that failed: its error policy continues the rule or stops it.
StepFailed ==
  \/ phase' = "steps" /\ UNCHANGED result
  \/ phase' = "drain" /\ result' = "failure"

\* The flush at the head of the chain is over.
FlushReturns(ok) ==
  LET owner == Head(chain) IN
  /\ chain' = Tail(chain)
  /\ CASE owner = "tick" -> UNCHANGED <<phase, result>>
       [] owner = "step" /\ ok -> phase' = "steps" /\ UNCHANGED result
       [] owner = "step" /\ ~ok -> StepFailed
       [] owner = "drain" -> /\ phase' = "summary"
                             /\ result' = IF ok THEN result ELSE "failure"

\* A slip: the failed batch is forgotten.
KeepBatchForgotten(items) == <<>>

\* doFlush keeps a failed batch apart from the rows that came meanwhile.
KeepBatch(items) == items

\* sendVersionedResult throws: the request failed for good or something else is pending.
FlushThrows(c, data) ==
  /\ CASE c = "flush" -> /\ retry' = KeepBatch(data) /\ FlushReturns(FALSE)
                         /\ UNCHANGED dropped
       [] c = "step" -> StepFailed /\ UNCHANGED <<retry, chain, dropped>>
       [] c = "summary" -> phase' = "log" /\ UNCHANGED <<result, retry, chain, dropped>>
       [] c = "status" -> /\ phase' = IF phase = "status" THEN "log" ELSE "idle"
                          /\ UNCHANGED <<result, retry, chain, dropped>>

\* The request was acknowledged.
Returns(c) ==
  CASE c = "flush" -> /\ retry' = <<>>
                      /\ IF buffer = <<>> THEN FlushReturns(TRUE)
                         ELSE UNCHANGED <<phase, result, chain>>
    [] c = "step" -> phase' = "steps" /\ UNCHANGED <<result, retry, chain>>
    [] c = "summary" -> /\ phase' = IF result = "cancelled" THEN "idle" ELSE "status"
                        /\ UNCHANGED <<result, retry, chain>>
    [] c = "status" -> phase' = "idle" /\ UNCHANGED <<result, retry, chain>>

\* pending is cleared by the acknowledgement of the envelope it holds.
ClearPending(p) ==
  pending' = IF pending # NoEnvelope /\ pending.seq = p.seq /\ p.kind # "status"
             THEN NoEnvelope ELSE pending

-----------------------------------------------------------------------------
(* The network: what happens to the request of caller c.                    *)

InFlight(c) == posts[c].kind # "none"

\* The request arrives, is accepted, and so does the answer.
Acknowledged(c) ==
  /\ InFlight(c) /\ server.status = "running"
  /\ server' = Apply(server, posts[c])
  /\ Callee(c) /\ ClearPending(posts[c]) /\ Returns(c)
  /\ UNCHANGED <<produced, buffer, seqno, taskAborted, faults, dropped>>

\* The server answers that the payload is not valid: an acknowledgement all the same.
Refused(c) ==
  /\ InFlight(c) /\ server.status = "running" /\ posts[c].kind = "batch"
  /\ faults < MaxFaults /\ faults' = faults + 1
  /\ \A i \in DOMAIN server.results : server.results[i].seq # posts[c].seq
  /\ Callee(c) /\ ClearPending(posts[c])
  /\ CASE c = "flush" -> /\ retry' = KeepBatch(posts[c].data) /\ FlushReturns(FALSE)
                         /\ UNCHANGED dropped
       [] c = "step" -> /\ dropped' = dropped \cup ToSet(posts[c].data) /\ StepFailed
                        /\ UNCHANGED <<retry, chain>>
  /\ UNCHANGED <<produced, buffer, seqno, taskAborted, server>>

\* A status below 500: the attempt is no longer this worker's.
Rejected(c) ==
  /\ InFlight(c) /\ server.status # "running"
  /\ Callee(c) /\ FlushThrows(c, posts[c].data)
  /\ UNCHANGED <<produced, buffer, seqno, pending, taskAborted, faults, server>>

\* The request or its answer is lost, or the server fails: the next of maxAttempts.
Lost(c) ==
  /\ InFlight(c) /\ faults < MaxFaults
  /\ faults' = faults + 1
  /\ server' = server \/ server' = Apply(server, posts[c])
  /\ IF posts[c].attempt < MaxSendAttempts
     THEN /\ posts' = [posts EXCEPT ![c].attempt = @ + 1]
          /\ UNCHANGED <<phase, result, retry, chain, dropped>>
     ELSE Callee(c) /\ FlushThrows(c, posts[c].data)
  /\ UNCHANGED <<produced, buffer, seqno, pending, taskAborted>>

\* fetch rejects with AbortError; the terminal transport has no signal.
AbortedRequest(c) ==
  /\ InFlight(c) /\ taskAborted /\ c \in {"flush", "step"}
  /\ server' = server \/ server' = Apply(server, posts[c])
  /\ Callee(c) /\ FlushThrows(c, posts[c].data)
  /\ UNCHANGED <<produced, buffer, seqno, pending, taskAborted, faults>>

-----------------------------------------------------------------------------
(* The executor's rows and the buffer.                                      *)

\* sendStatus('running') never fails; the rule comes with the task or is fetched.
Start ==
  /\ phase = "start"
  /\ phase' \in {"steps", "log"}
  /\ UNCHANGED <<result, produced, buffer, retry, chain, posts, seqno, pending, taskAborted, faults, server, dropped>>

\* sendResult without immediate: the oldest row gives way at the cap.
BufferRow ==
  /\ phase = "steps" /\ ~taskAborted /\ produced < MaxRows
  /\ produced' = produced + 1
  /\ LET full == Len(buffer) >= BufferCap IN
     /\ buffer' = Append(IF full THEN Tail(buffer) ELSE buffer, produced + 1)
     /\ dropped' = IF full THEN dropped \cup {Head(buffer)} ELSE dropped
  /\ IF Len(buffer') >= BatchSize
     THEN phase' = "flushing" /\ chain' = Append(chain, "step")
     ELSE UNCHANGED <<phase, chain>>
  /\ UNCHANGED <<result, retry, posts, seqno, pending, taskAborted, faults, server>>

\* sendResult with immediate goes past the buffer and past a flush that runs.
SendRow ==
  /\ phase = "steps" /\ ~taskAborted /\ produced < MaxRows
  /\ produced' = produced + 1
  /\ IF MaySend("batch", <<produced + 1>>)
     THEN /\ SendVersionedResult("step", "batch", <<produced + 1>>)
          /\ phase' = "sending" /\ UNCHANGED <<result, dropped>>
     ELSE /\ StepFailed
          /\ dropped' = dropped \cup {produced + 1}
          /\ UNCHANGED <<posts, seqno, pending>>
  /\ UNCHANGED <<buffer, retry, chain, taskAborted, faults, server>>

\* The steps are over: all done, a step failed, or the abort was noticed.
StepsOver ==
  /\ phase = "steps"
  /\ phase' = "drain"
  /\ result' \in IF taskAborted THEN {"cancelled", "failure"} ELSE {"success", "failure"}
  /\ UNCHANGED <<produced, buffer, retry, chain, posts, seqno, pending, taskAborted, faults, server, dropped>>

\* flushInterval.
Tick ==
  /\ phase \in {"steps", "flushing", "sending", "drain", "draining"}
  /\ \A i \in DOMAIN chain : chain[i] # "tick"
  /\ chain' = Append(chain, "tick")
  /\ UNCHANGED <<phase, result, produced, buffer, retry, posts, seqno, pending, taskAborted, faults, server, dropped>>

\* doFlush of the head of the chain takes its batch.
Flush ==
  /\ chain # <<>> /\ Head(chain) # "discard" /\ ~InFlight("flush")
  /\ IF FlushItems = <<>>
     THEN FlushReturns(TRUE) /\ UNCHANGED <<buffer, retry, posts, seqno, pending>>
     ELSE /\ buffer' = IF retry # <<>> THEN buffer ELSE <<>>
          /\ IF ~taskAborted /\ MaySend("batch", FlushItems)
             THEN /\ SendVersionedResult("flush", "batch", FlushItems)
                  /\ UNCHANGED <<phase, result, chain, retry>>
             ELSE /\ retry' = KeepBatch(FlushItems) /\ FlushReturns(FALSE)
                  /\ UNCHANGED <<posts, seqno, pending>>
  /\ UNCHANGED <<produced, taskAborted, faults, server, dropped>>

\* drain waits for the flushes before it, then flushes once more or gives the rows up.
Drain ==
  /\ phase = "drain"
  /\ phase' = "draining"
  /\ \E send \in SendOnFailure :
       chain' = Append(chain, IF result = "success" \/ send THEN "drain" ELSE "discard")
  /\ UNCHANGED <<result, produced, buffer, retry, posts, seqno, pending, taskAborted, faults, server, dropped>>

DrainDiscards ==
  /\ chain # <<>> /\ Head(chain) = "discard" /\ ~InFlight("flush")
  /\ Discard
  /\ phase' = "summary" /\ chain' = Tail(chain)
  /\ UNCHANGED <<result, produced, posts, seqno, pending, taskAborted, faults, server>>

-----------------------------------------------------------------------------
(* The end of runTask.                                                      *)

\* The next flush of the chain starts in a microtask, before anything else goes on.
FlushesStarted == chain = <<>> \/ InFlight("flush")

\* sendFinalSummary.
Summary ==
  /\ phase = "summary" /\ FlushesStarted
  /\ IF MaySend("summary", <<"status", result>>)
     THEN SendVersionedResult("summary", "summary", <<"status", result>>) /\ phase' = "summarizing"
     ELSE phase' = "log" /\ UNCHANGED <<posts, seqno, pending>>
  /\ UNCHANGED <<result, produced, buffer, retry, chain, taskAborted, faults, server, dropped>>

PostStatus(st) ==
  posts' = [posts EXCEPT !["status"] = [kind |-> "status", data |-> <<st>>, seq |-> 0, attempt |-> 1]]

StatusOf(r) == IF r = "success" THEN "done" ELSE "failed"

\* sendStatus(done or failed) after the summary.
Status ==
  /\ phase = "status" /\ ~InFlight("status")
  /\ PostStatus(StatusOf(result))
  /\ UNCHANGED <<phase, result, produced, buffer, retry, chain, seqno, pending, taskAborted, faults, server, dropped>>

\* The catch of runTask: the log is best effort, then sendStatus('failed').
Catch ==
  /\ phase = "log"
  /\ phase' = "failing" /\ PostStatus("failed")
  /\ UNCHANGED <<result, produced, buffer, retry, chain, seqno, pending, taskAborted, faults, server, dropped>>

\* The heartbeat answers cancelRequested, or the worker is stopped.
Abort ==
  /\ phase # "idle" /\ ~taskAborted
  /\ taskAborted' = TRUE
  /\ UNCHANGED <<phase, result, produced, buffer, retry, chain, posts, seqno, pending, faults, server, dropped>>

\* fetchRule or the rule executor rejects with AbortError: sendStatus('cancelled') is
\* one of the states the versioned transport keeps to itself.
RunAborted ==
  /\ taskAborted /\ phase \in {"start", "steps"}
  /\ phase' = "idle" /\ result' = "cancelled"
  /\ UNCHANGED <<produced, buffer, retry, chain, posts, seqno, pending, taskAborted, faults, server, dropped>>

\* The lease runs out, or another request ends the attempt on the server.
AttemptEnds ==
  /\ server.status = "running" /\ phase # "idle"
  /\ server' = [server EXCEPT !.status = "ended"]
  /\ UNCHANGED <<phase, result, produced, buffer, retry, chain, posts, seqno, pending, taskAborted, faults, dropped>>

Quiet == phase = "idle" /\ ~InFlight("flush") /\ chain = <<>> /\ UNCHANGED workerVars

-----------------------------------------------------------------------------
\* A task has been claimed: runTask starts.
WorkerInit ==
  /\ phase = "start" /\ result = "none" /\ produced = 0
  /\ buffer = <<>> /\ retry = <<>> /\ chain = <<>>
  /\ posts = [c \in Callers |-> NoPost]
  /\ seqno = 0 /\ pending = NoEnvelope /\ taskAborted = FALSE /\ faults = 0
  /\ server = [results |-> <<>>, status |-> "running"]
  /\ dropped = {}

Network == \E c \in Callers : Acknowledged(c) \/ Refused(c) \/ Rejected(c) \/ Lost(c) \/ AbortedRequest(c)
Run == Start \/ BufferRow \/ SendRow \/ StepsOver \/ Drain \/ Summary \/ Status \/ Catch
Flushing == Flush \/ DrainDiscards
WorkerNext == Network \/ Run \/ Flushing \/ Tick \/ Abort \/ RunAborted \/ AttemptEnds \/ Quiet

WorkerSpec == WorkerInit /\ [][WorkerNext]_workerVars

Answers == \E c \in Callers : Acknowledged(c) \/ Rejected(c) \/ AbortedRequest(c)

\* Promises resolve and fetch settles, with an answer or with an error.
WorkerFairness ==
  WF_workerVars(Run) /\ WF_workerVars(Flushing) /\ WF_workerVars(Answers)


FairWorkerSpec == WorkerSpec /\ WorkerFairness

-----------------------------------------------------------------------------
StoredRows == UNION {IF server.results[i].kind = "batch" THEN ToSet(server.results[i].data) ELSE {} :
                     i \in DOMAIN server.results}
Stored(kind) == {i \in DOMAIN server.results : server.results[i].kind = kind}

\* Envelopes are numbered from 1 and only the number in use is pending.
WorkerTypeOK ==
  /\ phase \in {"start", "steps", "flushing", "sending", "drain", "draining", "summary",
                "summarizing", "status", "log", "failing", "idle"}
  /\ result \in {"none", "success", "failure", "cancelled"}
  /\ produced \in 0..MaxRows /\ dropped \subseteq 1..produced
  /\ ToSet(buffer) \cup ToSet(retry) \subseteq 1..produced /\ Len(buffer) <= BufferCap
  /\ seqno \in Nat /\ pending.seq \in {0, seqno}
  /\ server.status \in {"running", "ended"} \cup Terminal /\ faults \in 0..MaxFaults

\* A task the server has as done has every row the rule produced and did not give up,
\* and a summary of success: a row that failed to be acknowledged keeps the attempt from
\* being summarised.
DoneMeansAllStored ==
  server.status = "done" =>
    /\ 1..produced \subseteq StoredRows \cup dropped
    /\ \E i \in Stored("summary") : server.results[i].data = <<"status", "success">>

\* No row is stored twice, however often a request or its answer got lost and whichever
\* of tick, step and drain sent the batch again.
NoRowTwice ==
  \A i, j \in Stored("batch") :
    \A k \in DOMAIN server.results[i].data, l \in DOMAIN server.results[j].data :
      server.results[i].data[k] = server.results[j].data[l] => i = j /\ k = l

\* The summary is the last result of its attempt.
SummaryIsLast == \A i \in Stored("summary") : i = Len(server.results)

\* A run that is not aborted and loses fewer messages than a request has attempts ends
\* with a terminal status on the server.
TerminalReported ==
  phase = "idle" /\ ~taskAborted /\ faults < MaxSendAttempts => server.status \in Terminal \cup {"ended"}

\* What the server has of an attempt: types hold, done means everything stored,
\* once, with the summary last, and a run that can report ends terminally.
ResultsAreExact ==
  /\ WorkerTypeOK
  /\ DoneMeansAllStored
  /\ NoRowTwice
  /\ SummaryIsLast
  /\ TerminalReported

=============================================================================
