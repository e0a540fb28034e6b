-------------------------------- MODULE Host --------------------------------
(***************************************************************************)
(* The browser worker host (src/worker-host/cli.ts, host.ts, slots.ts) and *)
(* the claim loop of the Worker it runs in every slot (worker/Worker.ts,   *)
(* the claiming and human-polling half of worker/HttpTransport.ts).        *)
(*                                                                         *)
(* The process reads its arguments and its key file, checks the server's   *)
(* capabilities, builds the page bundle, and then launches one browser     *)
(* after the other; each launched slot starts claiming at once.  A signal  *)
(* may arrive at any moment from the capability check on, in particular    *)
(* while later slots are still being launched.  How one task is executed   *)
(* is the subject of WorkerTask and RuleRun: here it is claimed, runs,     *)
(* perhaps waits for a person, and is reported.                            *)
(***************************************************************************)
EXTENDS Naturals, FiniteSets

CONSTANTS Slots,        \* the slot numbers 1..workers
          Jobs,         \* the tasks the server has
          MaxBackoff,   \* cap of the claim backoff, in units of claimBackoffMs
          MaxLeases,    \* times a task is leased before the model stops
          MaxHostFaults \* failures, hangs and refusals of one behaviour

ASSUME HostAssumption == /\ IsFiniteSet(Slots) /\ Slots = 1..Cardinality(Slots) /\ Slots # {}
                         /\ Jobs \cap {"none", "empty", "down", "refused"} = {}
                         /\ MaxBackoff \in Nat \ {0} /\ MaxLeases \in Nat \ {0}
                         /\ MaxHostFaults \in Nat

VARIABLES proc,    \* the process: its phase, the next slot to launch, its exit
          sig,     \* host.stop(): what it waits for and the slots it stopped
          slot,    \* each Worker
          srv,     \* the server's tasks
          ask,     \* the human intervention of each task
          stray,   \* claims whose request outlived the worker that sent it
          hostFaults

hostVars == <<proc, sig, slot, srv, ask, stray, hostFaults>>

Nobody == 0
ClaimPcs == {"claim", "answer", "sleep", "backoff"}
TaskPcs == {"begin", "exec", "human", "closing", "report"}
SlotPcs == {"off", "ended", "stuck"} \cup ClaimPcs \cup TaskPcs
Answers == Jobs \cup {"none", "empty", "down", "refused"}
Decisions == {"none", "pending", "approved", "rejected", "expired", "cancelled"}

\* A slot before its browser is launched.
OffSlot == [pc |-> "off", ans |-> "none", run |-> FALSE, aborted |-> FALSE,
            back |-> 1, result |-> "none", open |-> FALSE]

\* The state the host is in before main() runs.
HostRest == /\ proc = [phase |-> "args", next |-> 1, exit |-> "none"]
            /\ sig = [phase |-> "no", seen |-> {}]
            /\ slot = [s \in Slots |-> OffSlot]
            /\ srv = [t \in Jobs |-> [state |-> "queued", by |-> Nobody, leases |-> 0]]
            /\ ask = [t \in Jobs |-> "none"]
            /\ stray = {} /\ hostFaults = 0
HostInit == HostRest

Alive == proc.phase # "exited"
Fault == hostFaults < MaxHostFaults /\ hostFaults' = hostFaults + 1
Exit(code) == proc' = [proc EXCEPT !.phase = "exited", !.exit = code]

-----------------------------------------------------------------------------
(* The command line: arguments, the key file, the server's protocol.       *)

\* parseArgs and deriveWorkerSlots reject a bad value, readApiKeyFile a key
\* file others can read or an empty one: main().catch exits.
ParseArgs(ok) ==
  /\ proc.phase = "args"
  /\ IF ok THEN proc' = [proc EXCEPT !.phase = "caps"] /\ UNCHANGED hostFaults
           ELSE Exit("fatal") /\ Fault
  /\ UNCHANGED <<sig, slot, srv, ask, stray>>

\* The capabilities must answer and name worker protocol v2.
CheckCapabilities(ok) ==
  /\ proc.phase = "caps"
  /\ IF ok THEN proc' = [proc EXCEPT !.phase = "bundle"] /\ UNCHANGED hostFaults
           ELSE Exit("fatal") /\ Fault
  /\ UNCHANGED <<sig, slot, srv, ask, stray>>

BuildBundle == /\ proc.phase = "bundle"
               /\ proc' = [proc EXCEPT !.phase = "launch"]
               /\ UNCHANGED <<sig, slot, srv, ask, stray, hostFaults>>

\* deriveWorkerSlots makes one slot per worker, numbered from 1.
IsLastSlot(s) == s = Cardinality(Slots)

\* start() goes on launching while host.stop() is waiting: nothing in the
\* loop asks whether the host was stopped.  A launch that fails rejects
\* start() and main() exits with the earlier slots at work.
LaunchSlot(ok) ==
  /\ proc.phase = "launch"
  /\ IF ok
     THEN /\ proc' = [proc EXCEPT !.next = @ + 1,
                                  !.phase = IF IsLastSlot(proc.next) THEN "up" ELSE "launch"]
          /\ slot' = [slot EXCEPT ![proc.next] =
                        [OffSlot EXCEPT !.pc = "claim", !.run = TRUE, !.open = TRUE]]
          /\ UNCHANGED hostFaults
     ELSE Exit("fatal") /\ Fault /\ UNCHANGED slot
  /\ UNCHANGED <<sig, srv, ask, stray>>

-----------------------------------------------------------------------------
(* The claim loop.                                                         *)

Lease(t, s) == srv' = [srv EXCEPT ![t] = [state |-> "leased", by |-> s,
                                          leases |-> @.leases + 1]]

\* The server takes the claim: a task, none (204), or an error.
ServeClaim(s) ==
  /\ Alive /\ slot[s].pc = "claim"
  /\ \/ \E t \in Jobs : /\ srv[t].state = "queued" /\ Lease(t, s)
                        /\ slot' = [slot EXCEPT ![s].pc = "answer", ![s].ans = t]
                        /\ UNCHANGED hostFaults
     \/ /\ \A t \in Jobs : srv[t].state # "queued"
        /\ slot' = [slot EXCEPT ![s].pc = "answer", ![s].ans = "empty"]
        /\ UNCHANGED <<srv, hostFaults>>
     \/ \E e \in {"down", "refused"} :
          Fault /\ slot' = [slot EXCEPT ![s].pc = "answer", ![s].ans = e] /\ UNCHANGED srv
  /\ UNCHANGED <<proc, sig, ask, stray>>

\* The request of a worker that stopped meanwhile reaches the server.
StrayClaim(s) ==
  /\ s \in stray /\ stray' = stray \ {s}
  /\ \/ \E t \in Jobs : srv[t].state = "queued" /\ Lease(t, s)
     \/ (\A t \in Jobs : srv[t].state # "queued") /\ UNCHANGED srv
  /\ UNCHANGED <<proc, sig, slot, ask, hostFaults>>

\* Doubled after a failure that may pass, up to maxClaimBackoffMs.
NextBackoff(b) == IF 2 * b > MaxBackoff THEN MaxBackoff ELSE 2 * b

\* The catch of start(): a failure of the claim or of the whole task.
BacksOff(s, retryable) ==
  slot' = [slot EXCEPT ![s].pc = "backoff", ![s].result = "none", ![s].ans = "none",
             ![s].back = IF retryable THEN NextBackoff(@) ELSE 1]

ClaimAnswer(s) ==
  /\ Alive /\ slot[s].pc = "answer"
  /\ CASE slot[s].ans \in Jobs -> slot' = [slot EXCEPT ![s].pc = "begin", ![s].back = 1]
       [] slot[s].ans = "empty" ->
            slot' = [slot EXCEPT ![s].pc = "sleep", ![s].back = 1, ![s].ans = "none"]
       [] slot[s].ans = "down" -> BacksOff(s, TRUE)
       [] slot[s].ans = "refused" -> BacksOff(s, FALSE)
  /\ UNCHANGED <<proc, sig, srv, ask, stray, hostFaults>>

\* The poll interval or the backoff is over: back to `while (this.running)`.
Sleep(s) == /\ Alive /\ slot[s].pc \in {"sleep", "backoff"}
            /\ slot' = [slot EXCEPT ![s].pc = IF slot[s].run THEN "claim" ELSE "ended"]
            /\ UNCHANGED <<proc, sig, srv, ask, stray, hostFaults>>

-----------------------------------------------------------------------------
(* One task: it begins, executes, may ask a person, and is reported.        *)

\* sendStatus('running'), the rule, and a page of the slot's browser; a
\* browser already closed, or a rule that cannot be read, fails the task.
RunTask(s) ==
  /\ Alive /\ slot[s].pc = "begin"
  /\ \/ slot[s].open /\ slot' = [slot EXCEPT ![s].pc = "exec"] /\ UNCHANGED hostFaults
     \/ /\ (~slot[s].open /\ UNCHANGED hostFaults) \/ Fault
        /\ slot' = [slot EXCEPT ![s].pc = "report", ![s].result = "failure"]
  /\ UNCHANGED <<proc, sig, srv, ask, stray>>

\* The page completes; with the signal aborted it may also wind down as
\* cancelled, and the grace period makes it.
PageCompletes(s) ==
  /\ Alive /\ slot[s].pc = "exec"
  /\ \E r \in {"success", "failure", "cancelled"} :
       /\ slot[s].open \/ r = "failure"
       /\ r = "cancelled" => slot[s].aborted
       /\ slot' = [slot EXCEPT ![s].pc = "closing", ![s].result = r]
  /\ UNCHANGED <<proc, sig, srv, ask, stray, hostFaults>>

\* requestHuman: the server records the intervention, once per run here.
RequestHuman(s) ==
  /\ Alive /\ slot[s].pc = "exec" /\ slot[s].open /\ ask[slot[s].ans] = "none"
  /\ ask' = [ask EXCEPT ![slot[s].ans] = "pending"]
  /\ slot' = [slot EXCEPT ![s].pc = "human"]
  /\ UNCHANGED <<proc, sig, srv, stray, hostFaults>>

\* One poll of the decision.  Anything but an approval fails the step that
\* asked, an error answer of the poll included: it is not retried.
PollHuman(s) ==
  /\ Alive /\ slot[s].pc = "human"
  /\ \/ /\ ask[slot[s].ans] = "approved" /\ ~slot[s].aborted
        /\ slot' = [slot EXCEPT ![s].pc = "exec"] /\ UNCHANGED hostFaults
     \/ /\ ask[slot[s].ans] \in {"none", "rejected", "expired", "cancelled"} \/ slot[s].aborted
        /\ slot' = [slot EXCEPT ![s].pc = "closing", ![s].result =
                      IF slot[s].aborted THEN "cancelled" ELSE "failure"]
        /\ UNCHANGED hostFaults
     \/ Fault /\ slot' = [slot EXCEPT ![s].pc = "closing", ![s].result = "failure"]
  /\ UNCHANGED <<proc, sig, srv, ask, stray>>

\* timeoutMs and a margin after the request the worker gives up by itself.
HumanDeadline(s) ==
  /\ Alive /\ slot[s].pc = "human" /\ ask[slot[s].ans] = "pending"
  /\ slot' = [slot EXCEPT ![s].pc = "closing", ![s].result = "failure"]
  /\ UNCHANGED <<proc, sig, srv, ask, stray, hostFaults>>

\* page.close() in the driver's finally; a browser that does not answer
\* keeps the slot for good.
ClosePage(s) ==
  /\ Alive /\ slot[s].pc = "closing"
  /\ \/ slot' = [slot EXCEPT ![s].pc = "report"] /\ UNCHANGED hostFaults
     \/ Fault /\ slot' = [slot EXCEPT ![s].pc = "stuck"]
  /\ UNCHANGED <<proc, sig, srv, ask, stray>>

\* Whether the server takes a report of this slot for this task.
Holds(s, t) == srv[t].state = "leased" /\ srv[t].by = s

\* The summary and then the terminal status, each tried up to maxAttempts
\* times.  'cancelled' of a versioned attempt is not sent: the lease stays.
\* A report the server refuses, or that cannot be delivered, is thrown out
\* of runTask into the claim loop's catch.
Report(s) ==
  /\ Alive /\ slot[s].pc = "report"
  /\ LET t == slot[s].ans
         next == IF slot[s].run THEN "claim" ELSE "ended"
         back == [slot EXCEPT ![s].pc = next, ![s].result = "none", ![s].ans = "none",
                              ![s].aborted = FALSE]
     IN \/ /\ Holds(s, t) /\ slot' = back /\ UNCHANGED hostFaults
           /\ srv' = [srv EXCEPT ![t].state = IF slot[s].result = "cancelled" THEN @ ELSE "ended"]
        \/ ~Holds(s, t) /\ BacksOff(s, FALSE) /\ UNCHANGED <<srv, hostFaults>>
        \/ Fault /\ BacksOff(s, TRUE) /\ UNCHANGED srv
  /\ UNCHANGED <<proc, sig, ask, stray>>

\* A heartbeat answers cancelRequested: the task's signal is aborted.
HeartbeatCancels(s) ==
  /\ Alive /\ slot[s].pc \in {"begin", "exec", "human"} /\ ~slot[s].aborted
  /\ Holds(s, slot[s].ans)
  /\ slot' = [slot EXCEPT ![s].aborted = TRUE]
  /\ ask' = [ask EXCEPT ![slot[s].ans] = IF @ = "pending" THEN "cancelled" ELSE @]
  /\ UNCHANGED <<proc, sig, srv, stray, hostFaults>>

-----------------------------------------------------------------------------
(* Shutdown.                                                               *)

\* A slip: stop() leaves the claim that is under way alone.
WorkerStopFlagOnly(w) ==
  IF w.pc \in TaskPcs THEN [w EXCEPT !.run = FALSE, !.aborted = TRUE]
  ELSE IF w.pc = "stuck" \/ w.pc \in {"claim", "answer"} THEN [w EXCEPT !.run = FALSE]
  ELSE [w EXCEPT !.run = FALSE, !.pc = "ended"]

\* Worker.stop: the flag, the loop's signal, the running task's signal.  An
\* aborted claim or sleep ends the loop; the answer of the claim is lost.
WorkerStop(w) ==
  IF w.pc \in TaskPcs THEN [w EXCEPT !.run = FALSE, !.aborted = TRUE]
  ELSE IF w.pc = "stuck" THEN [w EXCEPT !.run = FALSE]
  ELSE [w EXCEPT !.run = FALSE, !.pc = "ended", !.ans = "none"]

Launched == {s \in Slots : slot[s].pc # "off"}

\* SIGINT or SIGTERM, the first one: host.stop() stops the slots there are.
Shutdown ==
  /\ proc.phase \notin {"args", "exited"} /\ sig.phase = "no"
  /\ sig' = [phase |-> "drain", seen |-> Launched]
  /\ slot' = [s \in Slots |-> IF s \in Launched THEN WorkerStop(slot[s]) ELSE slot[s]]
  /\ stray' = stray \cup {s \in Launched : slot[s].pc = "claim"}
  /\ UNCHANGED <<proc, srv, ask, hostFaults>>

\* A slip: the contexts are closed while the runs are still winding down.
DrainedAtOnce == TRUE

\* Every run promise host.stop() waits for has resolved.
Drained == \A s \in sig.seen : slot[s].pc = "ended"

\* The browsers of all slots there are now are closed, the ones launched
\* after the signal too; one that hangs leaves host.stop() waiting.
CloseContexts ==
  /\ Alive /\ sig.phase = "drain" /\ Drained
  /\ \/ /\ sig' = [sig EXCEPT !.phase = "closed"]
        /\ slot' = [s \in Slots |-> [slot[s] EXCEPT !.open = FALSE]]
        /\ UNCHANGED hostFaults
     \/ Fault /\ sig' = [sig EXCEPT !.phase = "hung"] /\ UNCHANGED slot
  /\ UNCHANGED <<proc, srv, ask, stray>>

ExitCleanly == /\ Alive /\ sig.phase = "closed" /\ Exit("clean")
               /\ UNCHANGED <<sig, slot, srv, ask, stray, hostFaults>>

\* A slip: no force-exit timer.
ForceExitNever == FALSE /\ UNCHANGED hostVars

\* 30 s after the signal the process ends whatever it waits for.
ForceExit == /\ Alive /\ sig.phase # "no" /\ Exit("forced")
             /\ UNCHANGED <<sig, slot, srv, ask, stray, hostFaults>>

-----------------------------------------------------------------------------
(* The server and the operator.                                            *)

\* The sweeper takes a lease that was not renewed: its worker is gone or
\* stuck, dropped the answer, or its heartbeats are lost.
HostLeaseLapses(t) ==
  /\ srv[t].state = "leased" /\ srv[t].leases < MaxLeases
  /\ LET s == srv[t].by
         worked == Alive /\ slot[s].ans = t /\ slot[s].pc \notin {"stuck", "answer"}
     IN (~worked /\ UNCHANGED hostFaults) \/ (worked /\ Fault)
  /\ srv' = [srv EXCEPT ![t].state = "queued", ![t].by = Nobody]
  /\ ask' = [ask EXCEPT ![t] = "none"]
  /\ UNCHANGED <<proc, sig, slot, stray>>

\* An operator decides, or the server lets the intervention expire.
Decide(t) == /\ ask[t] = "pending"
             /\ \E d \in {"approved", "rejected", "expired"} : ask' = [ask EXCEPT ![t] = d]
             /\ UNCHANGED <<proc, sig, slot, srv, stray, hostFaults>>

Work(s) == \/ ServeClaim(s) \/ ClaimAnswer(s) \/ Sleep(s) \/ RunTask(s)
           \/ PageCompletes(s) \/ PollHuman(s) \/ HumanDeadline(s) \/ ClosePage(s) \/ Report(s)
HostSteps == \/ \E ok \in BOOLEAN : ParseArgs(ok) \/ CheckCapabilities(ok) \/ LaunchSlot(ok)
             \/ BuildBundle \/ CloseContexts \/ ExitCleanly

HostNext == \/ HostSteps \/ Shutdown \/ ForceExit
            \/ \E s \in Slots : Work(s) \/ RequestHuman(s) \/ HeartbeatCancels(s) \/ StrayClaim(s)
            \/ \E t \in Jobs : HostLeaseLapses(t) \/ Decide(t)

\* Timers fire and requests are answered or time out (undici gives up after
\* five minutes); nobody has to send a signal or to decide anything.
HostFairness == /\ WF_hostVars(HostSteps) /\ WF_hostVars(ForceExit)
                /\ \A s \in Slots : WF_hostVars(Work(s))
HostSpec == HostInit /\ [][HostNext]_hostVars /\ HostFairness

-----------------------------------------------------------------------------
(* Properties.                                                             *)

\* Types of the host's state: no more slots than workers are launched, and
\* the claim backoff stays within maxClaimBackoffMs.
HostTypeOK ==
  /\ proc \in [phase : {"args", "caps", "bundle", "launch", "up", "exited"},
               next : Slots \cup {Cardinality(Slots) + 1},
               exit : {"none", "clean", "forced", "fatal"}]
  /\ sig \in [phase : {"no", "drain", "closed", "hung"}, seen : SUBSET Slots]
  /\ slot \in [Slots -> [pc : SlotPcs, ans : Answers, run : BOOLEAN, aborted : BOOLEAN,
                         back : 1..MaxBackoff, open : BOOLEAN,
                         result : {"none", "success", "failure", "cancelled"}]]
  /\ srv \in [Jobs -> [state : {"queued", "leased", "ended"}, by : Slots \cup {Nobody},
                       leases : 0..MaxLeases]]
  /\ ask \in [Jobs -> Decisions] /\ stray \subseteq Slots /\ hostFaults \in 0..MaxHostFaults

\* host.stop() waits for the runs: when the process exits with code 0, no
\* worker it stopped is still inside a task, so every task such a worker was
\* running was reported, or its report was refused or failed in all tries.
DrainedBeforeExit == proc.exit = "clean" => \A s \in sig.seen : slot[s].ans \notin Jobs

\* After Worker.stop() a worker takes up no further task: neither the claim
\* that was under way nor the end of a sleep starts one.
NoTaskAfterStop == [][\A s \in Slots : ~slot[s].run /\ slot[s].pc \notin {"off"} \cup TaskPcs
                                       => slot'[s].pc \notin TaskPcs]_hostVars

\* The host's process: types hold, and a clean exit abandons no task.
HostDrains ==
  /\ HostTypeOK
  /\ DrainedBeforeExit

=============================================================================
