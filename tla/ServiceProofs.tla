--------------------------- MODULE ServiceProofs ---------------------------
(***************************************************************************)
(* Proofs about the services around the task store.  On the worker's side  *)
(* the two runtimes a worker may have: the host that drives browser        *)
(* contexts (Host), with the channel from its pages (PageBridge), and the  *)
(* userscript that drives tabs (Dispatch); and the live workflow that      *)
(* qualifies them: its main() (LiveSetup) and the run of one scenario      *)
(* (LiveRun).  On the server's side two middlewares: Idempotency, for any  *)
(* set of requests, keys and bodies, and CircuitBreaker, which never gets  *)
(* stuck half-open and never stays closed on old failures, for any         *)
(* threshold and any number of concurrent requests.                        *)
(***************************************************************************)
EXTENDS Host, Dispatch, PageBridge, LiveRun, LiveSetup, Idempotency, CircuitBreaker, InductionLemmas,
        SequenceTheorems

-----------------------------------------------------------------------------
(* The browser worker host.                                                 *)

SlotType == [pc : SlotPcs, ans : Answers, run : BOOLEAN, aborted : BOOLEAN,
             back : 1..MaxBackoff, open : BOOLEAN,
             result : {"none", "success", "failure", "cancelled"}]

\* A slot inside a task has one, a slot between claims has none, and a slot that
\* claims was not stopped.
Sane(w) ==
  /\ w \in SlotType
  /\ w.pc \in TaskPcs => w.ans \in Jobs
  /\ w.pc \in {"off", "claim", "sleep", "backoff", "ended"} => w.ans = "none"
  /\ w.pc \in {"claim", "answer"} => w.run
  /\ w.pc = "answer" => w.ans # "none"

\* The inductive invariant: slots are launched in order, the ones a signal stopped
\* were launched, the browsers are closed only when those have ended, and a clean
\* exit comes after that.
HostInv ==
  /\ HostTypeOK
  /\ \A s \in Slots : Sane(slot[s])
  /\ \A s \in Slots : s >= proc.next => slot[s].pc = "off"
  /\ proc.phase \in {"args", "caps", "bundle"} => proc.next = 1
  /\ proc.phase = "launch" => proc.next \in Slots
  /\ \A s \in sig.seen : slot[s].pc # "off"
  /\ sig.phase = "closed" => Drained
  /\ proc.exit = "clean" => proc.phase = "exited" /\ sig.phase = "closed"
  /\ \A t \in Jobs : srv[t].state = "queued" => srv[t].leases < MaxLeases

\* A step of one slot that was launched and has not ended.
OneSlot(s, w) ==
  /\ slot[s].pc \notin {"off", "ended"}
  /\ w.pc # "off"
  /\ slot' = [slot EXCEPT ![s] = w]
  /\ UNCHANGED <<proc, sig>>

\* The parts of the state that no slot owns keep their types.
ServerOK ==
  /\ srv \in [Jobs -> [state : {"queued", "leased", "ended"}, by : Slots \cup {Nobody},
                       leases : 0..MaxLeases]]
  /\ \A t \in Jobs : srv[t].state = "queued" => srv[t].leases < MaxLeases
  /\ ask \in [Jobs -> Decisions] /\ stray \subseteq Slots /\ hostFaults \in 0..MaxHostFaults

\* The slots are the numbers from 1 up to how many there are.
LEMMA SlotCount ==
  /\ Cardinality(Slots) \in Nat \ {0} /\ Slots = 1..Cardinality(Slots) /\ 1 \in Slots
  /\ MaxBackoff \in Nat \ {0} /\ MaxLeases \in Nat \ {0} /\ MaxHostFaults \in Nat
<1>1. Cardinality(Slots) \in Nat
  BY HostAssumption, FS_CardinalityType
<1>2. PICK s \in Slots : TRUE
  BY HostAssumption
<1>3. 1 <= Cardinality(Slots)
  BY <1>1, <1>2, HostAssumption
<1> QED BY <1>1, <1>3, HostAssumption

\* A step of one slot that leaves a sane row keeps the invariant.
LEMMA OneSlotKeeps ==
  ASSUME HostInv, ServerOK', NEW s \in Slots, NEW w, Sane(w), OneSlot(s, w)
  PROVE  HostInv'
<1>1. HostTypeOK'
  BY DEF HostInv, HostTypeOK, OneSlot, ServerOK, Sane, SlotType
<1>2. \A r \in Slots : slot'[r] = IF r = s THEN w ELSE slot[r]
  BY DEF HostInv, HostTypeOK, OneSlot
<1>3. Drained => Drained'
  BY <1>2 DEF HostInv, HostTypeOK, OneSlot, Drained
<1> QED BY <1>1, <1>2, <1>3 DEF HostInv, HostTypeOK, OneSlot, ServerOK

\* Leasing a queued task keeps the server's rows in order.
LEMMA LeaseKeeps ==
  ASSUME HostInv, NEW t \in Jobs, NEW s \in Slots, srv[t].state = "queued", Lease(t, s),
         UNCHANGED ask, stray' \subseteq Slots, hostFaults' \in 0..MaxHostFaults
  PROVE  ServerOK'
<1>1. [state |-> "leased", by |-> s, leases |-> srv[t].leases + 1] \in
        [state : {"queued", "leased", "ended"}, by : Slots \cup {Nobody}, leases : 0..MaxLeases]
  BY SlotCount DEF HostInv, HostTypeOK
<1>2. srv' = [srv EXCEPT ![t] = [state |-> "leased", by |-> s, leases |-> srv[t].leases + 1]]
  BY DEF Lease
<1> QED BY <1>1, <1>2 DEF HostInv, HostTypeOK, ServerOK

\* The claim of a slot, with each answer the server may give.
LEMMA ServeClaimKeeps ==
  ASSUME HostInv, NEW s \in Slots, ServeClaim(s)
  PROVE  HostInv'
<1> DEFINE w(a) == [slot[s] EXCEPT !.pc = "answer", !.ans = a]
<1>0. ServerOK /\ slot[s].pc = "claim" /\ UNCHANGED <<proc, sig, ask, stray>>
  BY DEF ServeClaim, HostInv, HostTypeOK, ServerOK
<1>1. \A a \in Answers \ {"none"} : Sane(w(a)) /\ w(a).pc # "off"
  BY <1>0, ZenonT(60) DEF HostInv, Sane, SlotType, SlotPcs, ClaimPcs, TaskPcs, Answers
<1>2. \A a : slot' = [slot EXCEPT ![s].pc = "answer", ![s].ans = a] => slot' = [slot EXCEPT ![s] = w(a)]
  BY DEF HostInv, HostTypeOK
<1>3. ASSUME NEW a \in Answers \ {"none"}, slot' = [slot EXCEPT ![s].pc = "answer", ![s].ans = a],
             ServerOK'
      PROVE  HostInv'
  <2>1. OneSlot(s, w(a))
    BY <1>0, <1>1, <1>2, <1>3 DEF OneSlot
  <2> HIDE DEF w
  <2> QED BY <1>1, <1>3, <2>1, OneSlotKeeps
<1>4. ASSUME NEW t \in Jobs, srv[t].state = "queued", Lease(t, s),
             slot' = [slot EXCEPT ![s].pc = "answer", ![s].ans = t], UNCHANGED hostFaults
      PROVE  HostInv'
  <2>1. t \in Answers \ {"none"}
    BY HostAssumption DEF Answers
  <2>2. ServerOK'
    BY <1>0, <1>4, LeaseKeeps DEF ServerOK
  <2> QED BY <1>3, <1>4, <2>1, <2>2
<1>5. ASSUME slot' = [slot EXCEPT ![s].pc = "answer", ![s].ans = "empty"], UNCHANGED <<srv, hostFaults>>
      PROVE  HostInv'
  <2>1. ServerOK' /\ "empty" \in Answers \ {"none"}
    BY <1>0, <1>5 DEF ServerOK, Answers
  <2> QED BY <1>3, <1>5, <2>1
<1>6. ASSUME NEW e \in {"down", "refused"}, Fault, UNCHANGED srv,
             slot' = [slot EXCEPT ![s].pc = "answer", ![s].ans = e]
      PROVE  HostInv'
  <2>1. ServerOK'
    BY <1>0, <1>6, SlotCount DEF ServerOK, Fault
  <2> QED BY <1>3, <1>6, <2>1 DEF Answers
<1> QED BY <1>4, <1>5, <1>6 DEF ServeClaim

\* The backoff stays between 1 and its cap.
LEMMA BackoffInRange == \A b \in 1..MaxBackoff : NextBackoff(b) \in 1..MaxBackoff
BY SlotCount DEF NextBackoff

\* A slot that backs off after a failed claim is sane.
LEMMA BacksOffSane ==
  ASSUME HostInv, NEW s \in Slots, NEW b \in BOOLEAN, BacksOff(s, b)
  PROVE  \E w : Sane(w) /\ w.pc # "off" /\ slot' = [slot EXCEPT ![s] = w] /\ w.pc \notin TaskPcs
<1> DEFINE w == [slot[s] EXCEPT !.pc = "backoff", !.result = "none", !.ans = "none",
                   !.back = IF b THEN NextBackoff(slot[s].back) ELSE 1]
<1>1. slot' = [slot EXCEPT ![s] = w]
  BY DEF BacksOff, HostInv, HostTypeOK
<1>2. slot[s] \in SlotType
  BY DEF HostInv, Sane
<1>3. (IF b THEN NextBackoff(slot[s].back) ELSE 1) \in 1..MaxBackoff
  BY <1>2, BackoffInRange, SlotCount DEF SlotType
<1>4. Sane(w) /\ w.pc = "backoff"
  BY <1>2, <1>3 DEF Sane, SlotType, SlotPcs, ClaimPcs, TaskPcs, Answers
<1> QED BY <1>1, <1>4 DEF TaskPcs

\* The other steps of a slot, with the row they leave.
LEMMA WorkKeeps ==
  ASSUME HostInv, NEW s \in Slots,
         \/ ClaimAnswer(s) \/ Sleep(s) \/ RunTask(s) \/ PageCompletes(s) \/ RequestHuman(s)
         \/ PollHuman(s) \/ HumanDeadline(s) \/ ClosePage(s) \/ Report(s) \/ HeartbeatCancels(s)
  PROVE  HostInv'
<1>0. ServerOK /\ slot \in [Slots -> SlotType] /\ Sane(slot[s])
  BY DEF HostInv, HostTypeOK, ServerOK, SlotType
<1>a. 1 \in 1..MaxBackoff
  BY SlotCount
<1>1. ASSUME NEW w, Sane(w), w.pc # "off", slot' = [slot EXCEPT ![s] = w],
             slot[s].pc \notin {"off", "ended"}, UNCHANGED <<proc, sig>>, ServerOK'
      PROVE  HostInv'
  BY <1>1, OneSlotKeeps DEF OneSlot
<1>2. Fault => hostFaults' \in 0..MaxHostFaults
  BY <1>0, SlotCount DEF Fault, ServerOK
<1>3. CASE ClaimAnswer(s)
  <2>1. ServerOK' /\ UNCHANGED <<proc, sig>> /\ slot[s].pc = "answer" /\ slot[s].ans \in Answers \ {"none"}
    BY <1>0, <1>3 DEF ClaimAnswer, ServerOK, Sane, SlotType
  <2>2. CASE slot[s].ans \in Jobs
    <3> DEFINE w == [slot[s] EXCEPT !.pc = "begin", !.back = 1]
    <3>1. slot' = [slot EXCEPT ![s] = w]
      BY <1>0, <1>3, <2>2, HostAssumption DEF ClaimAnswer
    <3>2. Sane(w) /\ w.pc # "off"
      BY <1>0, <1>a, <2>2 DEF Sane, SlotType, SlotPcs, ClaimPcs, TaskPcs
    <3> QED BY <1>1, <2>1, <3>1, <3>2
  <2>3. CASE slot[s].ans = "empty"
    <3> DEFINE w == [slot[s] EXCEPT !.pc = "sleep", !.back = 1, !.ans = "none"]
    <3>1. slot' = [slot EXCEPT ![s] = w]
      BY <1>0, <1>3, <2>3, HostAssumption DEF ClaimAnswer
    <3>2. Sane(w) /\ w.pc # "off"
      BY <1>0, <1>a, <2>3 DEF Sane, SlotType, SlotPcs, ClaimPcs, TaskPcs, Answers
    <3> QED BY <1>1, <2>1, <3>1, <3>2
  <2>4. CASE slot[s].ans \in {"down", "refused"}
    <3>1. BacksOff(s, TRUE) \/ BacksOff(s, FALSE)
      BY <1>3, <2>4, HostAssumption DEF ClaimAnswer
    <3> QED BY <1>1, <2>1, <3>1, BacksOffSane
  <2> QED BY <2>1, <2>2, <2>3, <2>4 DEF Answers
<1>4. CASE Sleep(s)
  <2> DEFINE w == [slot[s] EXCEPT !.pc = IF slot[s].run THEN "claim" ELSE "ended"]
  <2>1. ServerOK' /\ UNCHANGED <<proc, sig>> /\ slot[s].pc \in {"sleep", "backoff"}
        /\ slot' = [slot EXCEPT ![s] = w]
    BY <1>0, <1>4 DEF Sleep, ServerOK
  <2>2. Sane(w) /\ w.pc # "off"
    BY <1>0, <2>1 DEF Sane, SlotType, SlotPcs, ClaimPcs, TaskPcs
  <2>3. slot[s].pc \notin {"off", "ended"}
    BY <2>1
  <2> HIDE DEF w
  <2> QED BY <1>1, <2>1, <2>2, <2>3
<1>5. ASSUME NEW p \in TaskPcs \cup {"stuck"}, NEW r \in {"none", "success", "failure", "cancelled"},
             NEW a \in BOOLEAN, slot[s].pc \in TaskPcs, UNCHANGED <<proc, sig>>, ServerOK',
             slot' = [slot EXCEPT ![s] = [slot[s] EXCEPT !.pc = p, !.result = r, !.aborted = a]]
      PROVE  HostInv'
  <2> DEFINE w == [slot[s] EXCEPT !.pc = p, !.result = r, !.aborted = a]
  <2>1. Sane(w) /\ w.pc # "off"
    BY <1>0, <1>5 DEF Sane, SlotType, SlotPcs, TaskPcs
  <2>2. slot[s].pc \notin {"off", "ended"}
    BY <1>5 DEF TaskPcs
  <2> HIDE DEF w
  <2> QED BY <1>1, <1>5, <2>1, <2>2 DEF w
<1>6. CASE RunTask(s)
  <2>1. ServerOK'
    BY <1>0, <1>2, <1>6 DEF RunTask, ServerOK
  <2>2. \E p \in {"exec", "report"}, r \in {slot[s].result, "failure"} :
          slot' = [slot EXCEPT ![s] = [slot[s] EXCEPT !.pc = p, !.result = r, !.aborted = slot[s].aborted]]
    BY <1>0, <1>6 DEF RunTask, SlotType
  <2> QED BY <1>0, <1>5, <1>6, <2>1, <2>2, ZenonT(60) DEF RunTask, TaskPcs, SlotType
<1>7. CASE PageCompletes(s)
  <2>1. ServerOK'
    BY <1>0, <1>7 DEF PageCompletes, ServerOK
  <2>2. \E r \in {"success", "failure", "cancelled"} :
          slot' = [slot EXCEPT ![s] = [slot[s] EXCEPT !.pc = "closing", !.result = r, !.aborted = slot[s].aborted]]
    <3>1. PICK r \in {"success", "failure", "cancelled"} :
            slot' = [slot EXCEPT ![s].pc = "closing", ![s].result = r]
      BY <1>7 DEF PageCompletes
    <3> QED BY <1>0, <3>1 DEF SlotType
  <2> QED BY <1>0, <1>5, <1>7, <2>1, <2>2, ZenonT(60) DEF PageCompletes, TaskPcs, SlotType
<1>8. CASE RequestHuman(s)
  <2>1. ServerOK'
    BY <1>0, <1>8 DEF RequestHuman, ServerOK, Decisions
  <2>2. slot' = [slot EXCEPT ![s] = [slot[s] EXCEPT !.pc = "human", !.result = slot[s].result,
                                                    !.aborted = slot[s].aborted]]
    BY <1>0, <1>8 DEF RequestHuman, SlotType
  <2> QED BY <1>0, <1>5, <1>8, <2>1, <2>2, ZenonT(60) DEF RequestHuman, TaskPcs, SlotType
<1>9. CASE PollHuman(s)
  <2>1. ServerOK'
    BY <1>0, <1>2, <1>9 DEF PollHuman, ServerOK
  <2>2. \E p \in {"exec", "closing"}, r \in {slot[s].result, "failure", "cancelled"} :
          slot' = [slot EXCEPT ![s] = [slot[s] EXCEPT !.pc = p, !.result = r, !.aborted = slot[s].aborted]]
    BY <1>0, <1>9, ZenonT(60) DEF PollHuman, SlotType
  <2> QED BY <1>0, <1>5, <1>9, <2>1, <2>2, ZenonT(60) DEF PollHuman, TaskPcs, SlotType
<1>10. CASE HumanDeadline(s)
  <2>1. ServerOK'
    BY <1>0, <1>10 DEF HumanDeadline, ServerOK
  <2>2. slot' = [slot EXCEPT ![s] = [slot[s] EXCEPT !.pc = "closing", !.result = "failure",
                                                    !.aborted = slot[s].aborted]]
    BY <1>0, <1>10 DEF HumanDeadline, SlotType
  <2> QED BY <1>0, <1>5, <1>10, <2>1, <2>2 DEF HumanDeadline, TaskPcs, SlotType
<1>11. CASE ClosePage(s)
  <2>1. ServerOK'
    BY <1>0, <1>2, <1>11 DEF ClosePage, ServerOK
  <2>2. \E p \in {"report", "stuck"} :
          slot' = [slot EXCEPT ![s] = [slot[s] EXCEPT !.pc = p, !.result = slot[s].result,
                                                      !.aborted = slot[s].aborted]]
    BY <1>0, <1>11 DEF ClosePage, SlotType
  <2> QED BY <1>0, <1>5, <1>11, <2>1, <2>2 DEF ClosePage, TaskPcs, SlotType
<1>12. CASE HeartbeatCancels(s)
  <2>1. ServerOK'
    BY <1>0, <1>12 DEF HeartbeatCancels, ServerOK, Decisions
  <2>2. slot' = [slot EXCEPT ![s] = [slot[s] EXCEPT !.pc = slot[s].pc, !.result = slot[s].result,
                                                    !.aborted = TRUE]]
    BY <1>0, <1>12 DEF HeartbeatCancels, SlotType
  <2> QED BY <1>0, <1>5, <1>12, <2>1, <2>2 DEF HeartbeatCancels, TaskPcs, SlotType
<1>13. CASE Report(s)
  <2>1. slot[s].pc = "report" /\ UNCHANGED <<proc, sig, ask, stray>> /\ slot[s].ans \in Jobs
    BY <1>0, <1>13 DEF Report, Sane, TaskPcs
  <2>2. CASE /\ Holds(s, slot[s].ans) /\ UNCHANGED hostFaults
             /\ slot' = [slot EXCEPT ![s].pc = IF slot[s].run THEN "claim" ELSE "ended",
                            ![s].result = "none", ![s].ans = "none", ![s].aborted = FALSE]
             /\ srv' = [srv EXCEPT ![slot[s].ans].state =
                          IF slot[s].result = "cancelled" THEN @ ELSE "ended"]
    <3> DEFINE w == [slot[s] EXCEPT !.pc = IF slot[s].run THEN "claim" ELSE "ended",
                                    !.result = "none", !.ans = "none", !.aborted = FALSE]
    <3>1. slot' = [slot EXCEPT ![s] = w]
      BY <1>0, <2>2
    <3>2. Sane(w) /\ w.pc # "off"
      BY <1>0 DEF Sane, SlotType, SlotPcs, ClaimPcs, TaskPcs, Answers
    <3>3. ServerOK'
      BY <1>0, <2>1, <2>2 DEF ServerOK, Holds
    <3>4. slot[s].pc \notin {"off", "ended"}
      BY <2>1
    <3> HIDE DEF w
    <3> QED BY <1>1, <2>1, <3>1, <3>2, <3>3, <3>4
  <2>3. CASE (BacksOff(s, FALSE) \/ BacksOff(s, TRUE)) /\ UNCHANGED srv /\ (Fault \/ UNCHANGED hostFaults)
    <3>1. ServerOK'
      BY <1>0, <1>2, <2>1, <2>3 DEF ServerOK
    <3> QED BY <1>1, <2>1, <2>3, <3>1, BacksOffSane
  <2> QED BY <1>13, <2>2, <2>3 DEF Report
<1> QED BY <1>3, <1>4, <1>6, <1>7, <1>8, <1>9, <1>10, <1>11, <1>12, <1>13

ProcessPhases == {"args", "caps", "bundle", "launch", "up", "exited"}
ExitKinds == {"none", "clean", "forced", "fatal"}

\* The steps of the process, of the signal and of the server.
LEMMA ProcessType ==
  ASSUME HostInv
  PROVE  /\ proc \in [phase : ProcessPhases, next : 1..Cardinality(Slots) + 1, exit : ExitKinds]
         /\ \A p \in [phase : ProcessPhases, next : 1..Cardinality(Slots) + 1, exit : ExitKinds] :
              p \in [phase : ProcessPhases, next : Slots \cup {Cardinality(Slots) + 1}, exit : ExitKinds]
<1>1. Slots \cup {Cardinality(Slots) + 1} = 1..Cardinality(Slots) + 1
  BY SlotCount
<1>2. proc \in [phase : ProcessPhases, next : Slots \cup {Cardinality(Slots) + 1}, exit : ExitKinds]
  BY DEF HostInv, HostTypeOK, ProcessPhases, ExitKinds
<1> QED BY <1>1, <1>2

\* Parsing, checking, building and leaving: the steps that touch the process alone.
LEMMA ProcessKeeps ==
  ASSUME HostInv,
         \/ \E ok \in BOOLEAN : ParseArgs(ok) \/ CheckCapabilities(ok)
         \/ BuildBundle \/ ExitCleanly \/ ForceExit
  PROVE  HostInv'
<1>1. \A s \in Slots : slot'[s] = slot[s]
  BY DEF ParseArgs, CheckCapabilities, BuildBundle, ExitCleanly, ForceExit
<1>2. /\ UNCHANGED <<sig, slot, srv, ask, stray>>
      /\ hostFaults' \in 0..MaxHostFaults
      /\ proc'.next = proc.next
      /\ \/ proc'.phase = "caps" /\ proc.phase = "args" /\ proc'.exit = proc.exit
         \/ proc'.phase = "bundle" /\ proc.phase = "caps" /\ proc'.exit = proc.exit
         \/ proc'.phase = "launch" /\ proc.phase = "bundle" /\ proc'.exit = proc.exit
         \/ /\ proc'.phase = "exited" /\ proc'.exit \in {"fatal", "forced", "clean"}
            /\ proc'.exit = "clean" => sig.phase = "closed"
  <2>0. hostFaults \in 0..MaxHostFaults /\ MaxHostFaults \in Nat
    BY SlotCount DEF HostInv, HostTypeOK
  <2>1. ASSUME NEW ok \in BOOLEAN, ParseArgs(ok) \/ CheckCapabilities(ok)
        PROVE  hostFaults' \in 0..MaxHostFaults
    BY <2>0, <2>1 DEF ParseArgs, CheckCapabilities, Fault
  <2>2. hostFaults' \in 0..MaxHostFaults
    BY <2>0, <2>1 DEF BuildBundle, ExitCleanly, ForceExit
  <2> QED
    BY <2>2, ProcessType DEF ParseArgs, CheckCapabilities, BuildBundle, ExitCleanly, ForceExit, Exit,
       ProcessPhases, ExitKinds
<1>5. proc' \in [phase : ProcessPhases, next : 1..Cardinality(Slots) + 1, exit : ExitKinds]
  BY ProcessType DEF ParseArgs, CheckCapabilities, BuildBundle, ExitCleanly, ForceExit, Exit,
       ProcessPhases, ExitKinds
<1>3. HostTypeOK'
  BY <1>2, <1>5, ProcessType DEF HostInv, HostTypeOK, ProcessPhases, ExitKinds
<1>4. Drained' = Drained
  BY <1>2 DEF Drained
<1> QED BY <1>2, <1>3, <1>4, SlotCount DEF HostInv

\* Slots are launched one after the other; the last one brings the host up.
LEMMA LaunchKeeps ==
  ASSUME HostInv, NEW ok \in BOOLEAN, LaunchSlot(ok)
  PROVE  HostInv'
<1> DEFINE n == proc.next
           w == [OffSlot EXCEPT !.pc = "claim", !.run = TRUE, !.open = TRUE]
<1>1. n \in Slots /\ slot[n].pc = "off" /\ n \in Nat /\ n <= Cardinality(Slots)
  BY SlotCount DEF LaunchSlot, HostInv
<1>2. CASE /\ proc' = [proc EXCEPT !.next = @ + 1, !.phase = IF IsLastSlot(n) THEN "up" ELSE "launch"]
           /\ slot' = [slot EXCEPT ![n] = w]
           /\ UNCHANGED <<hostFaults, sig, srv, ask, stray>>
  <2>1. /\ proc'.next = n + 1 /\ proc'.exit = proc.exit
        /\ proc'.phase = IF IsLastSlot(n) THEN "up" ELSE "launch"
        /\ proc' \in [phase : ProcessPhases, next : 1..Cardinality(Slots) + 1, exit : ExitKinds]
    <3>1. n + 1 \in 1..Cardinality(Slots) + 1
      BY <1>1, SlotCount
    <3> QED BY <1>2, <3>1, ProcessType DEF ProcessPhases
  <2>2. Sane(w) /\ w.pc = "claim"
    <3>1. 1 \in 1..MaxBackoff
      BY SlotCount
    <3> QED BY <3>1 DEF OffSlot, Sane, SlotType, SlotPcs, ClaimPcs, TaskPcs, Answers
  <2>3. \A s \in Slots : slot'[s] = IF s = n THEN w ELSE slot[s]
    BY <1>1, <1>2 DEF HostInv, HostTypeOK
  <2> HIDE DEF w
  <2>4. HostTypeOK'
    BY <1>1, <1>2, <2>1, <2>2, ProcessType DEF HostInv, HostTypeOK, Sane, SlotType, ProcessPhases,
       ExitKinds
  <2>5. n \notin sig.seen /\ sig.seen \subseteq Slots
    BY <1>1 DEF HostInv, HostTypeOK
  <2>6. Drained => Drained'
    BY <1>2, <2>3, <2>5 DEF Drained
  <2>7. \A s \in Slots : s >= n + 1 => s >= n /\ s # n
    BY <1>1, SlotCount
  <2>8. proc'.phase = "launch" => proc'.next \in Slots
    BY <1>1, <2>1, SlotCount DEF IsLastSlot
  <2>9. proc.exit # "clean"
    BY DEF HostInv, LaunchSlot
  <2> QED BY <1>2, <2>1, <2>2, <2>3, <2>4, <2>5, <2>6, <2>7, <2>8, <2>9 DEF HostInv
<1>3. CASE Exit("fatal") /\ Fault /\ UNCHANGED <<slot, sig, srv, ask, stray>>
  <2>1. /\ proc'.next = proc.next /\ proc'.exit = "fatal" /\ proc'.phase = "exited"
        /\ proc' \in [phase : ProcessPhases, next : 1..Cardinality(Slots) + 1, exit : ExitKinds]
    BY <1>3, ProcessType DEF Exit, ProcessPhases, ExitKinds
  <2>3. hostFaults' \in 0..MaxHostFaults
    BY <1>3, SlotCount DEF Fault, HostInv, HostTypeOK
  <2>2. HostTypeOK' /\ Drained' = Drained
    BY <1>3, <2>1, <2>3, ProcessType DEF ProcessPhases, ExitKinds, HostInv, HostTypeOK, Drained
  <2> QED BY <1>3, <2>1, <2>2 DEF HostInv
<1> QED BY <1>2, <1>3 DEF LaunchSlot

\* The steps of the server and of the person who decides.
LEMMA ServerKeeps ==
  ASSUME HostInv,
         \/ \E s \in Slots : StrayClaim(s)
         \/ \E t \in Jobs : HostLeaseLapses(t) \/ Decide(t)
         \/ UNCHANGED hostVars
  PROVE  HostInv'
<1>1. ServerOK
  BY DEF HostInv, HostTypeOK, ServerOK
<1>2. ServerOK' /\ UNCHANGED <<proc, sig, slot>> => HostInv'
  BY DEF HostInv, HostTypeOK, ServerOK, Drained
<1>3. ASSUME NEW s \in Slots, StrayClaim(s)
      PROVE  HostInv'
  <2>1. ASSUME NEW t \in Jobs, srv[t].state = "queued", Lease(t, s)
        PROVE  ServerOK'
    BY <1>1, <1>3, <2>1, LeaseKeeps DEF StrayClaim, ServerOK
  <2>2. ServerOK'
    BY <1>1, <1>3, <2>1 DEF StrayClaim, ServerOK
  <2> QED BY <1>2, <1>3, <2>2 DEF StrayClaim
<1>4. ASSUME NEW t \in Jobs, HostLeaseLapses(t)
      PROVE  HostInv'
  <2>1. hostFaults' \in 0..MaxHostFaults
    BY <1>1, <1>4, SlotCount DEF HostLeaseLapses, Fault, ServerOK
  <2>2. ServerOK'
    BY <1>1, <1>4, <2>1 DEF HostLeaseLapses, ServerOK, Decisions
  <2> QED BY <1>2, <1>4, <2>2 DEF HostLeaseLapses
<1>5. ASSUME NEW t \in Jobs, Decide(t)
      PROVE  HostInv'
  <2>1. ServerOK'
    BY <1>1, <1>5 DEF Decide, ServerOK, Decisions
  <2> QED BY <1>2, <1>5, <2>1 DEF Decide
<1>6. CASE UNCHANGED hostVars
  BY <1>1, <1>2, <1>6 DEF hostVars, ServerOK
<1> QED BY <1>3, <1>4, <1>5, <1>6

\* A stopped slot is as sane as before.
LEMMA StopSane ==
  ASSUME NEW w, Sane(w), w.pc # "off"
  PROVE  Sane(WorkerStop(w)) /\ WorkerStop(w).pc # "off"
         /\ (w.pc = "ended" => WorkerStop(w).pc = "ended")
<1>1. CASE w.pc \in TaskPcs
  BY <1>1 DEF WorkerStop, Sane, SlotType, SlotPcs, TaskPcs
<1>2. CASE w.pc = "stuck"
  BY <1>2 DEF WorkerStop, Sane, SlotType, SlotPcs, TaskPcs
<1>3. CASE w.pc \notin TaskPcs /\ w.pc # "stuck"
  BY <1>3 DEF WorkerStop, Sane, SlotType, SlotPcs, TaskPcs, Answers
<1> QED BY <1>1, <1>2, <1>3

\* A signal stops the slots one after the other, then closes their contexts.
LEMMA SignalKeeps ==
  ASSUME HostInv, Shutdown \/ CloseContexts
  PROVE  HostInv'
<1>0. slot \in [Slots -> SlotType] /\ UNCHANGED <<proc, srv, ask>>
  BY DEF HostInv, HostTypeOK, SlotType, Shutdown, CloseContexts
<1>1. CASE Shutdown
  <2>1. \A s \in Slots : slot'[s] = IF slot[s].pc = "off" THEN slot[s] ELSE WorkerStop(slot[s])
    BY <1>1 DEF Shutdown, Launched
  <2>2. \A s \in Slots : Sane(slot'[s]) /\ (slot'[s].pc = "off" <=> slot[s].pc = "off")
    BY <2>1, StopSane DEF HostInv
  <2>3. sig' = [phase |-> "drain", seen |-> Launched] /\ Launched \subseteq Slots
        /\ stray' \subseteq Slots /\ UNCHANGED hostFaults /\ sig.phase = "no"
        /\ \A s \in Launched : slot[s].pc # "off"
    BY <1>1 DEF Shutdown, Launched, HostInv, HostTypeOK
  <2>4. slot' \in [Slots -> SlotType]
    <3>1. slot' = [s \in Slots |-> slot'[s]]
      BY <1>1 DEF Shutdown
    <3> QED BY <2>2, <3>1 DEF Sane
  <2>5. HostTypeOK'
    BY <1>0, <2>3, <2>4 DEF HostInv, HostTypeOK, SlotType
  <2>6. proc.exit # "clean"
    BY <2>3 DEF HostInv
  <2> QED BY <1>0, <2>2, <2>3, <2>5, <2>6 DEF HostInv
<1>2. CASE CloseContexts
  <2>1. CASE /\ sig' = [sig EXCEPT !.phase = "closed"] /\ UNCHANGED <<hostFaults, stray>>
             /\ slot' = [s \in Slots |-> [slot[s] EXCEPT !.open = FALSE]]
    <3>1. \A s \in Slots : slot'[s].pc = slot[s].pc /\ Sane(slot'[s])
      BY <2>1, ZenonT(60) DEF HostInv, Sane, SlotType
    <3>2. HostTypeOK'
      BY <1>0, <2>1, <3>1 DEF HostInv, HostTypeOK, Sane, SlotType
    <3>3. Drained'
      BY <1>2, <2>1, <3>1 DEF CloseContexts, Drained, HostInv, HostTypeOK
    <3>4. sig'.seen = sig.seen /\ sig.seen \subseteq Slots /\ proc.exit # "clean"
      BY <1>2, <2>1 DEF CloseContexts, HostInv, HostTypeOK
    <3>5. \A s \in Slots : slot'[s].pc = slot[s].pc /\ Sane(slot'[s])
      BY <3>1
    <3> QED BY <1>0, <3>2, <3>3, <3>4, <3>5, SMTT(30) DEF HostInv
  <2>2. CASE Fault /\ sig' = [sig EXCEPT !.phase = "hung"] /\ UNCHANGED <<slot, stray>>
    <3>1. hostFaults' \in 0..MaxHostFaults
      BY <2>2, SlotCount DEF Fault, HostInv, HostTypeOK
    <3>2. proc.exit # "clean"
      BY <1>2 DEF CloseContexts, HostInv
    <3>3. HostTypeOK'
      BY <1>0, <2>2, <3>1 DEF HostInv, HostTypeOK
    <3> QED BY <1>0, <2>2, <3>2, <3>3 DEF HostInv, HostTypeOK
  <2> QED BY <1>2, <2>1, <2>2 DEF CloseContexts
<1> QED BY <1>1, <1>2

\* The host starts with no slot launched.
LEMMA HostInvInit == HostInit => HostInv
<1> SUFFICES ASSUME HostInit PROVE HostInv
  OBVIOUS
<1>1. /\ \A s \in Slots : slot[s] = OffSlot
      /\ proc = [phase |-> "args", next |-> 1, exit |-> "none"]
      /\ sig = [phase |-> "no", seen |-> {}]
  BY DEF HostInit, HostRest
<1>2. Sane(OffSlot)
  BY SlotCount DEF OffSlot, Sane, SlotType, SlotPcs, ClaimPcs, TaskPcs, Answers
<1>3. HostTypeOK
  BY <1>2, SlotCount DEF HostInit, HostRest, HostTypeOK, Sane, SlotType, Decisions
<1> QED BY <1>1, <1>2, <1>3, SlotCount DEF HostInv, OffSlot, HostInit, HostRest

\* Every step of the host keeps the invariant.
LEMMA HostInvNext ==
  ASSUME HostInv, [HostNext]_hostVars
  PROVE  HostInv'
BY ServeClaimKeeps, WorkKeeps, ProcessKeeps, LaunchKeeps, ServerKeeps, SignalKeeps
   DEF HostNext, HostSteps, Work

\* In every behaviour, for any number of slots and tasks and any failures, a clean exit
\* of the host abandons no task: the slots the signal stopped have ended, with their
\* task reported or refused.
THEOREM HostAlwaysDrains == HostSpec => []HostDrains
<1>1. HostInv => HostDrains
  <2> SUFFICES ASSUME HostInv, proc.exit = "clean", NEW s \in sig.seen
               PROVE  slot[s].ans \notin Jobs
    BY DEF HostInv, HostDrains, DrainedBeforeExit
  <2>1. s \in Slots /\ slot[s].pc = "ended" /\ Sane(slot[s])
    BY DEF HostInv, HostTypeOK, Drained
  <2> QED BY <2>1, HostAssumption DEF Sane
<1> QED BY <1>1, HostInvInit, HostInvNext, PTL DEF HostSpec

\* The step that NoTaskAfterStop asks for.
StoppedStaysIdle ==
  \A s \in Slots : ~slot[s].run /\ slot[s].pc \notin {"off"} \cup TaskPcs => slot'[s].pc \notin TaskPcs

\* No step of the host takes a stopped slot into a task.
LEMMA StoppedStep ==
  ASSUME HostInv, [HostNext]_hostVars
  PROVE  StoppedStaysIdle
<1> SUFFICES ASSUME NEW s \in Slots, ~slot[s].run, slot[s].pc \notin {"off"} \cup TaskPcs
             PROVE  slot'[s].pc \notin TaskPcs
  BY DEF StoppedStaysIdle
<1>0. slot \in [Slots -> SlotType] /\ slot[s].pc \in {"sleep", "backoff", "ended", "stuck"}
  BY DEF HostInv, HostTypeOK, Sane, SlotType, SlotPcs, ClaimPcs
<1>1. slot'[s] = slot[s] => slot'[s].pc \notin TaskPcs
  OBVIOUS
<1>2. ASSUME NEW r \in Slots,
             Work(r) \/ RequestHuman(r) \/ HeartbeatCancels(r) \/ StrayClaim(r)
      PROVE  slot'[s].pc \notin TaskPcs
  <2>1. CASE r # s
    <3>1. slot'[s] = slot[s]
      <4>1. CASE ServeClaim(r) \/ ClaimAnswer(r) \/ Sleep(r) \/ RunTask(r) \/ PageCompletes(r)
        <5>1. ServeClaim(r) => slot'[s] = slot[s]
          BY <1>0, <2>1 DEF ServeClaim
        <5>2. ClaimAnswer(r) => slot'[s] = slot[s]
          <6>1. ClaimAnswer(r) => \/ slot' = [slot EXCEPT ![r].pc = "begin", ![r].back = 1]
                                 \/ slot' = [slot EXCEPT ![r].pc = "sleep", ![r].back = 1, ![r].ans = "none"]
                                 \/ \E b \in BOOLEAN : BacksOff(r, b)
            <7>1. slot[r].pc = "answer" => slot[r].ans \in Answers \ {"none"}
              BY DEF HostInv, Sane, SlotType
            <7> QED BY <7>1, HostAssumption DEF ClaimAnswer, Answers
          <6> QED BY <1>0, <2>1, <6>1 DEF BacksOff
        <5>3. Sleep(r) \/ RunTask(r) \/ PageCompletes(r) => slot'[s] = slot[s]
          BY <1>0, <2>1 DEF Sleep, RunTask, PageCompletes
        <5> QED BY <4>1, <5>1, <5>2, <5>3
      <4>2. CASE PollHuman(r) \/ HumanDeadline(r) \/ ClosePage(r) \/ Report(r)
        <5>1. PollHuman(r) \/ HumanDeadline(r) \/ ClosePage(r) => slot'[s] = slot[s]
          BY <1>0, <2>1 DEF PollHuman, HumanDeadline, ClosePage
        <5>2. Report(r) => slot'[s] = slot[s]
          BY <1>0, <2>1 DEF Report, BacksOff
        <5> QED BY <4>2, <5>1, <5>2
      <4>3. CASE RequestHuman(r) \/ HeartbeatCancels(r) \/ StrayClaim(r)
        BY <1>0, <2>1, <4>3 DEF RequestHuman, HeartbeatCancels, StrayClaim
      <4> QED BY <1>2, <4>1, <4>2, <4>3 DEF Work
    <3> QED BY <1>1, <3>1
  <2>2. CASE r = s /\ Sleep(s)
    BY <1>0, <2>2 DEF Sleep, TaskPcs
  <2>3. CASE r = s /\ StrayClaim(s)
    BY <1>1, <2>3 DEF StrayClaim
  <2> QED
    BY <1>0, <1>2, <2>1, <2>2, <2>3 DEF Work, RequestHuman, HeartbeatCancels, ServeClaim,
       ClaimAnswer, RunTask, PageCompletes, PollHuman, HumanDeadline, ClosePage, Report
<1>3. ASSUME NEW ok \in BOOLEAN, LaunchSlot(ok)
      PROVE  slot'[s].pc \notin TaskPcs
  <2>1. proc.next \in Slots /\ slot[proc.next].pc = "off"
    BY <1>3, SlotCount DEF HostInv, LaunchSlot
  <2>2. slot'[s] = slot[s]
    BY <1>0, <1>3, <2>1, SMTT(30) DEF LaunchSlot
  <2> QED BY <1>1, <2>2
<1>4. CASE Shutdown
  BY <1>0, <1>4 DEF Shutdown, WorkerStop, TaskPcs, SlotType, Launched
<1>5. CASE CloseContexts
  BY <1>0, <1>5 DEF CloseContexts, SlotType
<1>6. ASSUME UNCHANGED slot
      PROVE  slot'[s].pc \notin TaskPcs
  BY <1>1, <1>6
<1> QED
  BY <1>2, <1>3, <1>4, <1>5, <1>6 DEF HostNext, HostSteps, ParseArgs, CheckCapabilities, BuildBundle,
     ExitCleanly, ForceExit, HostLeaseLapses, Decide, hostVars

\* In every behaviour a worker that was stopped takes up no further task.
THEOREM NoTaskTakenAfterStop == HostSpec => NoTaskAfterStop
<1>1. HostInv /\ [HostNext]_hostVars => StoppedStaysIdle
  BY StoppedStep
<1> QED BY <1>1, HostInvInit, HostInvNext, PTL DEF HostSpec, NoTaskAfterStop, StoppedStaysIdle

-----------------------------------------------------------------------------
(* The userscript dispatcher.                                               *)

\* The sends among the first k steps, and how many there are: the number under which a
\* realm that started from the first step sends the row of step k.
Sends(k) == {i \in 1..k : recipe[i] = "send"}
Count(k) == Cardinality(Sends(k))

\* The rows of the first k steps are stored for attempt n.
Stored(n, k) ==
  \A i \in 1..k : recipe[i] = "send" =>
    \E r \in results : r.attempt = n /\ r.kind = "batch" /\ r.what = i

ResultRows ==
  [attempt : Attempts, seq : 1..Len(recipe) + 1, kind : {"batch", "summary"}, what : 0..Len(recipe)]

TaskRow ==
  [status : {"pending", "held"} \cup Ended, owner : Dispatchers \cup {"none"},
   attempt : 0..MaxAttempts, cancel : BOOLEAN]

SessionRow == [status : {"none", "running", "done", "failed"}, done : 0..Len(recipe)]
TabRow == [open : BOOLEAN, hash : BOOLEAN, session : SessionRow]
RealmRow ==
  [pc : {"off", "boot", "run", "sent", "report", "status"}, step : 0..Len(recipe) + 1,
   seq : 0..Len(recipe), abort : BOOLEAN, outcome : {"none", "success", "failure", "cancelled"}]
DispatcherRow == [pc : {"idle", "claimed", "wait"}, attempt : 0..MaxAttempts]

DispatchTypes ==
  /\ recipe \in Seq({"send", "nav"})
  /\ task \in TaskRow
  /\ results \subseteq ResultRows
  /\ dsp \in [Dispatchers -> DispatcherRow]
  /\ tabs \in [Attempts -> TabRow]
  /\ realms \in [Attempts -> RealmRow]

\* A stored row carries the number of its step.
RowsNumbered ==
  \A r \in results : r.kind = "batch" =>
    r.what \in 1..Len(recipe) /\ recipe[r.what] = "send" /\ r.seq = Count(r.what)

\* A realm at step k has everything before k stored.  Its own count either is the
\* number of the rows before k or, after a checkpoint, still 0.
RowSound(n, r) ==
  /\ r.pc = "run" => /\ r.step >= 1
                     /\ Stored(n, r.step - 1)
                     /\ r.seq \in {0, Count(r.step - 1)}
  /\ r.pc = "sent" => /\ r.step \in 1..Len(recipe)
                      /\ Stored(n, r.step)
                      /\ r.seq = Count(r.step)
  /\ r.pc \in {"report", "status"} /\ r.outcome = "success" => Stored(n, Len(recipe))
RealmSound(n) == RowSound(n, realms[n])

DispatchInv ==
  /\ DispatchTypes
  /\ task.status = "pending" => task.attempt < MaxAttempts
  /\ task.status = "done" => Stored(task.attempt, Len(recipe))
  /\ \A d \in Dispatchers : dsp[d].pc # "idle" => dsp[d].attempt \in Attempts
  /\ RowsNumbered
  /\ \A n \in Attempts : Stored(n, tabs[n].session.done) /\ RealmSound(n)
  /\ NoTabLeft

\* Counting goes up by one at a send, and the first of several sends is number 1.
LEMMA Counting ==
  ASSUME recipe \in Seq({"send", "nav"})
  PROVE  /\ Count(0) = 0
         /\ \A k \in 0..Len(recipe) : Count(k) \in 0..k
         /\ \A k \in 1..Len(recipe) :
              Count(k) = IF recipe[k] = "send" THEN Count(k - 1) + 1 ELSE Count(k - 1)
         /\ \A k \in 0..Len(recipe) : Count(k) # 0 =>
              \E f \in 1..k : recipe[f] = "send" /\ Count(f) = 1
<1>0. Len(recipe) \in Nat
  OBVIOUS
<1>1. \A k \in 0..Len(recipe) : IsFiniteSet(Sends(k)) /\ Count(k) \in 0..k
  <2> SUFFICES ASSUME NEW k \in 0..Len(recipe) PROVE IsFiniteSet(Sends(k)) /\ Count(k) \in 0..k
    OBVIOUS
  <2>1. IsFiniteSet(1..k) /\ Cardinality(1..k) = k
    <3>1. 1 \in Int /\ k \in Int
      OBVIOUS
    <3> QED BY <1>0, <3>1, FS_Interval
  <2>2. Sends(k) \subseteq 1..k
    BY DEF Sends
  <2>3. IsFiniteSet(Sends(k)) /\ Cardinality(Sends(k)) <= k
    BY <2>1, <2>2, FS_Subset
  <2>4. Cardinality(Sends(k)) \in Nat
    BY <2>3, FS_CardinalityType
  <2> QED BY <1>0, <2>3, <2>4 DEF Count
<1>2. Count(0) = 0
  BY <1>0, <1>1
<1>3. ASSUME NEW k \in 1..Len(recipe)
      PROVE  Count(k) = IF recipe[k] = "send" THEN Count(k - 1) + 1 ELSE Count(k - 1)
  <2>1. k - 1 \in 0..Len(recipe) /\ k \in 0..Len(recipe)
    BY <1>0
  <2>2. CASE recipe[k] = "send"
    <3>1. Sends(k) = Sends(k - 1) \cup {k} /\ k \notin Sends(k - 1)
      BY <1>0, <2>2 DEF Sends
    <3>2. Cardinality(Sends(k - 1) \cup {k}) = Cardinality(Sends(k - 1)) + 1
      BY <1>1, <2>1, <3>1, FS_AddElement
    <3> QED BY <2>2, <3>1, <3>2 DEF Count
  <2>3. CASE recipe[k] # "send"
    <3>1. Sends(k) = Sends(k - 1)
      BY <1>0, <2>3 DEF Sends
    <3> QED BY <2>3, <3>1 DEF Count
  <2> QED BY <2>2, <2>3
<1>4. ASSUME NEW k \in 0..Len(recipe), Count(k) # 0
      PROVE  \E f \in 1..k : recipe[f] = "send" /\ Count(f) = 1
  <2>1. Sends(k) # {}
    BY <1>4, FS_EmptySet DEF Count
  <2>2. Sends(k) \in SUBSET Nat
    BY <1>0 DEF Sends
  <2>3. PICK f \in Sends(k) : \A i \in Sends(k) : f <= i
    BY <2>1, <2>2, LeastNatural
  <2>4. f \in 1..Len(recipe) /\ f \in 1..k /\ recipe[f] = "send"
    BY <1>0 DEF Sends
  <2>5. Sends(f - 1) = {}
    BY <1>0, <2>3, <2>4 DEF Sends
  <2>6. Count(f - 1) = 0
    BY <2>5, FS_EmptySet DEF Count
  <2> QED BY <1>3, <2>4, <2>6
<1> QED BY <1>1, <1>2, <1>3, <1>4

\* What is stored stays stored.
LEMMA StoredGrows ==
  ASSUME UNCHANGED recipe, results \subseteq results', NEW n, NEW k, Stored(n, k)
  PROVE  Stored(n, k)'
BY DEF Stored

\* A row the server accepts from a sound realm carries the number of its step; a realm
\* that lost its count is refused before it can store a second row.
LEMMA AcceptedIsNumbered ==
  ASSUME DispatchInv, NEW n \in Attempts, realms[n].pc = "run", More(n), Step(n) = "send",
         Accepts(n, realms[n].seq + 1, "batch", realms[n].step)
  PROVE  realms[n].seq + 1 = Count(realms[n].step)
<1> DEFINE k == realms[n].step
           q == realms[n].seq
<1>0. /\ recipe \in Seq({"send", "nav"}) /\ Len(recipe) \in Nat /\ results \subseteq ResultRows
      /\ k \in 1..Len(recipe) /\ recipe[k] = "send" /\ k - 1 \in 0..Len(recipe)
      /\ Stored(n, k - 1) /\ q \in {0, Count(k - 1)}
  <2>1. /\ recipe \in Seq({"send", "nav"}) /\ Len(recipe) \in Nat /\ results \subseteq ResultRows
        /\ k \in 0..Len(recipe) + 1 /\ k >= 1 /\ Stored(n, k - 1) /\ q \in {0, Count(k - 1)}
    BY DEF DispatchInv, DispatchTypes, RealmRow, RealmSound, RowSound
  <2> QED BY <2>1 DEF More, Step
<1>1. Count(k) = Count(k - 1) + 1
  BY <1>0, Counting
<1>2. CASE q = Count(k - 1)
  BY <1>1, <1>2
<1>3. CASE q = 0 /\ Count(k - 1) # 0
  <2>1. PICK f \in 1..k - 1 : recipe[f] = "send" /\ Count(f) = 1
    BY <1>0, <1>3, Counting
  <2>2. PICK r \in results : r.attempt = n /\ r.kind = "batch" /\ r.what = f
    BY <1>0, <2>1 DEF Stored
  <2>3. r.seq = 1
    BY <2>1, <2>2 DEF DispatchInv, RowsNumbered
  <2>4. r \in Same(n, q + 1, "batch")
    BY <1>3, <2>2, <2>3 DEF Same
  <2>5. r.what = k
    BY <2>4 DEF Accepts
  <2> QED BY <1>0, <2>1, <2>2, <2>5
<1> QED BY <1>0, <1>2, <1>3

-----------------------------------------------------------------------------
(* One step of a realm: the tab, the realm and the task of attempt n may change; rows
   may be added. *)

\* Everything but attempt n is as it was.
OthersStay(n) ==
  /\ UNCHANGED <<recipe, lineage, dsp>>
  /\ results \subseteq results'
  /\ \A m \in Attempts \ {n} : tabs'[m] = tabs[m] /\ realms'[m] = realms[m]
  /\ tabs'[n].open = tabs[n].open

\* A step that leaves a realm and its tab alone leaves what is known of them.
LEMMA OthersKeep ==
  ASSUME UNCHANGED recipe, results \subseteq results', NEW m \in Attempts,
         UNCHANGED <<tabs[m].session, realms[m]>>,
         Stored(m, tabs[m].session.done), RealmSound(m)
  PROVE  (Stored(m, tabs[m].session.done) /\ RealmSound(m))'
<1>1. \A k : Stored(m, k) => Stored(m, k)'
  BY StoredGrows
<1>2. \A k : Count(k)' = Count(k)
  BY DEF Count, Sends
<1>3. RealmSound(m)'
  BY <1>1, <1>2 DEF RealmSound, RowSound
<1>4. (Stored(m, tabs[m].session.done))'
  BY DEF Stored
<1> QED BY <1>3, <1>4

\* What keeps the invariant, when attempt n is the only one that moves.
LEMMA RealmStep ==
  ASSUME DispatchInv, DispatchTypes', NEW n \in Attempts, OthersStay(n),
         (task.status = "pending" => task.attempt < MaxAttempts)',
         (task.status = "done" => Stored(task.attempt, Len(recipe)))',
         RowsNumbered', (Stored(n, tabs[n].session.done))', RealmSound(n)'
  PROVE  DispatchInv'
<1>1. (\A d \in Dispatchers : dsp[d].pc # "idle" => dsp[d].attempt \in Attempts)'
  BY DEF DispatchInv, OthersStay
<1>2. ASSUME NEW m \in Attempts
      PROVE  (Stored(m, tabs[m].session.done) /\ RealmSound(m))'
  <2>1. CASE m = n
    BY <2>1
  <2>2. CASE m # n
    <3>1. /\ tabs'[m] = tabs[m] /\ realms'[m] = realms[m] /\ UNCHANGED recipe
          /\ results \subseteq results'
      BY <2>2 DEF OthersStay
    <3>2. Stored(m, tabs[m].session.done) /\ RealmSound(m)
      BY DEF DispatchInv
    <3> QED BY <3>1, <3>2, OthersKeep
  <2> QED BY <2>1, <2>2
<1>3. NoTabLeft'
  BY DEF DispatchInv, NoTabLeft, OthersStay
<1> QED BY <1>1, <1>2, <1>3 DEF DispatchInv

\* What only reads the rows leaves the numbering and what is known to be stored.
LEMMA RowsStay ==
  ASSUME UNCHANGED <<recipe, results>>, RowsNumbered
  PROVE  /\ RowsNumbered'
         /\ \A k : Count(k)' = Count(k)
         /\ \A m, k : Stored(m, k) => Stored(m, k)'
<1>1. \A k : Count(k)' = Count(k)
  BY DEF Count, Sends
<1>2. \A m, k : Stored(m, k) => Stored(m, k)'
  BY DEF Stored
<1>3. RowsNumbered'
  BY <1>1 DEF RowsNumbered
<1> QED BY <1>1, <1>2, <1>3

\* A row with the number of its step keeps the numbering.
LEMMA RowAdded ==
  ASSUME DispatchInv, UNCHANGED recipe, NEW n \in Attempts, NEW k \in 1..Len(recipe),
         recipe[k] = "send", StoreResult(n, Count(k), "batch", k)
  PROVE  /\ RowsNumbered'
         /\ results' \subseteq [attempt : Attempts, seq : 1..Len(recipe) + 1,
                                kind : {"batch", "summary"}, what : 0..Len(recipe)]
         /\ Count(k) \in 1..Len(recipe)
         /\ \A m, i : Stored(m, i) => Stored(m, i)'
         /\ Stored(n, k - 1) => Stored(n, k)'
<1>1. recipe \in Seq({"send", "nav"}) /\ Len(recipe) \in Nat /\ results \subseteq ResultRows
  BY DEF DispatchInv, DispatchTypes
<1>2. Count(k) \in 1..k
  <2>1. k - 1 \in 0..Len(recipe) /\ k \in 0..Len(recipe)
    BY <1>1
  <2>2. Count(k - 1) \in 0..k - 1 /\ Count(k) = Count(k - 1) + 1
    BY <1>1, <2>1, Counting
  <2> QED BY <1>1, <2>2
<1>3. \A i : Count(i)' = Count(i)
  BY DEF Count, Sends
<1>4. RowsNumbered'
  BY <1>3 DEF RowsNumbered, StoreResult, DispatchInv
<1>5. \A m, i : Stored(m, i) => Stored(m, i)'
  BY DEF Stored, StoreResult
<1>6. ASSUME Stored(n, k - 1) PROVE Stored(n, k)'
  <2>1. ASSUME NEW i \in 1..k, recipe[i] = "send"
        PROVE  \E r \in results' : r.attempt = n /\ r.kind = "batch" /\ r.what = i
    <3>1. CASE i = k
      <4> DEFINE row == [attempt |-> n, seq |-> Count(k), kind |-> "batch", what |-> k]
      <4>1. row \in results'
        BY DEF StoreResult
      <4>2. row.attempt = n /\ row.kind = "batch" /\ row.what = k
        OBVIOUS
      <4> QED BY <3>1, <4>1, <4>2
    <3>2. CASE i # k
      <4>1. i \in 1..k - 1 /\ results \subseteq results'
        BY <1>1, <3>2 DEF StoreResult
      <4> QED BY <1>6, <2>1, <4>1 DEF Stored
    <3> QED BY <3>1, <3>2
  <2> QED BY <2>1 DEF Stored
<1>7. results' \subseteq [attempt : Attempts, seq : 1..Len(recipe) + 1,
                          kind : {"batch", "summary"}, what : 0..Len(recipe)]
  BY <1>1, <1>2 DEF StoreResult, ResultRows
<1> QED BY <1>1, <1>2, <1>4, <1>5, <1>6, <1>7

\* What the task is known to be: it can be claimed again, or done has its rows.
TaskSound ==
  /\ task.status = "pending" => task.attempt < MaxAttempts
  /\ task.status = "done" => Stored(task.attempt, Len(recipe))

\* A reported status keeps that, done when the rows are stored.
LEMMA TaskKeeps ==
  ASSUME DispatchInv, UNCHANGED recipe, results \subseteq results', NEW n \in Attempts,
         NEW s \in {"done", "failed"}, s = "done" => Stored(n, Len(recipe)),
         task' \in {task, StatusAfter(n, s)}
  PROVE  task' \in TaskRow /\ TaskSound'
<1>1. \A m, k : Stored(m, k) => Stored(m, k)'
  BY DEF Stored
<1>2. task \in TaskRow /\ TaskSound
  BY DEF DispatchInv, DispatchTypes, TaskSound
<1>3. CASE task' = task
  BY <1>1, <1>2, <1>3 DEF TaskSound
<1>4. CASE task' = StatusAfter(n, s) /\ task' # task
  <2>1. task' = [task EXCEPT !.status = s] /\ task.attempt = n
    BY <1>4 DEF StatusAfter, Current
  <2>2. task' \in TaskRow /\ task'.status = s /\ task'.attempt = n
    BY <1>2, <2>1 DEF TaskRow, Ended
  <2>3. (Stored(n, Len(recipe)) => Stored(task.attempt, Len(recipe)))'
    BY <2>2 DEF Stored
  <2> QED BY <1>1, <2>2, <2>3 DEF TaskSound
<1> QED BY <1>3, <1>4

-----------------------------------------------------------------------------
(* The steps of a realm.                                                    *)

\* What the invariant says of one realm and its tab.
LEMMA RealmKnown ==
  ASSUME DispatchInv, NEW n \in Attempts
  PROVE  /\ recipe \in Seq({"send", "nav"}) /\ Len(recipe) \in Nat
         /\ tabs[n] \in TabRow /\ realms[n] \in RealmRow
         /\ tabs[n].session \in SessionRow /\ tabs[n].session.done \in 0..Len(recipe)
         /\ tabs = [tabs EXCEPT ![n] = tabs[n]]
         /\ realms[n].step \in 0..Len(recipe) + 1
         /\ RowSound(n, realms[n]) /\ Stored(n, tabs[n].session.done) /\ Stored(n, 0)
         /\ RowsNumbered
<1>1. Stored(n, 0)
  BY DEF Stored
<1>2. DispatchTypes /\ RealmSound(n) /\ Stored(n, tabs[n].session.done) /\ RowsNumbered
  BY DEF DispatchInv
<1>3. tabs[n] \in TabRow /\ realms[n] \in RealmRow
  BY <1>2 DEF DispatchTypes
<1>4. /\ tabs[n].session \in SessionRow /\ tabs[n].session.done \in 0..Len(recipe)
      /\ realms[n].step \in 0..Len(recipe) + 1
  BY <1>3 DEF TabRow, SessionRow, RealmRow
<1>5. tabs = [tabs EXCEPT ![n] = tabs[n]]
  BY <1>2 DEF DispatchTypes
<1> QED BY <1>1, <1>2, <1>3, <1>4, <1>5 DEF DispatchTypes, RealmSound

\* A step that gives attempt n another realm and another tab, and perhaps a row, keeps
\* the invariant when they are sound.
LEMMA OneRealm ==
  ASSUME DispatchInv, NEW n \in Attempts, NEW r \in RealmRow, NEW t \in TabRow,
         UNCHANGED <<recipe, lineage, dsp>>, task' \in TaskRow, TaskSound',
         results \subseteq results', results' \subseteq ResultRows, RowsNumbered',
         realms' = [realms EXCEPT ![n] = r], tabs' = [tabs EXCEPT ![n] = t],
         t.open = tabs[n].open, Stored(n, t.session.done)', RowSound(n, r)'
  PROVE  DispatchInv'
<1>1. tabs \in [Attempts -> TabRow] /\ realms \in [Attempts -> RealmRow] /\ DispatchTypes
  BY DEF DispatchInv, DispatchTypes
<1>2. tabs' \in [Attempts -> TabRow] /\ realms' \in [Attempts -> RealmRow]
  BY <1>1
<1>3. tabs'[n] = t /\ realms'[n] = r
  BY <1>1
<1>4. \A m \in Attempts \ {n} : tabs'[m] = tabs[m] /\ realms'[m] = realms[m]
  BY <1>1
<1>5. OthersStay(n)
  BY <1>3, <1>4 DEF OthersStay
<1>6. DispatchTypes'
  <2>1. /\ TabRow' = TabRow /\ RealmRow' = RealmRow /\ ResultRows' = ResultRows
        /\ TaskRow' = TaskRow
    BY DEF TabRow, SessionRow, RealmRow, ResultRows, TaskRow
  <2>2. DispatcherRow' = DispatcherRow
    BY DEF DispatcherRow
  <2> QED BY <1>1, <1>2, <2>1, <2>2 DEF DispatchTypes
<1>7. (Stored(n, tabs[n].session.done))' /\ RealmSound(n)'
  BY <1>3 DEF RealmSound
<1> QED BY <1>5, <1>6, <1>7, RealmStep DEF TaskSound

\* The same when the step only reads the rows and the task stays as it is.
LEMMA QuietRealm ==
  ASSUME DispatchInv, NEW n \in Attempts, NEW r \in RealmRow, NEW t \in TabRow,
         UNCHANGED <<recipe, lineage, dsp, results>>,
         NEW s \in {"done", "failed"}, s = "done" => Stored(n, Len(recipe)),
         task' \in {task, StatusAfter(n, s)},
         realms' = [realms EXCEPT ![n] = r], tabs' = [tabs EXCEPT ![n] = t],
         t.open = tabs[n].open, Stored(n, t.session.done), RowSound(n, r)
  PROVE  DispatchInv'
<1>1. RowsNumbered /\ results \subseteq ResultRows
  BY DEF DispatchInv, DispatchTypes
<1>2. /\ RowsNumbered'
      /\ \A k : Count(k)' = Count(k)
      /\ \A m, k : Stored(m, k) => Stored(m, k)'
  BY <1>1, RowsStay
<1>3. task' \in TaskRow /\ TaskSound'
  BY TaskKeeps
<1>4. Stored(n, t.session.done)' /\ RowSound(n, r)'
  BY <1>2 DEF RowSound
<1> QED BY <1>1, <1>2, <1>3, <1>4, OneRealm

\* What starts empty is of its type and knows of no row.
LEMMA EmptyRows ==
  ASSUME Len(recipe) \in Nat
  PROVE  /\ NoRealm \in RealmRow /\ Booting \in RealmRow /\ NoSession \in SessionRow
         /\ \A n : RowSound(n, NoRealm) /\ RowSound(n, Booting)
<1>1. 0 \in 0..Len(recipe) /\ 0 \in 0..Len(recipe) + 1
  OBVIOUS
<1>2. NoRealm \in RealmRow /\ Booting \in RealmRow
  BY <1>1 DEF NoRealm, Booting, RealmRow
<1>3. NoSession \in SessionRow
  BY <1>1 DEF NoSession, SessionRow
<1>4. \A n : RowSound(n, NoRealm) /\ RowSound(n, Booting)
  BY DEF RowSound, NoRealm, Booting
<1> QED BY <1>2, <1>3, <1>4

\* A realm boots from what its tab remembers.
LEMMA BootKeeps ==
  ASSUME DispatchInv, NEW n \in Attempts, Boot(n)
  PROVE  DispatchInv'
<1>1. /\ Len(recipe) \in Nat /\ tabs[n] \in TabRow /\ realms[n] \in RealmRow
      /\ Stored(n, tabs[n].session.done) /\ Stored(n, 0)
  BY RealmKnown
<1>2. /\ tabs[n].session \in SessionRow /\ tabs[n].session.done \in 0..Len(recipe)
      /\ tabs[n].open \in BOOLEAN /\ tabs[n].hash \in BOOLEAN
  BY <1>1 DEF TabRow, SessionRow
<1>3. UNCHANGED <<recipe, lineage, task, results, dsp>>
  BY DEF Boot
<1>4. CASE HasTask(n) /\ tabs[n].session.status \in {"none", "running"}
  <2>1. PICK r \in RealmRow : r = [realms[n] EXCEPT !.pc = "run", !.seq = 0,
                                                    !.step = tabs[n].session.done + 1]
    <3>1. tabs[n].session.done + 1 \in 0..Len(recipe) + 1 /\ 0 \in 0..Len(recipe)
      BY <1>1, <1>2
    <3>2. [realms[n] EXCEPT !.pc = "run", !.seq = 0, !.step = tabs[n].session.done + 1]
          \in RealmRow
      BY <1>1, <3>1 DEF RealmRow
    <3> QED BY <3>2
  <2>2. PICK t \in TabRow : t = [tabs[n] EXCEPT !.session.status = "running"]
    BY <1>1, <1>2 DEF TabRow, SessionRow
  <2>3. realms' = [realms EXCEPT ![n] = r]
    BY <1>1, <1>4, <2>1, ZenonT(60) DEF Boot, ResumeStep, FirstSequence, SetRealm, RealmRow
  <2>4. tabs' = [tabs EXCEPT ![n] = t]
    BY <1>1, <1>4, <2>2 DEF Boot, SetSession, TabRow, SessionRow
  <2>5. t.session.done = tabs[n].session.done /\ t.open = tabs[n].open
    BY <1>1, <1>2, <2>2 DEF TabRow, SessionRow
  <2>6. RowSound(n, r)
    BY <1>1, <1>2, <2>1 DEF RowSound, RealmRow
  <2> QED BY <1>1, <1>3, <2>3, <2>4, <2>5, <2>6, QuietRealm
<1>5. CASE ~(HasTask(n) /\ tabs[n].session.status \in {"none", "running"})
  <2>1. PICK r \in RealmRow : r = NoRealm
    BY <1>1, EmptyRows
  <2>2. PICK t \in TabRow : t = [tabs[n] EXCEPT !.session = NoSession]
    <3>1. NoSession \in SessionRow
      BY <1>1, EmptyRows
    <3>2. [tabs[n] EXCEPT !.session = NoSession] \in TabRow
      BY <1>1, <3>1 DEF TabRow
    <3> QED BY <3>2
  <2>3. realms' = [realms EXCEPT ![n] = r]
    BY <1>5, <2>1 DEF Boot, SetRealm
  <2>4. tabs' = [tabs EXCEPT ![n] = t]
    BY <1>1, <1>5, <2>2 DEF Boot, SetSession, TabRow
  <2>5. t.session.done = 0 /\ t.open = tabs[n].open
    BY <1>1, <1>2, <2>2 DEF TabRow, NoSession
  <2>6. RowSound(n, r)
    BY <2>1 DEF RowSound, NoRealm
  <2> QED BY <1>1, <1>3, <2>3, <2>4, <2>5, <2>6, QuietRealm
<1> QED BY <1>4, <1>5

\* A tab with another session is a tab still.
LEMMA TabWith ==
  ASSUME NEW t \in TabRow, NEW u \in SessionRow, NEW h \in BOOLEAN
  PROVE  /\ [t EXCEPT !.session = u] \in TabRow /\ [t EXCEPT !.session = u].session = u
         /\ [t EXCEPT !.session = u].open = t.open
         /\ [t EXCEPT !.hash = h, !.session = u] \in TabRow
         /\ [t EXCEPT !.hash = h, !.session = u].session = u
         /\ [t EXCEPT !.hash = h, !.session = u].open = t.open
BY DEF TabRow

\* The rule is not run in this tab: the attempt is reported failed.
LEMMA BootRefusesKeeps ==
  ASSUME DispatchInv, NEW n \in Attempts, BootRefuses(n)
  PROVE  DispatchInv'
<1>1. Len(recipe) \in Nat /\ tabs[n] \in TabRow /\ Stored(n, 0)
  BY RealmKnown
<1>2. /\ UNCHANGED <<recipe, lineage, dsp, results>> /\ task' = StatusAfter(n, "failed")
      /\ SetSession(n, NoSession) /\ SetRealm(n, NoRealm)
  BY DEF BootRefuses
<1>3. PICK r \in RealmRow : r = NoRealm
  BY <1>1, EmptyRows
<1>4. NoSession \in SessionRow
  BY <1>1, EmptyRows
<1>5. PICK t \in TabRow : t = [tabs[n] EXCEPT !.session = NoSession]
  BY <1>1, <1>4, TabWith
<1>6. t.session = NoSession /\ t.open = tabs[n].open
  BY <1>1, <1>4, <1>5, TabWith
<1>7. realms' = [realms EXCEPT ![n] = r] /\ tabs' = [tabs EXCEPT ![n] = t]
  BY <1>2, <1>3, <1>5 DEF SetRealm, SetSession
<1>8. RowSound(n, r) /\ Stored(n, t.session.done)
  BY <1>1, <1>3, <1>6, EmptyRows DEF NoSession
<1> QED BY <1>2, <1>6, <1>7, <1>8, QuietRealm

\* The end of runRule: success needs every row.
LEMMA FinishRows ==
  ASSUME DispatchInv, NEW n \in Attempts, NEW o \in {"success", "failure", "cancelled"},
         NEW s \in {"done", "failed"}, Finish(n, o, s), o = "success" => Stored(n, Len(recipe))
  PROVE  \E r \in RealmRow, t \in TabRow :
           /\ realms' = [realms EXCEPT ![n] = r] /\ tabs' = [tabs EXCEPT ![n] = t]
           /\ t.open = tabs[n].open /\ Stored(n, t.session.done)
           /\ r.pc = "report" /\ (r.outcome = "success" => Stored(n, Len(recipe)))
<1>1. /\ tabs[n] \in TabRow /\ tabs[n].session \in SessionRow /\ realms[n] \in RealmRow
      /\ Stored(n, tabs[n].session.done)
  BY RealmKnown
<1> DEFINE u == [tabs[n].session EXCEPT !.status = s]
           r == [realms[n] EXCEPT !.pc = "report", !.outcome = o]
           t == [tabs[n] EXCEPT !.session = u]
<1>2. r \in RealmRow /\ r.pc = "report" /\ r.outcome = o
  BY <1>1 DEF RealmRow
<1>3. u \in SessionRow /\ u.done = tabs[n].session.done
  BY <1>1 DEF SessionRow
<1>4. realms' = [realms EXCEPT ![n] = r] /\ tabs' = [tabs EXCEPT ![n] = t]
  BY DEF Finish, SetRealm, SetSession
<1>5. t \in TabRow /\ t.open = tabs[n].open /\ t.session = u
  <2> HIDE DEF u
  <2> QED BY <1>1, <1>3, TabWith
<1>6. Stored(n, t.session.done)
  BY <1>1, <1>3, <1>5
<1> HIDE DEF r, t
<1> QED BY <1>2, <1>4, <1>5, <1>6

\* What ends without success knows of no row; the report of a success knows of all.
LEMMA ReportSound ==
  ASSUME NEW n, NEW r, r.pc \in {"report", "status"}, r.outcome = "success" => Stored(n, Len(recipe))
  PROVE  RowSound(n, r)
BY DEF RowSound

\* A row that was taken by the server: its number and what it adds.
LEMMA RowSent ==
  ASSUME DispatchInv, NEW n \in Attempts, UNCHANGED recipe,
         realms[n].pc = "run", More(n), Step(n) = "send",
         Accepts(n, realms[n].seq + 1, "batch", realms[n].step),
         StoreResult(n, realms[n].seq + 1, "batch", realms[n].step)
  PROVE  /\ RowsNumbered' /\ results \subseteq results' /\ results' \subseteq ResultRows
         /\ \A m, i : Stored(m, i) => Stored(m, i)'
         /\ \E k \in 1..Len(recipe) : /\ realms[n].step = k /\ Stored(n, k)'
                                      /\ realms[n].seq + 1 = Count(k)
                                      /\ Count(k) \in 1..Len(recipe)
<1>1. /\ Len(recipe) \in Nat /\ realms[n].step \in 0..Len(recipe) + 1
      /\ RowSound(n, realms[n])
  BY RealmKnown
<1>2. realms[n].step >= 1 /\ Stored(n, realms[n].step - 1)
  BY <1>1 DEF RowSound
<1>3. PICK k \in 1..Len(recipe) : k = realms[n].step
  BY <1>1, <1>2 DEF More
<1>4. recipe[k] = "send" /\ Stored(n, k - 1)
  BY <1>2, <1>3 DEF Step
<1>5. realms[n].seq + 1 = Count(k)
  BY <1>3, AcceptedIsNumbered
<1>6. StoreResult(n, Count(k), "batch", k)
  BY <1>3, <1>5
<1>7. /\ RowsNumbered' /\ Count(k) \in 1..Len(recipe) /\ Stored(n, k)'
      /\ \A m, i : Stored(m, i) => Stored(m, i)'
      /\ results' \subseteq ResultRows
  BY <1>4, <1>6, RowAdded DEF ResultRows
<1>8. results \subseteq results'
  BY DEF StoreResult
<1> QED BY <1>3, <1>5, <1>7, <1>8

\* A row is sent; a refused one ends the run.
LEMMA SendResultKeeps ==
  ASSUME DispatchInv, NEW n \in Attempts, SendResult(n)
  PROVE  DispatchInv'
<1> DEFINE seq == realms[n].seq + 1
<1>1. /\ Len(recipe) \in Nat /\ tabs[n] \in TabRow /\ realms[n] \in RealmRow
      /\ Stored(n, tabs[n].session.done) /\ tabs = [tabs EXCEPT ![n] = tabs[n]]
  BY RealmKnown
<1>2. /\ UNCHANGED <<recipe, lineage, task, dsp>>
      /\ realms[n].pc = "run" /\ More(n) /\ Step(n) = "send"
  BY DEF SendResult, Ready
<1>3. CASE Accepts(n, seq, "batch", realms[n].step)
  <2>1. /\ StoreResult(n, seq, "batch", realms[n].step) /\ UNCHANGED tabs
        /\ realms' = [realms EXCEPT ![n] = [realms[n] EXCEPT !.pc = "sent", !.seq = seq]]
    BY <1>3 DEF SendResult, SetRealm
  <2>2. /\ RowsNumbered' /\ results \subseteq results' /\ results' \subseteq ResultRows
        /\ \A m, i : Stored(m, i) => Stored(m, i)'
    BY <1>2, <1>3, <2>1, RowSent
  <2>3. PICK k \in 1..Len(recipe) : realms[n].step = k /\ Stored(n, k)' /\ seq = Count(k)
                                    /\ Count(k) \in 1..Len(recipe)
    BY <1>2, <1>3, <2>1, RowSent
  <2>4. PICK r \in RealmRow : r = [realms[n] EXCEPT !.pc = "sent", !.seq = seq]
    <3>1. seq \in 0..Len(recipe)
      BY <1>1, <2>3
    <3> HIDE DEF seq
    <3>2. [realms[n] EXCEPT !.pc = "sent", !.seq = seq] \in RealmRow
      BY <1>1, <3>1 DEF RealmRow
    <3> QED BY <3>2
  <2>5. r.pc = "sent" /\ r.step = k /\ r.seq = Count(k)
    <3> HIDE DEF seq
    <3> QED BY <1>1, <2>3, <2>4 DEF RealmRow
  <2>6. RowSound(n, r)'
    <3>1. Count(k)' = Count(k)
      BY <1>2 DEF Count, Sends
    <3> QED BY <1>2, <2>3, <2>5, <3>1 DEF RowSound
  <2>7. PICK t \in TabRow : t = tabs[n]
    BY <1>1
  <2>8. /\ realms' = [realms EXCEPT ![n] = r] /\ tabs' = [tabs EXCEPT ![n] = t]
        /\ t.open = tabs[n].open /\ Stored(n, t.session.done)'
    BY <1>1, <2>1, <2>2, <2>4, <2>7
  <2>9. task' \in TaskRow /\ TaskSound'
    BY <1>2, <2>2, TaskKeeps
  <2> QED BY <1>2, <2>2, <2>6, <2>8, <2>9, OneRealm
<1>4. CASE ~Accepts(n, seq, "batch", realms[n].step)
  <2>1. Finish(n, "failure", "failed") /\ UNCHANGED results
    BY <1>4 DEF SendResult
  <2>2. PICK r \in RealmRow, t \in TabRow :
           /\ realms' = [realms EXCEPT ![n] = r] /\ tabs' = [tabs EXCEPT ![n] = t]
           /\ t.open = tabs[n].open /\ Stored(n, t.session.done)
           /\ r.pc = "report" /\ (r.outcome = "success" => Stored(n, Len(recipe)))
    BY <2>1, FinishRows
  <2>3. RowSound(n, r)
    BY <2>2, ReportSound
  <2>4. task' \in {task, StatusAfter(n, "failed")}
    BY <1>2
  <2> QED BY <1>2, <2>1, <2>2, <2>3, <2>4, QuietRealm
<1> QED BY <1>3, <1>4

\* The answers were lost; the row may be stored.
LEMMA SendFailsKeeps ==
  ASSUME DispatchInv, NEW n \in Attempts, SendFails(n)
  PROVE  DispatchInv'
<1> DEFINE seq == realms[n].seq + 1
<1>1. /\ UNCHANGED <<recipe, lineage, task, dsp>> /\ Finish(n, "failure", "failed")
      /\ realms[n].pc = "run" /\ More(n) /\ Step(n) = "send"
  BY DEF SendFails, Ready
<1>2. PICK r \in RealmRow, t \in TabRow :
         /\ realms' = [realms EXCEPT ![n] = r] /\ tabs' = [tabs EXCEPT ![n] = t]
         /\ t.open = tabs[n].open /\ Stored(n, t.session.done)
         /\ r.pc = "report" /\ (r.outcome = "success" => Stored(n, Len(recipe)))
  BY <1>1, FinishRows
<1>3. CASE /\ Accepts(n, seq, "batch", realms[n].step)
           /\ StoreResult(n, seq, "batch", realms[n].step)
  <2>1. /\ RowsNumbered' /\ results \subseteq results' /\ results' \subseteq ResultRows
        /\ \A m, i : Stored(m, i) => Stored(m, i)'
    BY <1>1, <1>3, RowSent
  <2>2. task' \in TaskRow /\ TaskSound'
    BY <1>1, <2>1, TaskKeeps
  <2>3. RowSound(n, r)' /\ Stored(n, t.session.done)'
    BY <1>1, <1>2, <2>1 DEF RowSound
  <2> QED BY <1>1, <1>2, <2>1, <2>2, <2>3, OneRealm
<1>4. CASE UNCHANGED results
  <2>1. RowSound(n, r)
    BY <1>2, ReportSound
  <2>2. task' \in {task, StatusAfter(n, "failed")}
    BY <1>1
  <2> QED BY <1>1, <1>2, <1>4, <2>1, <2>2, QuietRealm
<1> QED BY <1>3, <1>4 DEF SendFails

\* The session remembers the step whose row was sent.
LEMMA CheckpointKeeps ==
  ASSUME DispatchInv, NEW n \in Attempts, Checkpoint(n)
  PROVE  DispatchInv'
<1>1. /\ Len(recipe) \in Nat /\ tabs[n] \in TabRow /\ realms[n] \in RealmRow
      /\ tabs[n].session \in SessionRow /\ RowSound(n, realms[n])
  BY RealmKnown
<1>2. UNCHANGED <<recipe, lineage, task, dsp, results>> /\ realms[n].pc = "sent"
  BY DEF Checkpoint, Ready
<1>3. PICK k \in 1..Len(recipe) : k = realms[n].step /\ Stored(n, k) /\ realms[n].seq = Count(k)
  BY <1>1, <1>2 DEF RowSound
<1>4. PICK r \in RealmRow : r = [realms[n] EXCEPT !.pc = "run", !.step = k + 1]
  <2>1. k + 1 \in 0..Len(recipe) + 1
    BY <1>1
  <2>2. [realms[n] EXCEPT !.pc = "run", !.step = k + 1] \in RealmRow
    BY <1>1, <2>1 DEF RealmRow
  <2> QED BY <2>2
<1>5. r.pc = "run" /\ r.step = k + 1 /\ r.seq = Count(k)
  BY <1>1, <1>3, <1>4 DEF RealmRow
<1>6. PICK u \in SessionRow : u = [tabs[n].session EXCEPT !.done = k] /\ u.done = k
  <2>1. [tabs[n].session EXCEPT !.done = k] \in SessionRow
    BY <1>1 DEF SessionRow
  <2>2. [tabs[n].session EXCEPT !.done = k].done = k
    BY <1>1 DEF SessionRow
  <2> QED BY <2>1, <2>2
<1>7. PICK t \in TabRow : t = [tabs[n] EXCEPT !.session = u]
  BY <1>1, TabWith
<1>8. t.session = u /\ t.open = tabs[n].open
  BY <1>1, <1>7, TabWith
<1>9. realms' = [realms EXCEPT ![n] = r] /\ tabs' = [tabs EXCEPT ![n] = t]
  BY <1>1, <1>3, <1>4, <1>6, <1>7 DEF Checkpoint, SetRealm, SetSession
<1>10. RowSound(n, r)
  <2>1. r.step - 1 = k /\ r.step >= 1
    BY <1>5
  <2> QED BY <1>3, <1>5, <2>1 DEF RowSound
<1> QED BY <1>2, <1>3, <1>6, <1>8, <1>9, <1>10, QuietRealm

\* A navigation is remembered as done before it happens.
LEMMA NavigateKeeps ==
  ASSUME DispatchInv, NEW n \in Attempts, Navigate(n)
  PROVE  DispatchInv'
<1>1. /\ Len(recipe) \in Nat /\ tabs[n] \in TabRow /\ tabs[n].session \in SessionRow
      /\ RowSound(n, realms[n]) /\ realms[n].step \in 0..Len(recipe) + 1
  BY RealmKnown
<1>2. /\ UNCHANGED <<recipe, lineage, task, dsp, results>> /\ realms[n].pc = "run"
      /\ More(n) /\ Step(n) = "nav"
  BY DEF Navigate, Ready
<1>3. PICK k \in 1..Len(recipe) : k = realms[n].step /\ Stored(n, k - 1) /\ recipe[k] = "nav"
  BY <1>1, <1>2 DEF RowSound, More, Step
<1>4. Stored(n, k)
  <2>1. \A i \in 1..k : i \in 1..k - 1 \/ recipe[i] = "nav"
    BY <1>3
  <2> QED BY <1>3, <2>1 DEF Stored
<1>5. PICK r \in RealmRow : r = Booting
  BY <1>1, EmptyRows
<1>6. PICK u \in SessionRow : u = [tabs[n].session EXCEPT !.done = k] /\ u.done = k
  <2>1. [tabs[n].session EXCEPT !.done = k] \in SessionRow
    BY <1>1 DEF SessionRow
  <2>2. [tabs[n].session EXCEPT !.done = k].done = k
    BY <1>1 DEF SessionRow
  <2> QED BY <2>1, <2>2
<1>7. PICK t \in TabRow : t = [tabs[n] EXCEPT !.hash = FALSE, !.session = u]
  BY <1>1, TabWith
<1>8. t.session = u /\ t.open = tabs[n].open
  BY <1>1, <1>7, TabWith
<1>9. tabs' = [tabs EXCEPT ![n] = t]
  BY <1>1, <1>3, <1>6, <1>7 DEF Navigate, TabRow
<1>10. realms' = [realms EXCEPT ![n] = r] /\ RowSound(n, r)
  BY <1>1, <1>5, EmptyRows DEF Navigate, SetRealm
<1> QED BY <1>2, <1>4, <1>6, <1>8, <1>9, <1>10, QuietRealm

\* The rule ends; without an abort every step of it was taken.
LEMMA RunRuleEndsKeeps ==
  ASSUME DispatchInv, NEW n \in Attempts, RunRuleEnds(n)
  PROVE  DispatchInv'
<1>1. /\ Len(recipe) \in Nat /\ RowSound(n, realms[n]) /\ realms[n].step \in 0..Len(recipe) + 1
  BY RealmKnown
<1>2. UNCHANGED <<recipe, lineage, task, dsp, results>> /\ realms[n].pc = "run"
  BY DEF RunRuleEnds, Ready
<1>3. PICK r \in RealmRow, t \in TabRow :
         /\ realms' = [realms EXCEPT ![n] = r] /\ tabs' = [tabs EXCEPT ![n] = t]
         /\ t.open = tabs[n].open /\ Stored(n, t.session.done)
         /\ r.pc = "report" /\ (r.outcome = "success" => Stored(n, Len(recipe)))
  <2>1. CASE Finish(n, "cancelled", "failed")
    BY <2>1, FinishRows
  <2>2. CASE ~More(n) /\ Finish(n, "success", "done")
    <3>1. realms[n].step - 1 = Len(recipe)
      BY <1>1, <2>2 DEF More
    <3>2. Stored(n, Len(recipe))
      BY <1>1, <1>2, <3>1 DEF RowSound
    <3> QED BY <2>2, <3>2, FinishRows
  <2> QED BY <2>1, <2>2 DEF RunRuleEnds
<1>4. RowSound(n, r)
  BY <1>3, ReportSound
<1>5. task' \in {task, StatusAfter(n, "failed")}
  BY <1>2
<1> QED BY <1>2, <1>3, <1>4, <1>5, QuietRealm

\* The heartbeat's answer sets the abort.
LEMMA HeartbeatKeeps ==
  ASSUME DispatchInv, NEW n \in Attempts, Heartbeat(n)
  PROVE  DispatchInv'
<1>1. /\ tabs[n] \in TabRow /\ realms[n] \in RealmRow /\ Stored(n, tabs[n].session.done)
      /\ tabs = [tabs EXCEPT ![n] = tabs[n]] /\ RowSound(n, realms[n])
  BY RealmKnown
<1>2. UNCHANGED <<recipe, lineage, task, dsp, results, tabs>> /\ realms[n].pc = "run"
  BY DEF Heartbeat, Ready
<1>3. PICK r \in RealmRow : r = [realms[n] EXCEPT !.abort = TRUE]
  <2>1. [realms[n] EXCEPT !.abort = TRUE] \in RealmRow
    BY <1>1 DEF RealmRow
  <2> QED BY <2>1
<1>4. r.pc = realms[n].pc /\ r.step = realms[n].step /\ r.seq = realms[n].seq
  BY <1>1, <1>3 DEF RealmRow
<1>5. RowSound(n, r)
  BY <1>1, <1>2, <1>4 DEF RowSound
<1>6. realms' = [realms EXCEPT ![n] = r]
  BY <1>3 DEF Heartbeat, SetRealm
<1>7. task' \in {task, StatusAfter(n, "failed")}
  BY <1>2
<1> QED BY <1>1, <1>2, <1>5, <1>6, <1>7, QuietRealm

\* The summary goes before the status; refused, it makes the attempt a failed one.
LEMMA SendFinalSummaryKeeps ==
  ASSUME DispatchInv, NEW n \in Attempts, SendFinalSummary(n)
  PROVE  DispatchInv'
<1> DEFINE seq == realms[n].seq + 1
<1>1. /\ Len(recipe) \in Nat /\ tabs[n] \in TabRow /\ realms[n] \in RealmRow
      /\ tabs = [tabs EXCEPT ![n] = tabs[n]] /\ Stored(n, tabs[n].session.done)
      /\ RowSound(n, realms[n]) /\ RowsNumbered
  BY RealmKnown
<1>2. UNCHANGED <<recipe, lineage, dsp, tabs>> /\ realms[n].pc = "report"
  BY DEF SendFinalSummary, Ready
<1>3. PICK t \in TabRow : t = tabs[n]
  BY <1>1
<1>4. CASE Accepts(n, seq, "summary", 0)
  <2>1. /\ StoreResult(n, seq, "summary", 0) /\ UNCHANGED task
        /\ SetRealm(n, [realms[n] EXCEPT !.pc = "status"])
    BY <1>4 DEF SendFinalSummary
  <2>2. seq \in 1..Len(recipe) + 1
    BY <1>1 DEF RealmRow
  <2> HIDE DEF seq
  <2>3. results \subseteq results' /\ results' \subseteq ResultRows
    <3>1. results \subseteq ResultRows
      BY DEF DispatchInv, DispatchTypes
    <3>2. [attempt |-> n, seq |-> seq, kind |-> "summary", what |-> 0] \in ResultRows
      BY <1>1, <2>2 DEF ResultRows
    <3> QED BY <2>1, <3>1, <3>2 DEF StoreResult
  <2>4. \A m, k : Stored(m, k) => Stored(m, k)'
    BY <1>2, <2>3 DEF Stored
  <2>5. RowsNumbered'
    <3>1. \A k : Count(k)' = Count(k)
      BY <1>2 DEF Count, Sends
    <3>2. \A r \in results' : r.kind = "batch" => r \in results
      BY <2>1 DEF StoreResult
    <3> QED BY <1>1, <1>2, <3>1, <3>2 DEF RowsNumbered
  <2>6. PICK r \in RealmRow : r = [realms[n] EXCEPT !.pc = "status"]
    <3>1. [realms[n] EXCEPT !.pc = "status"] \in RealmRow
      BY <1>1 DEF RealmRow
    <3> QED BY <3>1
  <2>7. r.pc = "status" /\ r.outcome = realms[n].outcome
    BY <1>1, <2>6 DEF RealmRow
  <2>8. RowSound(n, r)'
    <3>1. r.outcome = "success" => Stored(n, Len(recipe))
      BY <1>1, <1>2, <2>7 DEF RowSound
    <3> QED BY <1>2, <2>4, <2>7, <3>1 DEF RowSound
  <2>9. task' \in TaskRow /\ TaskSound'
    BY <1>2, <2>1, <2>3, TaskKeeps
  <2>10. /\ realms' = [realms EXCEPT ![n] = r] /\ tabs' = [tabs EXCEPT ![n] = t]
         /\ t.open = tabs[n].open /\ Stored(n, t.session.done)'
    BY <1>1, <1>2, <1>3, <2>1, <2>4, <2>6 DEF SetRealm
  <2> QED BY <1>2, <2>3, <2>5, <2>8, <2>9, <2>10, OneRealm
<1>5. CASE ~Accepts(n, seq, "summary", 0)
  <2>1. task' = StatusAfter(n, "failed") /\ SetRealm(n, NoRealm) /\ UNCHANGED results
    BY <1>5 DEF SendFinalSummary
  <2>2. PICK r \in RealmRow : r = NoRealm
    BY <1>1, EmptyRows
  <2>3. RowSound(n, r)
    BY <1>1, <2>2, EmptyRows
  <2>4. /\ realms' = [realms EXCEPT ![n] = r] /\ tabs' = [tabs EXCEPT ![n] = t]
        /\ t.open = tabs[n].open /\ Stored(n, t.session.done)
    BY <1>1, <1>2, <1>3, <2>1, <2>2 DEF SetRealm
  <2> QED BY <1>2, <2>1, <2>3, <2>4, QuietRealm
<1> QED BY <1>4, <1>5

\* What ends a realm without changing its tab: its status sent or lost, or a reload.
LEMMA RealmEnds ==
  ASSUME DispatchInv, NEW n \in Attempts, UNCHANGED <<recipe, lineage, dsp, results, tabs>>,
         NEW r \in {NoRealm, Booting}, SetRealm(n, r),
         NEW s \in {"done", "failed"}, s = "done" => Stored(n, Len(recipe)),
         task' \in {task, StatusAfter(n, s)}
  PROVE  DispatchInv'
<1>1. /\ Len(recipe) \in Nat /\ tabs[n] \in TabRow /\ tabs = [tabs EXCEPT ![n] = tabs[n]]
      /\ Stored(n, tabs[n].session.done)
  BY RealmKnown
<1>2. r \in RealmRow /\ RowSound(n, r)
  BY <1>1, EmptyRows
<1>3. PICK t \in TabRow : t = tabs[n]
  BY <1>1
<1>4. /\ realms' = [realms EXCEPT ![n] = r] /\ tabs' = [tabs EXCEPT ![n] = t]
      /\ t.open = tabs[n].open /\ Stored(n, t.session.done)
  BY <1>1, <1>3 DEF SetRealm
<1> QED BY <1>2, <1>4, QuietRealm

\* The status is the last report; done follows a success.
LEMMA SendStatusKeeps ==
  ASSUME DispatchInv, NEW n \in Attempts, SendStatus(n)
  PROVE  DispatchInv'
<1>1. RowSound(n, realms[n]) /\ realms[n] \in RealmRow
  BY RealmKnown
<1>2. /\ UNCHANGED <<recipe, lineage, results, dsp, tabs>> /\ realms[n].pc = "status"
      /\ SetRealm(n, NoRealm)
  BY DEF SendStatus, Ready
<1>3. CASE realms[n].outcome = "success"
  <2>1. task' = StatusAfter(n, "done")
    BY <1>3 DEF SendStatus
  <2>2. Stored(n, Len(recipe))
    BY <1>1, <1>2, <1>3 DEF RowSound
  <2> QED BY <1>2, <2>1, <2>2, RealmEnds
<1>4. CASE realms[n].outcome # "success"
  <2>1. task' \in {task, StatusAfter(n, "failed")}
    BY <1>4 DEF SendStatus
  <2> QED BY <1>2, <2>1, RealmEnds
<1> QED BY <1>3, <1>4

\* A lost status ends the realm all the same.
LEMMA SendStatusFailsKeeps ==
  ASSUME DispatchInv, NEW n \in Attempts, SendStatusFails(n)
  PROVE  DispatchInv'
<1>1. UNCHANGED <<recipe, lineage, task, results, dsp, tabs>> /\ SetRealm(n, NoRealm)
  BY DEF SendStatusFails
<1>2. task' \in {task, StatusAfter(n, "failed")}
  BY <1>1
<1> QED BY <1>1, <1>2, RealmEnds

\* A reload starts the tab over from its session.
LEMMA ReloadKeeps ==
  ASSUME DispatchInv, NEW n \in Attempts, Reload(n)
  PROVE  DispatchInv'
<1>1. UNCHANGED <<recipe, lineage, task, results, dsp, tabs>> /\ SetRealm(n, Booting)
  BY DEF Reload
<1>2. task' \in {task, StatusAfter(n, "failed")}
  BY <1>1
<1> QED BY <1>1, <1>2, RealmEnds

-----------------------------------------------------------------------------
(* The steps of the server and of a dispatcher.                             *)

\* Steps that leave rule, rows, tabs and realms keep what is known of the realms.
LEMMA RealmsStay ==
  ASSUME DispatchInv, UNCHANGED <<recipe, results, tabs, realms>>
  PROVE  /\ RowsNumbered'
         /\ (\A n \in Attempts : Stored(n, tabs[n].session.done) /\ RealmSound(n))'
         /\ \A m, k : Stored(m, k) => Stored(m, k)'
<1>1. RowsNumbered' /\ \A m, k : Stored(m, k) => Stored(m, k)'
  BY RowsStay DEF DispatchInv
<1>2. ASSUME NEW n \in Attempts PROVE (Stored(n, tabs[n].session.done) /\ RealmSound(n))'
  <2>1. Stored(n, tabs[n].session.done) /\ RealmSound(n)
    BY DEF DispatchInv
  <2> QED BY <2>1, OthersKeep
<1> QED BY <1>1, <1>2

\* The task alone changes: it waits again with an attempt left, or ends other than done.
LEMMA TaskStep ==
  ASSUME DispatchInv, UNCHANGED <<recipe, results, dsp, tabs, realms>>,
         task' \in TaskRow, TaskSound'
  PROVE  DispatchInv'
<1>1. /\ RowsNumbered'
      /\ (\A n \in Attempts : Stored(n, tabs[n].session.done) /\ RealmSound(n))'
  BY RealmsStay
<1>2. DispatchTypes'
  BY DEF DispatchInv, DispatchTypes, TabRow, SessionRow, RealmRow, ResultRows, TaskRow,
     DispatcherRow
<1>3. NoTabLeft' /\ (\A d \in Dispatchers : dsp[d].pc # "idle" => dsp[d].attempt \in Attempts)'
  BY DEF DispatchInv, NoTabLeft
<1> QED BY <1>1, <1>2, <1>3 DEF DispatchInv, TaskSound

\* The sweeper returns the task while an attempt is left.
LEMMA LeaseLapsesKeeps ==
  ASSUME DispatchInv, LeaseLapses
  PROVE  DispatchInv'
<1>1. UNCHANGED <<recipe, results, dsp, tabs, realms>> /\ task.status = "held"
  BY DEF LeaseLapses
<1>2. task \in TaskRow
  BY DEF DispatchInv, DispatchTypes
<1>3. task' \in TaskRow /\ TaskSound'
  <2>1. task' = [task EXCEPT !.status = IF task.attempt < MaxAttempts
                                        THEN "pending" ELSE "dead_letter"]
    BY <1>1, <1>2 DEF LeaseLapses, TaskRow
  <2>2. task' \in TaskRow
    BY <1>2, <2>1 DEF TaskRow, Ended
  <2>3. task'.attempt = task.attempt
        /\ task'.status = IF task.attempt < MaxAttempts THEN "pending" ELSE "dead_letter"
    BY <1>2, <2>1 DEF TaskRow
  <2> QED BY <2>2, <2>3 DEF TaskSound
<1> QED BY <1>1, <1>3, TaskStep

\* A request to cancel only marks the task.
LEMMA RequestCancelKeeps ==
  ASSUME DispatchInv, RequestCancel
  PROVE  DispatchInv'
<1>1. UNCHANGED <<recipe, results, dsp, tabs, realms>> /\ task.status = "held"
      /\ task' = [task EXCEPT !.cancel = TRUE]
  BY DEF RequestCancel
<1>2. task \in TaskRow
  BY DEF DispatchInv, DispatchTypes
<1>3. task' \in TaskRow /\ task'.status = "held"
  BY <1>1, <1>2 DEF TaskRow
<1> QED BY <1>1, <1>3, TaskStep DEF TaskSound

\* A dispatcher moves on and leaves every tab but that of attempt n as it is; the tab of n
\* gets no session.  Every open tab has a dispatcher that waits for it.
LEMMA DispatcherStep ==
  ASSUME DispatchInv, UNCHANGED <<recipe, results>>, task' \in TaskRow, TaskSound',
         NEW d \in Dispatchers, NEW n \in Attempts, NEW w \in DispatcherRow,
         dsp' = [dsp EXCEPT ![d] = w], w.pc # "idle" => w.attempt \in Attempts,
         dsp[d].pc = "wait" => dsp[d].attempt = n,
         \/ UNCHANGED <<tabs, realms>> /\ dsp[d].pc # "wait"
         \/ \E t \in TabRow, r \in RealmRow :
              /\ tabs' = [tabs EXCEPT ![n] = t] /\ realms' = [realms EXCEPT ![n] = r]
              /\ t.session = NoSession /\ r \in {NoRealm, Booting}
              /\ t.open => w.pc = "wait" /\ w.attempt = n
  PROVE  DispatchInv'
<1>1. /\ tabs \in [Attempts -> TabRow] /\ realms \in [Attempts -> RealmRow]
      /\ dsp \in [Dispatchers -> DispatcherRow] /\ RowsNumbered /\ DispatchTypes
      /\ Len(recipe) \in Nat
  BY DEF DispatchInv, DispatchTypes
<1>2. /\ dsp' \in [Dispatchers -> DispatcherRow] /\ dsp'[d] = w
      /\ \A e \in Dispatchers \ {d} : dsp'[e] = dsp[e]
  BY <1>1
<1>3. (\A e \in Dispatchers : dsp[e].pc # "idle" => dsp[e].attempt \in Attempts)'
  BY <1>2 DEF DispatchInv
<1>4. /\ RowsNumbered'
      /\ \A m, k : Stored(m, k) => Stored(m, k)'
  BY <1>1, RowsStay
<1>5. CASE UNCHANGED <<tabs, realms>> /\ dsp[d].pc # "wait"
  <2>1. (\A m \in Attempts : Stored(m, tabs[m].session.done) /\ RealmSound(m))'
    BY <1>5, RealmsStay
  <2>2. NoTabLeft'
    <3> SUFFICES ASSUME NEW m \in Attempts, tabs'[m].open
                 PROVE  \E e \in Dispatchers : dsp'[e].pc = "wait" /\ dsp'[e].attempt = m
      BY DEF NoTabLeft
    <3>1. PICK e \in Dispatchers : dsp[e].pc = "wait" /\ dsp[e].attempt = m
      BY <1>5 DEF DispatchInv, NoTabLeft
    <3> QED BY <1>2, <1>5, <3>1
  <2>3. DispatchTypes'
    BY <1>1, <1>2, <1>5 DEF DispatchTypes, TabRow, SessionRow, RealmRow, ResultRows, TaskRow,
       DispatcherRow
  <2> QED BY <1>3, <1>4, <2>1, <2>2, <2>3 DEF DispatchInv, TaskSound
<1>6. ASSUME NEW t \in TabRow, NEW r \in RealmRow,
             tabs' = [tabs EXCEPT ![n] = t], realms' = [realms EXCEPT ![n] = r],
             t.session = NoSession, r \in {NoRealm, Booting},
             t.open => w.pc = "wait" /\ w.attempt = n
      PROVE  DispatchInv'
  <2>1. /\ tabs' \in [Attempts -> TabRow] /\ realms' \in [Attempts -> RealmRow]
        /\ tabs'[n] = t /\ realms'[n] = r
        /\ \A m \in Attempts \ {n} : tabs'[m] = tabs[m] /\ realms'[m] = realms[m]
    BY <1>1, <1>6
  <2>2. ASSUME NEW m \in Attempts PROVE (Stored(m, tabs[m].session.done) /\ RealmSound(m))'
    <3>1. CASE m # n
      <4>1. Stored(m, tabs[m].session.done) /\ RealmSound(m)
        BY DEF DispatchInv
      <4>2. UNCHANGED <<tabs[m].session, realms[m]>>
        BY <2>1, <3>1
      <4> QED BY <4>1, <4>2, OthersKeep
    <3>2. CASE m = n
      <4>1. (Stored(n, 0) /\ RowSound(n, NoRealm) /\ RowSound(n, Booting))'
        BY DEF Stored, RowSound, NoRealm, Booting
      <4>2. tabs'[n].session.done = 0
        BY <1>6, <2>1 DEF NoSession
      <4>3. (Stored(n, tabs[n].session.done))'
        BY <4>1, <4>2
      <4>4. RealmSound(n)'
        BY <1>6, <2>1, <4>1 DEF RealmSound, RowSound, NoRealm, Booting
      <4> QED BY <3>2, <4>3, <4>4
    <3> QED BY <3>1, <3>2
  <2>3. NoTabLeft'
    <3> SUFFICES ASSUME NEW m \in Attempts, tabs'[m].open
                 PROVE  \E e \in Dispatchers : dsp'[e].pc = "wait" /\ dsp'[e].attempt = m
      BY DEF NoTabLeft
    <3>1. CASE m = n
      BY <1>2, <1>6, <2>1, <3>1
    <3>2. CASE m # n
      <4>1. PICK e \in Dispatchers : dsp[e].pc = "wait" /\ dsp[e].attempt = m
        BY <2>1, <3>2 DEF DispatchInv, NoTabLeft
      <4>2. e # d
        BY <3>2, <4>1
      <4> QED BY <1>2, <4>1, <4>2
    <3> QED BY <3>1, <3>2
  <2>4. DispatchTypes'
    <3>1. /\ TabRow' = TabRow /\ RealmRow' = RealmRow /\ ResultRows' = ResultRows
          /\ TaskRow' = TaskRow
      BY DEF TabRow, SessionRow, RealmRow, ResultRows, TaskRow
    <3>2. DispatcherRow' = DispatcherRow
      BY DEF DispatcherRow
    <3> QED BY <1>1, <1>2, <2>1, <3>1, <3>2 DEF DispatchTypes
  <2> QED BY <1>3, <1>4, <2>2, <2>3, <2>4 DEF DispatchInv, TaskSound
<1> QED BY <1>5, <1>6

\* A claim gives the dispatcher the next attempt.
LEMMA ClaimKeeps ==
  ASSUME DispatchInv, NEW d \in Dispatchers, Claim(d)
  PROVE  DispatchInv'
<1>1. /\ UNCHANGED <<recipe, results, tabs, realms>> /\ dsp[d].pc = "idle"
      /\ task.status = "pending" /\ task.attempt < MaxAttempts
      /\ task' = [task EXCEPT !.status = "held", !.owner = d, !.attempt = task.attempt + 1]
      /\ dsp' = [dsp EXCEPT ![d] = [pc |-> "claimed", attempt |-> task.attempt + 1]]
  BY DEF Claim, ServerClaim, DispatchInv
<1>2. task \in TaskRow /\ MaxAttempts \in Nat
  BY DispatchAssumption DEF DispatchInv, DispatchTypes
<1>3. task.attempt \in Nat /\ task.attempt + 1 \in Attempts /\ task.attempt + 1 \in 0..MaxAttempts
  BY <1>1, <1>2 DEF TaskRow, Attempts
<1>4. PICK w \in DispatcherRow : w = [pc |-> "claimed", attempt |-> task.attempt + 1]
  BY <1>3 DEF DispatcherRow
<1>5. task' \in TaskRow /\ task'.status = "held"
  BY <1>1, <1>2, <1>3 DEF TaskRow
<1>6. PICK n \in Attempts : n = task.attempt + 1
  BY <1>3
<1>7. TaskSound'
  BY <1>5 DEF TaskSound
<1>8. dsp' = [dsp EXCEPT ![d] = w] /\ w.attempt \in Attempts
  BY <1>1, <1>3, <1>4
<1> QED BY <1>1, <1>5, <1>7, <1>8, DispatcherStep

\* The tab of the claimed attempt opens, and its dispatcher waits.
LEMMA OpenTabKeeps ==
  ASSUME DispatchInv, NEW d \in Dispatchers, OpenTab(d)
  PROVE  DispatchInv'
<1>1. /\ UNCHANGED <<recipe, results, task>> /\ dsp[d].pc = "claimed"
      /\ dsp' = [dsp EXCEPT ![d].pc = "wait"]
      /\ tabs' = [tabs EXCEPT ![dsp[d].attempt] = [open |-> TRUE, hash |-> TRUE,
                                                    session |-> NoSession]]
      /\ realms' = [realms EXCEPT ![dsp[d].attempt] = Booting]
  BY DEF OpenTab
<1>2. dsp[d] \in DispatcherRow /\ Len(recipe) \in Nat /\ task \in TaskRow
  BY DEF DispatchInv, DispatchTypes
<1>3. PICK n \in Attempts : n = dsp[d].attempt
  BY <1>1 DEF DispatchInv
<1>4. PICK w \in DispatcherRow : w = [dsp[d] EXCEPT !.pc = "wait"]
  <2>1. [dsp[d] EXCEPT !.pc = "wait"] \in DispatcherRow
    BY <1>2 DEF DispatcherRow
  <2> QED BY <2>1
<1>5. w.pc = "wait" /\ w.attempt = n
  BY <1>2, <1>3, <1>4 DEF DispatcherRow
<1>6. PICK t \in TabRow : t = [open |-> TRUE, hash |-> TRUE, session |-> NoSession]
  BY <1>2, EmptyRows DEF TabRow
<1>7. PICK r \in RealmRow : r = Booting
  BY <1>2, EmptyRows
<1>8. /\ tabs' = [tabs EXCEPT ![n] = t] /\ realms' = [realms EXCEPT ![n] = r]
      /\ t.session = NoSession
  BY <1>1, <1>3, <1>6, <1>7
<1>9. task' \in TaskRow /\ TaskSound'
  <2>1. TaskSound /\ \A m, k : Stored(m, k) => Stored(m, k)'
    BY <1>1, RowsStay DEF DispatchInv, TaskSound
  <2> QED BY <1>1, <1>2, <2>1 DEF TaskSound
<1>10. dsp' = [dsp EXCEPT ![d] = w]
  BY <1>1, <1>4
<1>11. \E u \in TabRow, q \in RealmRow :
         /\ tabs' = [tabs EXCEPT ![n] = u] /\ realms' = [realms EXCEPT ![n] = q]
         /\ u.session = NoSession /\ q \in {NoRealm, Booting}
         /\ u.open => w.pc = "wait" /\ w.attempt = n
  BY <1>5, <1>7, <1>8
<1>12. (dsp[d].pc = "wait" => dsp[d].attempt = n) /\ (w.pc # "idle" => w.attempt \in Attempts)
  BY <1>3, <1>5
<1>13. UNCHANGED <<recipe, results>>
  BY <1>1
<1> QED BY <1>9, <1>10, <1>11, <1>12, <1>13, DispatcherStep

\* A dispatcher that cannot open a tab gives the attempt up.
LEMMA GiveUpKeeps ==
  ASSUME DispatchInv, NEW d \in Dispatchers, GiveUp(d)
  PROVE  DispatchInv'
<1>1. /\ UNCHANGED <<recipe, results, tabs, realms>> /\ dsp[d].pc = "claimed"
      /\ dsp' = [dsp EXCEPT ![d] = [pc |-> "idle", attempt |-> 0]]
      /\ task' \in {task, [task EXCEPT !.status = "failed"]}
  BY DEF GiveUp
<1>2. task \in TaskRow /\ TaskSound /\ MaxAttempts \in Nat
  BY DispatchAssumption DEF DispatchInv, DispatchTypes, TaskSound
<1>3. PICK w \in DispatcherRow : w = [pc |-> "idle", attempt |-> 0]
  <2>1. [pc |-> "idle", attempt |-> 0] \in DispatcherRow
    BY <1>2 DEF DispatcherRow
  <2> QED BY <2>1
<1>4. task' \in TaskRow /\ (task' = task \/ task'.status = "failed")
  BY <1>1, <1>2 DEF TaskRow, Ended
<1>5. TaskSound'
  <2>1. \A m, k : Stored(m, k) => Stored(m, k)'
    BY <1>1, RowsStay DEF DispatchInv
  <2> QED BY <1>1, <1>2, <1>4, <2>1 DEF TaskSound
<1>6. PICK n \in Attempts : n = dsp[d].attempt
  BY <1>1 DEF DispatchInv
<1>7. dsp' = [dsp EXCEPT ![d] = w] /\ w.pc = "idle"
  BY <1>1, <1>3
<1> QED BY <1>1, <1>4, <1>5, <1>7, DispatcherStep

\* The tab is closed when the dispatcher stops waiting, whatever made it stop.
LEMMA CloseKeeps ==
  ASSUME DispatchInv, NEW d \in Dispatchers, SeesTerminal(d) \/ WaitCap(d)
  PROVE  DispatchInv'
<1>1. /\ UNCHANGED <<recipe, results, task>> /\ dsp[d].pc = "wait"
      /\ dsp' = [dsp EXCEPT ![d] = [pc |-> "idle", attempt |-> 0]]
      /\ tabs' = [tabs EXCEPT ![dsp[d].attempt] = NoTab]
      /\ realms' = [realms EXCEPT ![dsp[d].attempt] = NoRealm]
  BY DEF SeesTerminal, WaitCap, CloseDispatchedTab
<1>2. Len(recipe) \in Nat /\ task \in TaskRow /\ TaskSound /\ MaxAttempts \in Nat
  BY DispatchAssumption DEF DispatchInv, DispatchTypes, TaskSound
<1>3. PICK n \in Attempts : n = dsp[d].attempt
  BY <1>1 DEF DispatchInv
<1>4. PICK w \in DispatcherRow : w = [pc |-> "idle", attempt |-> 0]
  <2>1. [pc |-> "idle", attempt |-> 0] \in DispatcherRow
    BY <1>2 DEF DispatcherRow
  <2> QED BY <2>1
<1>5. PICK t \in TabRow : t = NoTab
  BY <1>2, EmptyRows DEF TabRow, NoTab
<1>6. t.session = NoSession /\ ~t.open
  BY <1>5 DEF NoTab
<1>7. PICK r \in RealmRow : r = NoRealm
  BY <1>2, EmptyRows
<1>8. /\ tabs' = [tabs EXCEPT ![n] = t] /\ realms' = [realms EXCEPT ![n] = r]
      /\ dsp' = [dsp EXCEPT ![d] = w] /\ w.pc = "idle"
  BY <1>1, <1>3, <1>4, <1>5, <1>7
<1>9. task' \in TaskRow /\ TaskSound'
  <2>1. \A m, k : Stored(m, k) => Stored(m, k)'
    BY <1>1, RowsStay DEF DispatchInv
  <2> QED BY <1>1, <1>2, <2>1 DEF TaskSound
<1> QED BY <1>1, <1>3, <1>6, <1>7, <1>8, <1>9, DispatcherStep

-----------------------------------------------------------------------------
\* Nothing is claimed, stored or open at first.
LEMMA DispatchInvInit == DispatchInit => DispatchInv
<1> SUFFICES ASSUME DispatchInit PROVE DispatchInv
  OBVIOUS
<1>1. MaxAttempts \in Nat /\ MaxAttempts > 0 /\ recipe \in Seq({"send", "nav"})
  BY DispatchAssumption DEF DispatchInit
<1>2. /\ task = [status |-> "pending", owner |-> "none", attempt |-> 0, cancel |-> FALSE]
      /\ results = {} /\ dsp = [d \in Dispatchers |-> [pc |-> "idle", attempt |-> 0]]
      /\ tabs = [n \in Attempts |-> NoTab] /\ realms = [n \in Attempts |-> NoRealm]
  BY DEF DispatchInit
<1>3. Len(recipe) \in Nat
  BY <1>1
<1>4. NoRealm \in RealmRow /\ NoSession \in SessionRow
  BY <1>3, EmptyRows
<1>5. NoTab \in TabRow
  BY <1>4 DEF NoTab, TabRow
<1>6. task \in TaskRow /\ [pc |-> "idle", attempt |-> 0] \in DispatcherRow
  BY <1>1, <1>2 DEF TaskRow, DispatcherRow
<1>7. DispatchTypes
  BY <1>1, <1>2, <1>4, <1>5, <1>6 DEF DispatchTypes
<1>8. RowsNumbered
  BY <1>2 DEF RowsNumbered
<1>9. \A n \in Attempts : Stored(n, tabs[n].session.done) /\ RealmSound(n)
  BY <1>2 DEF Stored, NoTab, NoSession, RealmSound, RowSound, NoRealm
<1>10. NoTabLeft
  BY <1>2 DEF NoTabLeft, NoTab
<1>11. \A d \in Dispatchers : dsp[d].pc # "idle" => dsp[d].attempt \in Attempts
  BY <1>2
<1>12. /\ task.status = "pending" => task.attempt < MaxAttempts
       /\ task.status # "done"
  BY <1>1, <1>2
<1> QED BY <1>7, <1>8, <1>9, <1>10, <1>11, <1>12 DEF DispatchInv

\* Every step keeps the invariant.
LEMMA DispatchInvNext == DispatchInv /\ [DispatchNext]_dispatchVars => DispatchInv'
<1> SUFFICES ASSUME DispatchInv, [DispatchNext]_dispatchVars PROVE DispatchInv'
  OBVIOUS
<1>1. CASE LeaseLapses
  BY <1>1, LeaseLapsesKeeps
<1>2. CASE RequestCancel
  BY <1>2, RequestCancelKeeps
<1>3. ASSUME NEW d \in Dispatchers, Dispatching(d) \/ GiveUp(d) PROVE DispatchInv'
  BY <1>3, ClaimKeeps, OpenTabKeeps, CloseKeeps, GiveUpKeeps DEF Dispatching
<1>4. ASSUME NEW n \in Attempts, Executing(n) PROVE DispatchInv'
  BY <1>4, BootKeeps, SendResultKeeps, CheckpointKeeps, NavigateKeeps, RunRuleEndsKeeps,
     SendFinalSummaryKeeps, SendStatusKeeps DEF Executing
<1>5. ASSUME NEW n \in Attempts,
             BootRefuses(n) \/ SendFails(n) \/ Heartbeat(n) \/ SendStatusFails(n) \/ Reload(n)
      PROVE  DispatchInv'
  BY <1>5, BootRefusesKeeps, SendFailsKeeps, HeartbeatKeeps, SendStatusFailsKeeps, ReloadKeeps
<1>6. CASE UNCHANGED dispatchVars
  <2>1. UNCHANGED <<recipe, results, dsp, tabs, realms, task>>
    BY <1>6 DEF dispatchVars
  <2>2. task \in TaskRow /\ TaskSound /\ RowsNumbered
    BY DEF DispatchInv, DispatchTypes, TaskSound
  <2>3. \A m, k : Stored(m, k) => Stored(m, k)'
    BY <2>1, <2>2, RowsStay
  <2>4. task' \in TaskRow /\ TaskSound'
    BY <2>1, <2>2, <2>3 DEF TaskSound
  <2> QED BY <2>1, <2>4, TaskStep
<1> QED BY <1>1, <1>2, <1>3, <1>4, <1>5, <1>6 DEF DispatchNext

\* The invariant says what the headline says.
LEMMA DispatchInvExact == DispatchInv => DispatchIsExact
<1> SUFFICES ASSUME DispatchInv PROVE DispatchIsExact
  OBVIOUS
<1>1. /\ recipe \in Seq({"send", "nav"}) /\ Len(recipe) \in Nat
      /\ results \subseteq ResultRows /\ task \in TaskRow /\ realms \in [Attempts -> RealmRow]
  BY DEF DispatchInv, DispatchTypes
<1>2. DispatchTypeOK
  BY <1>1 DEF DispatchTypeOK, TaskRow, ResultRows, RealmRow
<1>3. DoneHasEveryRow
  <2>1. DOMAIN recipe = 1..Len(recipe)
    BY <1>1
  <2> QED BY <2>1 DEF DispatchInv, DoneHasEveryRow, Stored
<1>4. RowStoredOnce
  <2> SUFFICES ASSUME NEW r \in results, NEW s \in results, r.attempt = s.attempt,
                      r.kind = "batch", s.kind = "batch", r.what = s.what
               PROVE  r = s
    BY DEF RowStoredOnce
  <2>1. r.seq = s.seq
    BY DEF DispatchInv, RowsNumbered
  <2>2. r \in ResultRows /\ s \in ResultRows
    BY <1>1
  <2> QED BY <2>1, <2>2 DEF ResultRows
<1> QED BY <1>2, <1>3, <1>4 DEF DispatchIsExact, DispatchInv

\* For any rule, any number of dispatchers, attempts, reloads and faults: a done task has
\* every row of its rule stored under the reported attempt, each row once, and no tab
\* stays behind without a dispatcher that waits for it (dispatcher-entry.ts,
\* userscript-entry.ts, transport.ts).
THEOREM DispatchAlwaysExact == DispatchSpec => []DispatchIsExact
BY DispatchInvInit, DispatchInvNext, DispatchInvExact, PTL DEF DispatchSpec

-----------------------------------------------------------------------------
(* The channel from the page to its host.                                   *)

\* Where a call may be; those whose turn of the flush lock it is or will be; those whose
\* oldest entry is about to leave the buffer.
Pcs == {"flush", "shift", "send", "push", "reflush", "reshift", "returned", "threw", "rejected"}
Turns == {"flush", "shift", "push", "reflush", "reshift"}
Shifting == {"shift", "reshift"}
\* How a call was lost, and the rows of both tables.
Fates == {"open", "refused", "abort", "full"}
CallRows == [kind : {"entry", "terminal", "snapshot", "heartbeat", "other"}, pc : Pcs,
             sends : 0..MaxSends, sound : BOOLEAN]
ReachedRows == [taken : Nat, lost : Nat, fate : Fates]
\* A queue of distinct members, and whether i is one of them.
Once(s) == \A k, l \in DOMAIN s : s[k] = s[l] => k = l
Among(i, s) == \E k \in DOMAIN s : s[k] = i

\* Types.
BridgeTyped ==
  /\ calls \in Seq(CallRows) /\ reached \in Seq(ReachedRows) /\ DOMAIN reached = DOMAIN calls
  /\ Len(calls) = Len(reached)
  /\ busy \in 0..MaxBusy

\* One call and its row: a sound one, with attempts left while it sends, taken at most once more
\* than its answers were lost, and not even that before its own send is over.
CallSound(c, r) ==
  /\ c.sound
  /\ c.pc \in Turns \cup {"send"} => c.sends < MaxSends
  /\ c.pc \in Turns => c.kind = "entry"
  /\ r.taken <= 1 + r.lost
  /\ c.pc \in {"flush", "shift", "send", "push"} => r.taken <= r.lost
  /\ c.pc \in {"reflush", "reshift"} => r.taken > 0

\* Every call, and where a returned log or status went.
CallsSound == \A i \in DOMAIN calls :
  /\ CallSound(calls[i], reached[i])
  /\ calls[i].kind = "entry" /\ calls[i].pc = "returned" =>
       reached[i].taken > 0 \/ reached[i].fate # "open" \/ Among(i, buffer)

\* withFlushLock: those in line are the calls whose turn it is or will be, each once; who is
\* about to take the oldest entry out holds the lock, and the server has that entry.
LockSound ==
  /\ chain \in Seq(Nat) /\ Once(chain)
  /\ \A k \in DOMAIN chain : chain[k] \in DOMAIN calls
  /\ \A i \in DOMAIN calls : calls[i].pc \in Turns <=> Among(i, chain)
  /\ \A i \in DOMAIN calls : calls[i].pc \in Shifting =>
       chain[1] = i /\ buffer # <<>> /\ reached[buffer[1]].taken > 0

\* The buffer: distinct entries of calls that returned, none of which the server has answered
\* for but the one that is about to leave.
BufferSound ==
  /\ buffer \in Seq(Nat) /\ Once(buffer) /\ Len(buffer) <= Capacity
  /\ \A k \in DOMAIN buffer :
       /\ buffer[k] \in DOMAIN calls /\ calls[buffer[k]].pc = "returned"
       /\ reached[buffer[k]].taken <= reached[buffer[k]].lost
          \/ (k = 1 /\ \E i \in DOMAIN calls : calls[i].pc \in Shifting)

\* The inductive invariant.
BridgeInv == BridgeTyped /\ CallsSound /\ LockSound /\ BufferSound

\* A sequence with one element replaced.
LEMMA OneReplaced ==
  ASSUME NEW S, NEW s \in Seq(S), NEW i \in DOMAIN s, NEW e \in S
  PROVE  /\ [s EXCEPT ![i] = e] \in Seq(S) /\ DOMAIN [s EXCEPT ![i] = e] = DOMAIN s
         /\ Len([s EXCEPT ![i] = e]) = Len(s)
         /\ [s EXCEPT ![i] = e][i] = e
         /\ \A k \in DOMAIN s : k # i => [s EXCEPT ![i] = e][k] = s[k]
  OBVIOUS

\* A sequence with one element more.
LEMMA OneAppended ==
  ASSUME NEW S, NEW s \in Seq(S), NEW e \in S
  PROVE  /\ Append(s, e) \in Seq(S) /\ Len(Append(s, e)) = Len(s) + 1 /\ Len(s) \in Nat
         /\ DOMAIN s = 1..Len(s) /\ DOMAIN Append(s, e) = 1..Len(s) + 1
         /\ Append(s, e)[Len(s) + 1] = e
         /\ \A k \in DOMAIN s : Append(s, e)[k] = s[k]
  OBVIOUS

\* A sequence without its first element.
LEMMA FirstLeaves ==
  ASSUME NEW S, NEW s \in Seq(S), s # <<>>
  PROVE  /\ Tail(s) \in Seq(S) /\ Len(Tail(s)) = Len(s) - 1 /\ Len(s) \in Nat \ {0}
         /\ DOMAIN s = 1..Len(s) /\ DOMAIN Tail(s) = 1..Len(s) - 1 /\ Head(s) = s[1] /\ 1 \in DOMAIN s
         /\ \A k \in DOMAIN Tail(s) : Tail(s)[k] = s[k + 1] /\ k + 1 \in DOMAIN s
         /\ \A k \in DOMAIN s : k # 1 => k - 1 \in DOMAIN Tail(s) /\ Tail(s)[k - 1] = s[k]
  OBVIOUS

\* Someone who joins a queue of distinct members.
LEMMA QueueJoined ==
  ASSUME NEW s \in Seq(Nat), Once(s), NEW i \in Nat, ~Among(i, s)
  PROVE  /\ Append(s, i) \in Seq(Nat) /\ Once(Append(s, i))
         /\ \A k : Among(k, Append(s, i)) <=> Among(k, s) \/ k = i
         /\ s # <<>> => Append(s, i)[1] = s[1]
         /\ \A k \in DOMAIN Append(s, i) : Append(s, i)[k] = i \/ (k \in DOMAIN s /\ Append(s, i)[k] = s[k])
<1>1. /\ Append(s, i) \in Seq(Nat) /\ Len(s) \in Nat
      /\ DOMAIN s = 1..Len(s) /\ DOMAIN Append(s, i) = 1..Len(s) + 1
      /\ Append(s, i)[Len(s) + 1] = i
      /\ \A k \in DOMAIN s : Append(s, i)[k] = s[k]
  BY OneAppended
<1>2. s # <<>> => 1 \in DOMAIN s
  BY <1>1
<1> DEFINE t == Append(s, i)
<1> HIDE DEF t
<1>3. \A k \in DOMAIN t : (k = Len(s) + 1 /\ t[k] = i) \/ (k \in DOMAIN s /\ t[k] = s[k])
  BY <1>1 DEF t
<1>4. Len(s) + 1 \in DOMAIN t /\ DOMAIN s \subseteq DOMAIN t /\ t[Len(s) + 1] = i /\ \A k \in DOMAIN s : t[k] = s[k]
  BY <1>1 DEF t
<1>5. Once(t)
  BY <1>3 DEF Once, Among
<1>6. \A k : Among(k, t) <=> Among(k, s) \/ k = i
  BY <1>3, <1>4 DEF Among
<1> QED BY <1>1, <1>2, <1>3, <1>5, <1>6 DEF t

\* The first of a queue of distinct members leaves.
LEMMA QueueLeft ==
  ASSUME NEW s \in Seq(Nat), Once(s), s # <<>>
  PROVE  /\ Tail(s) \in Seq(Nat) /\ Once(Tail(s)) /\ ~Among(Head(s), Tail(s)) /\ Head(s) = s[1]
         /\ \A k : Among(k, s) <=> Among(k, Tail(s)) \/ k = Head(s)
         /\ \A k \in DOMAIN Tail(s) : k + 1 \in DOMAIN s /\ k + 1 # 1 /\ Tail(s)[k] = s[k + 1]
<1>1. /\ Tail(s) \in Seq(Nat) /\ Len(s) \in Nat \ {0}
      /\ DOMAIN s = 1..Len(s) /\ DOMAIN Tail(s) = 1..Len(s) - 1 /\ Head(s) = s[1] /\ 1 \in DOMAIN s
      /\ \A k \in DOMAIN Tail(s) : Tail(s)[k] = s[k + 1] /\ k + 1 \in DOMAIN s
      /\ \A k \in DOMAIN s : k # 1 => k - 1 \in DOMAIN Tail(s) /\ Tail(s)[k - 1] = s[k]
  BY FirstLeaves
<1> DEFINE t == Tail(s)
<1>2. \A k \in DOMAIN t : k + 1 \in DOMAIN s /\ k + 1 # 1 /\ t[k] = s[k + 1]
  BY <1>1
<1> HIDE DEF t
<1>3. Once(t)
  <2> SUFFICES ASSUME NEW k \in DOMAIN t, NEW l \in DOMAIN t, t[k] = t[l] PROVE k = l
    BY DEF Once
  <2>1. k + 1 = l + 1
    BY <1>2 DEF Once
  <2>2. k \in Nat /\ l \in Nat
    BY <1>1 DEF t
  <2> QED BY <2>1, <2>2
<1>4. ~Among(Head(s), t)
  BY <1>1, <1>2 DEF Once, Among
<1>5. \A k : Among(k, s) <=> Among(k, t) \/ k = Head(s)
  BY <1>1, <1>2, ZenonT(60) DEF Among, t
<1> QED BY <1>1, <1>2, <1>3, <1>4, <1>5 DEF t

\* One call of the page goes on.
Moved(i, p, n) == calls' = [calls EXCEPT ![i] = [@ EXCEPT !.pc = p, !.sends = n]]

\* The other calls stay where they are.
LEMMA CallMoved ==
  ASSUME BridgeTyped, NEW i \in DOMAIN calls, NEW p \in Pcs, NEW n \in 0..MaxSends,
         Moved(i, p, n)
  PROVE  /\ calls' \in Seq(CallRows) /\ DOMAIN calls' = DOMAIN calls /\ Len(calls') = Len(calls)
         /\ calls'[i].kind = calls[i].kind /\ calls'[i].sound = calls[i].sound
         /\ calls'[i].pc = p /\ calls'[i].sends = n
         /\ \A k \in DOMAIN calls : k # i => calls'[k] = calls[k]
<1> DEFINE c == [calls[i] EXCEPT !.pc = p, !.sends = n]
<1>1. calls \in Seq(CallRows) /\ calls[i] \in CallRows
  BY DEF BridgeTyped
<1>2. c \in CallRows /\ c.kind = calls[i].kind /\ c.sound = calls[i].sound /\ c.pc = p /\ c.sends = n
  BY <1>1 DEF CallRows
<1>3. calls' = [calls EXCEPT ![i] = c]
  BY DEF Moved
<1> HIDE DEF c
<1>4. /\ calls' \in Seq(CallRows) /\ DOMAIN calls' = DOMAIN calls /\ Len(calls') = Len(calls)
      /\ calls'[i] = c
      /\ \A k \in DOMAIN calls : k # i => calls'[k] = calls[k]
  BY <1>1, <1>2, <1>3, OneReplaced
<1> QED BY <1>2, <1>4

\* A request and its answer are counted for the call it carries.
LEMMA RequestCounted ==
  ASSUME BridgeTyped, NEW x \in DOMAIN calls, NEW reply \in {"ok", "lost", "busy", "refused", "abort"},
         NEW dropped \in BOOLEAN, dropped => reply \in {"refused", "abort"}, Request(x, reply, dropped)
  PROVE  /\ reached' \in Seq(ReachedRows) /\ DOMAIN reached' = DOMAIN reached /\ Len(reached') = Len(reached)
         /\ \A k \in DOMAIN reached : k # x => reached'[k] = reached[k]
         /\ reached'[x].taken = reached[x].taken + IF reply \in {"ok", "lost"} THEN 1 ELSE 0
         /\ reached'[x].lost = reached[x].lost + IF reply = "lost" THEN 1 ELSE 0
         /\ reached'[x].fate = IF dropped THEN reply ELSE reached[x].fate
         /\ busy' \in 0..MaxBusy
<1> DEFINE r == [taken |-> reached[x].taken + (IF reply \in {"ok", "lost"} THEN 1 ELSE 0),
                 lost  |-> reached[x].lost + (IF reply = "lost" THEN 1 ELSE 0),
                 fate  |-> IF dropped THEN reply ELSE reached[x].fate]
<1>1. reached \in Seq(ReachedRows) /\ x \in DOMAIN reached /\ reached[x] \in ReachedRows /\ busy \in 0..MaxBusy
  BY DEF BridgeTyped
<1>2. r \in ReachedRows
  BY <1>1 DEF ReachedRows, Fates
<1>3. reached' = [reached EXCEPT ![x] = r]
  BY DEF Request
<1>4. busy' \in 0..MaxBusy
  <2>1. busy' = busy + (IF reply \in {"lost", "busy", "refused"} THEN 1 ELSE 0)
        /\ (reply \in {"lost", "busy", "refused"} => busy < MaxBusy)
    BY DEF Request
  <2>2. CASE reply \in {"lost", "busy", "refused"}
    BY <2>1, <2>2, <1>1, PageBridgeAssumption
  <2>3. CASE reply \notin {"lost", "busy", "refused"}
    <3>1. busy' = busy + 0
      BY <2>1, <2>3
    <3> QED BY <3>1, <1>1
  <2> QED BY <2>2, <2>3
<1>5. /\ r.taken = reached[x].taken + (IF reply \in {"ok", "lost"} THEN 1 ELSE 0)
      /\ r.lost = reached[x].lost + (IF reply = "lost" THEN 1 ELSE 0)
      /\ r.fate = IF dropped THEN reply ELSE reached[x].fate
  OBVIOUS
<1> HIDE DEF r
<1>6. /\ reached' \in Seq(ReachedRows) /\ DOMAIN reached' = DOMAIN reached /\ Len(reached') = Len(reached)
      /\ \A k \in DOMAIN reached : k # x => reached'[k] = reached[k]
      /\ reached'[x] = r
  BY <1>1, <1>2, <1>3, OneReplaced
<1> QED BY <1>4, <1>5, <1>6

\* Who holds the lock is the only one whose entry is about to leave the buffer.
LEMMA OneShifts ==
  ASSUME BridgeInv, NEW i \in DOMAIN calls, HoldsLock(i), calls[i].pc \in Turns
  PROVE  /\ chain # <<>> /\ chain[1] = i /\ Head(chain) = i
         /\ \A j \in DOMAIN calls : j # i => calls[j].pc \notin Shifting
<1>1. chain # <<>> /\ chain \in Seq(Nat)
  BY DEF BridgeInv, LockSound, Among
<1>2. Head(chain) = chain[1]
  BY <1>1
<1> QED BY <1>1, <1>2 DEF BridgeInv, LockSound, HoldsLock

\* The turns of the chain after a step of one call: it stays, joins or leaves.
LEMMA TurnsKept ==
  ASSUME BridgeInv, NEW i \in DOMAIN calls, DOMAIN calls' = DOMAIN calls,
         \A k \in DOMAIN calls : k # i => calls'[k] = calls[k],
         \/ chain' = chain /\ (calls'[i].pc \in Turns <=> calls[i].pc \in Turns)
         \/ chain' = Append(chain, i) /\ calls[i].pc \notin Turns /\ calls'[i].pc \in Turns
         \/ chain' = Released /\ calls[i].pc \in Turns /\ HoldsLock(i) /\ calls'[i].pc \notin Turns
  PROVE  /\ chain' \in Seq(Nat) /\ Once(chain')
         /\ \A k \in DOMAIN chain' : chain'[k] \in DOMAIN calls'
         /\ \A j \in DOMAIN calls' : calls'[j].pc \in Turns <=> Among(j, chain')
         /\ \A j \in DOMAIN calls : j # i /\ calls[j].pc \in Shifting => chain'[1] = j
<1>1. /\ chain \in Seq(Nat) /\ Once(chain)
      /\ \A k \in DOMAIN chain : chain[k] \in DOMAIN calls
      /\ \A j \in DOMAIN calls : calls[j].pc \in Turns <=> Among(j, chain)
      /\ \A j \in DOMAIN calls : calls[j].pc \in Shifting => chain[1] = j
  BY DEF BridgeInv, LockSound
<1>2. \A j \in DOMAIN calls : calls[j].pc \in Shifting => chain # <<>>
  BY <1>1 DEF Shifting, Turns, Among
<1>3. i \in Nat
  BY DEF BridgeInv, BridgeTyped
<1>4. CASE chain' = chain /\ (calls'[i].pc \in Turns <=> calls[i].pc \in Turns)
  <2>1. \A j \in DOMAIN calls' : calls'[j].pc \in Turns <=> Among(j, chain')
    BY <1>1, <1>4
  <2> QED BY <1>1, <1>4, <2>1
<1>5. CASE chain' = Append(chain, i) /\ calls[i].pc \notin Turns /\ calls'[i].pc \in Turns
  <2>1. ~Among(i, chain)
    BY <1>1, <1>5
  <2>2. /\ chain' \in Seq(Nat) /\ Once(chain')
        /\ \A k : Among(k, chain') <=> Among(k, chain) \/ k = i
        /\ chain # <<>> => chain'[1] = chain[1]
        /\ \A k \in DOMAIN chain' : chain'[k] = i \/ (k \in DOMAIN chain /\ chain'[k] = chain[k])
    BY <1>1, <1>3, <1>5, <2>1, QueueJoined
  <2>3. \A j \in DOMAIN calls' : calls'[j].pc \in Turns <=> Among(j, chain')
    BY <1>1, <1>5, <2>2
  <2> QED BY <1>1, <1>2, <2>2, <2>3
<1>6. CASE chain' = Released /\ calls[i].pc \in Turns /\ HoldsLock(i) /\ calls'[i].pc \notin Turns
  <2>1. /\ chain # <<>> /\ Head(chain) = i
        /\ \A j \in DOMAIN calls : j # i => calls[j].pc \notin Shifting
    BY <1>6, OneShifts
  <2>2. /\ chain' \in Seq(Nat) /\ Once(chain') /\ ~Among(i, chain')
        /\ \A k : Among(k, chain) <=> Among(k, chain') \/ k = i
        /\ \A k \in DOMAIN chain' : k + 1 \in DOMAIN chain /\ chain'[k] = chain[k + 1]
    BY <1>1, <1>6, <2>1, QueueLeft DEF Released
  <2>3. \A j \in DOMAIN calls' : calls'[j].pc \in Turns <=> Among(j, chain')
    BY <1>1, <1>6, <2>2
  <2> QED BY <1>1, <2>1, <2>2, <2>3
<1> QED BY <1>4, <1>5, <1>6

\* Two fields of a call written, in either order, or one of them.
LEMMA FieldsWritten ==
  ASSUME BridgeTyped, NEW i \in DOMAIN calls, NEW p \in Pcs, NEW n \in 0..MaxSends,
         \/ calls' = [calls EXCEPT ![i].sends = n, ![i].pc = p]
         \/ calls' = [calls EXCEPT ![i].pc = p, ![i].sends = n]
         \/ n = calls[i].sends /\ calls' = [calls EXCEPT ![i].pc = p]
         \/ p = calls[i].pc /\ calls' = [calls EXCEPT ![i].sends = n]
  PROVE  Moved(i, p, n)
<1> DEFINE D == DOMAIN calls
<1>1. calls \in [D -> CallRows]
  BY DEF BridgeTyped
<1> HIDE DEF D
<1>2. i \in D
  BY DEF D
<1>3. [calls EXCEPT ![i].sends = n, ![i].pc = p] = [calls EXCEPT ![i] = [@ EXCEPT !.pc = p, !.sends = n]]
  BY <1>1, <1>2 DEF CallRows
<1>4. [calls EXCEPT ![i].pc = p, ![i].sends = n] = [calls EXCEPT ![i] = [@ EXCEPT !.pc = p, !.sends = n]]
  BY <1>1, <1>2 DEF CallRows
<1>5. n = calls[i].sends => [calls EXCEPT ![i].pc = p] = [calls EXCEPT ![i] = [@ EXCEPT !.pc = p, !.sends = n]]
  BY <1>1, <1>2 DEF CallRows
<1>6. p = calls[i].pc => [calls EXCEPT ![i].sends = n] = [calls EXCEPT ![i] = [@ EXCEPT !.pc = p, !.sends = n]]
  BY <1>1, <1>2 DEF CallRows
<1> QED BY <1>3, <1>4, <1>5, <1>6 DEF Moved

\* A step of one call that leaves the buffer alone and may count a request of call x.
LEMMA CallKeeps ==
  ASSUME BridgeInv, NEW i \in DOMAIN calls, NEW p \in Pcs, NEW n \in 0..MaxSends,
         calls[i].pc \notin Shifting, calls[i].pc # "returned",
         Moved(i, p, n),
         buffer' = buffer, busy' \in 0..MaxBusy,
         NEW x \in DOMAIN calls, reached' \in Seq(ReachedRows), DOMAIN reached' = DOMAIN reached,
         Len(reached') = Len(reached), \A k \in DOMAIN reached : k # x => reached'[k] = reached[k],
         reached[x].taken <= reached'[x].taken, reached[x].fate # "open" => reached'[x].fate # "open",
         \/ chain' = chain /\ (p \in Turns <=> calls[i].pc \in Turns)
         \/ chain' = Append(chain, i) /\ calls[i].pc \notin Turns /\ p \in Turns
         \/ chain' = Released /\ calls[i].pc \in Turns /\ HoldsLock(i) /\ p \notin Turns,
         CallSound(calls'[i], reached'[i]), x # i => CallSound(calls[x], reached'[x]),
         calls[i].kind = "entry" /\ p = "returned" => reached'[i].taken > 0 \/ reached'[i].fate # "open",
         p \in Shifting =>
           calls[i].pc \in Turns /\ HoldsLock(i) /\ buffer # <<>> /\ reached'[buffer[1]].taken > 0,
         \A k \in DOMAIN buffer : buffer[k] = x =>
           reached'[x].taken <= reached'[x].lost \/ (k = 1 /\ p \in Shifting)
  PROVE  BridgeInv'
<1>1. /\ calls' \in Seq(CallRows) /\ DOMAIN calls' = DOMAIN calls /\ Len(calls') = Len(calls)
      /\ calls'[i].kind = calls[i].kind /\ calls'[i].pc = p
      /\ \A k \in DOMAIN calls : k # i => calls'[k] = calls[k]
  BY CallMoved DEF BridgeInv
<1>2. BridgeTyped'
  BY <1>1 DEF BridgeInv, BridgeTyped
<1>3. /\ DOMAIN reached = DOMAIN calls
      /\ \A k \in DOMAIN calls : CallSound(calls[k], reached[k])
      /\ buffer \in Seq(Nat) /\ Once(buffer)
  BY DEF BridgeInv, BridgeTyped, CallsSound, BufferSound
<1>4. \A k \in DOMAIN calls : reached[k].taken \in Nat /\ reached'[k].taken \in Nat /\ reached[k].taken <= reached'[k].taken
  <2> TAKE k \in DOMAIN calls
  <2>1. reached[k] \in ReachedRows /\ reached'[k] \in ReachedRows
    BY <1>3 DEF BridgeInv, BridgeTyped
  <2>2. reached[k].taken \in Nat /\ reached'[k].taken \in Nat
    BY <2>1 DEF ReachedRows
  <2>3. k = x \/ reached'[k] = reached[k]
    BY <1>3
  <2> QED BY <2>2, <2>3
<1>5. \A k \in DOMAIN calls : reached[k].fate # "open" => reached'[k].fate # "open"
  <2> TAKE k \in DOMAIN calls
  <2>1. k = x \/ reached'[k] = reached[k]
    BY <1>3
  <2> QED BY <2>1
<1>6. \A k \in DOMAIN calls' : CallSound(calls'[k], reached'[k])
  <2> TAKE k \in DOMAIN calls'
  <2>1. k \in DOMAIN calls
    BY <1>1
  <2>2. CASE k = i
    BY <2>2
  <2>3. CASE k # i /\ k = x
    BY <2>1, <2>3, <1>1
  <2>4. CASE k # i /\ k # x
    BY <2>1, <2>4, <1>1, <1>3
  <2> QED BY <2>2, <2>3, <2>4
<1>7. CallsSound'
  <2> SUFFICES ASSUME NEW k \in DOMAIN calls', calls'[k].kind = "entry", calls'[k].pc = "returned"
               PROVE  reached'[k].taken > 0 \/ reached'[k].fate # "open" \/ Among(k, buffer')
    BY <1>6 DEF CallsSound
  <2>1. CASE k = i
    BY <2>1, <1>1
  <2>2. CASE k # i
    <3>1. reached[k].taken > 0 \/ reached[k].fate # "open" \/ Among(k, buffer)
      BY <2>2, <1>1 DEF BridgeInv, CallsSound
    <3>2. k \in DOMAIN calls
      BY <1>1
    <3> QED BY <3>1, <3>2, <1>4, <1>5
  <2> QED BY <2>1, <2>2
<1>8. /\ chain' \in Seq(Nat) /\ Once(chain')
      /\ \A k \in DOMAIN chain' : chain'[k] \in DOMAIN calls'
      /\ \A j \in DOMAIN calls' : calls'[j].pc \in Turns <=> Among(j, chain')
      /\ \A j \in DOMAIN calls : j # i /\ calls[j].pc \in Shifting => chain'[1] = j
  BY <1>1, TurnsKept
<1>9. LockSound'
  <2> SUFFICES ASSUME NEW j \in DOMAIN calls', calls'[j].pc \in Shifting
               PROVE  chain'[1] = j /\ buffer' # <<>> /\ reached'[buffer'[1]].taken > 0
    BY <1>8 DEF LockSound
  <2>1. CASE j = i
    <3>1. /\ p \in Shifting /\ calls[i].pc \in Turns /\ HoldsLock(i)
          /\ buffer # <<>> /\ reached'[buffer[1]].taken > 0
      BY <2>1, <1>1
    <3>2. p \in Turns
      BY <3>1 DEF Turns, Shifting
    <3>3. chain' = chain /\ chain[1] = i
      BY <3>1, <3>2, OneShifts
    <3> QED BY <3>1, <3>3, <2>1
  <2>2. CASE j # i
    <3>1. j \in DOMAIN calls /\ calls[j].pc \in Shifting
      BY <2>2, <1>1
    <3>2. chain[1] = j /\ buffer # <<>> /\ reached[buffer[1]].taken > 0
      BY <3>1 DEF BridgeInv, LockSound
    <3>3. 1 \in DOMAIN buffer
      BY <3>2, <1>3
    <3>4. buffer[1] \in DOMAIN calls
      BY <3>3 DEF BridgeInv, BufferSound
    <3>5. reached'[buffer[1]].taken > 0
      BY <3>2, <3>4, <1>4
    <3> QED BY <3>1, <3>2, <3>5, <2>2, <1>8
  <2> QED BY <2>1, <2>2
<1>10. BufferSound'
  <2>1. ASSUME NEW k \in DOMAIN buffer
        PROVE  /\ buffer[k] \in DOMAIN calls' /\ calls'[buffer[k]].pc = "returned"
               /\ reached'[buffer[k]].taken <= reached'[buffer[k]].lost
                  \/ (k = 1 /\ \E j \in DOMAIN calls' : calls'[j].pc \in Shifting)
    <3>1. /\ buffer[k] \in DOMAIN calls /\ calls[buffer[k]].pc = "returned"
          /\ reached[buffer[k]].taken <= reached[buffer[k]].lost
             \/ (k = 1 /\ \E j \in DOMAIN calls : calls[j].pc \in Shifting)
      BY <2>1 DEF BridgeInv, BufferSound
    <3>2. buffer[k] # i /\ calls'[buffer[k]].pc = "returned"
      BY <3>1, <1>1
    <3>3. CASE buffer[k] = x
      BY <3>1, <3>2, <3>3, <1>1
    <3>4. CASE buffer[k] # x
      <4>1. reached'[buffer[k]] = reached[buffer[k]]
        BY <3>1, <3>4, <1>3
      <4>2. \A j \in DOMAIN calls : calls[j].pc \in Shifting => calls'[j].pc \in Shifting
        BY <1>1
      <4> QED BY <3>1, <3>2, <4>1, <4>2, <1>1
    <3> QED BY <3>3, <3>4, <3>1, <3>2, <1>1
  <2> QED BY <2>1 DEF BridgeInv, BufferSound
<1> QED BY <1>2, <1>7, <1>9, <1>10 DEF BridgeInv

\* What a call and its row are, as far as the steps below ask.
LEMMA CallKnown ==
  ASSUME BridgeInv, NEW i \in DOMAIN calls
  PROVE  /\ calls \in Seq(CallRows) /\ calls[i] \in CallRows /\ reached[i] \in ReachedRows
         /\ reached \in Seq(ReachedRows) /\ DOMAIN reached = DOMAIN calls
         /\ calls[i].sends \in 0..MaxSends /\ calls[i].sends \in Nat /\ calls[i].pc \in Pcs
         /\ reached[i].taken \in Nat /\ reached[i].lost \in Nat
         /\ CallSound(calls[i], reached[i]) /\ busy \in 0..MaxBusy /\ MaxSends \in Nat \ {0}
<1>1. calls[i] \in CallRows /\ reached[i] \in ReachedRows /\ CallSound(calls[i], reached[i])
  BY DEF BridgeInv, BridgeTyped, CallsSound
<1>2. calls[i].sends \in 0..MaxSends /\ calls[i].pc \in Pcs /\ reached[i].taken \in Nat /\ reached[i].lost \in Nat
  BY <1>1 DEF CallRows, ReachedRows
<1>3. calls[i].sends \in Nat /\ MaxSends \in Nat \ {0}
  BY <1>2, PageBridgeAssumption
<1> QED BY <1>1, <1>2, <1>3 DEF BridgeInv, BridgeTyped

\* The oldest entry, while nobody is about to take it out.
LEMMA OldestKnown ==
  ASSUME BridgeInv, buffer # <<>>
  PROVE  /\ 1 \in DOMAIN buffer /\ Head(buffer) = buffer[1] /\ buffer[1] \in DOMAIN calls
         /\ calls[buffer[1]].pc = "returned"
         /\ (\A j \in DOMAIN calls : calls[j].pc \notin Shifting) =>
              reached[buffer[1]].taken <= reached[buffer[1]].lost
         /\ \A k \in DOMAIN buffer : buffer[k] = buffer[1] => k = 1
<1>1. buffer \in Seq(Nat) /\ 1 \in DOMAIN buffer /\ Head(buffer) = buffer[1]
  BY DEF BridgeInv, BufferSound
<1> QED BY <1>1 DEF BridgeInv, BufferSound, Once

\* A request of a flush: it carries the oldest entry, not the call that flushes.
LEMMA FlushSendKeeps ==
  ASSUME BridgeInv, NEW i \in Nat, FlushSend(i)
  PROVE  BridgeInv'
<1>1. /\ i \in DOMAIN calls /\ calls[i].pc \in {"flush", "reflush"} /\ HoldsLock(i) /\ buffer # <<>>
      /\ UNCHANGED <<buffer, settled, aborted>>
  BY DEF FlushSend, CallAt
<1>2. PICK reply \in {"ok", "lost", "busy", "refused", "abort"} :
        /\ Request(Head(buffer), reply, FALSE)
        /\ \/ /\ reply = "ok"
              /\ calls' = [calls EXCEPT ![i].sends = 0,
                              ![i].pc = IF @ = "flush" THEN "shift" ELSE "reshift"]
              /\ UNCHANGED chain
           \/ /\ Retries(i, reply)
              /\ calls' = [calls EXCEPT ![i].sends = @ + 1]
              /\ UNCHANGED chain
           \/ /\ reply # "ok" /\ ~Retries(i, reply)
              /\ calls' = [calls EXCEPT ![i].sends = 0,
                              ![i].pc = IF @ = "flush" THEN "send" ELSE "returned"]
              /\ chain' = Released
  BY DEF FlushSend
<1>3. /\ calls \in Seq(CallRows) /\ calls[i].sends \in Nat /\ calls[i].pc \in Pcs
      /\ reached[i].taken \in Nat /\ reached[i].lost \in Nat
      /\ CallSound(calls[i], reached[i]) /\ MaxSends \in Nat \ {0} /\ DOMAIN reached = DOMAIN calls
  BY <1>1, CallKnown
<1>4. calls[i].pc \in Turns /\ calls[i].pc \notin Shifting /\ calls[i].pc # "returned" /\ calls[i].kind = "entry"
  BY <1>1, <1>3 DEF Turns, Shifting, CallSound
<1>5. \A j \in DOMAIN calls : calls[j].pc \notin Shifting
  BY <1>1, <1>4, OneShifts
<1> DEFINE x == buffer[1]
<1>6. /\ x \in DOMAIN calls /\ Head(buffer) = x /\ x # i /\ calls[x].pc = "returned"
      /\ reached[x].taken <= reached[x].lost
      /\ \A k \in DOMAIN buffer : buffer[k] = x => k = 1
  BY <1>1, <1>5, OldestKnown
<1>7. reached[x].taken \in Nat /\ reached[x].lost \in Nat /\ CallSound(calls[x], reached[x])
  BY <1>6, CallKnown
<1> HIDE DEF x
<1>8. /\ reached' \in Seq(ReachedRows) /\ DOMAIN reached' = DOMAIN reached /\ Len(reached') = Len(reached)
      /\ \A k \in DOMAIN reached : k # x => reached'[k] = reached[k]
      /\ reached'[x].taken = reached[x].taken + IF reply \in {"ok", "lost"} THEN 1 ELSE 0
      /\ reached'[x].lost = reached[x].lost + IF reply = "lost" THEN 1 ELSE 0
      /\ reached'[x].fate = reached[x].fate
      /\ busy' \in 0..MaxBusy
  BY <1>2, <1>6, RequestCounted DEF BridgeInv
<1>9. /\ reached'[i] = reached[i] /\ reached[x].taken <= reached'[x].taken
      /\ reached'[x].taken <= 1 + reached'[x].lost
      /\ reply # "ok" => reached'[x].taken <= reached'[x].lost
      /\ reply = "ok" => reached'[x].taken > 0
  BY <1>1, <1>3, <1>6, <1>7, <1>8, SMTT(30)
<1>10. CallSound(calls[x], reached'[x])
  BY <1>6, <1>7, <1>9 DEF CallSound, Turns
<1>11. ASSUME NEW p \in Pcs, NEW n \in 0..MaxSends,
              Moved(i, p, n),
              \/ reply = "ok" /\ chain' = chain /\ n = 0 /\ p = IF calls[i].pc = "flush" THEN "shift" ELSE "reshift"
              \/ reply # "ok" /\ chain' = chain /\ n < MaxSends /\ p = calls[i].pc
              \/ /\ reply # "ok" /\ chain' = Released /\ n = 0
                 /\ p = IF calls[i].pc = "flush" THEN "send" ELSE "returned"
       PROVE  BridgeInv'
  <2>1. calls'[i].kind = calls[i].kind /\ calls'[i].sound = calls[i].sound /\ calls'[i].pc = p /\ calls'[i].sends = n
    BY <1>1, <1>11, CallMoved DEF BridgeInv
  <2>2. CallSound(calls'[i], reached'[i])
    BY <2>1, <1>1, <1>3, <1>4, <1>9, <1>11 DEF CallSound, Turns
  <2>3. \/ chain' = chain /\ (p \in Turns <=> calls[i].pc \in Turns)
        \/ chain' = Released /\ calls[i].pc \in Turns /\ HoldsLock(i) /\ p \notin Turns
    BY <1>1, <1>4, <1>11 DEF Turns
  <2>4. p \in Shifting =>
          calls[i].pc \in Turns /\ HoldsLock(i) /\ buffer # <<>> /\ reached'[buffer[1]].taken > 0
    BY <1>1, <1>4, <1>9, <1>11 DEF Shifting, x
  <2>5. \A k \in DOMAIN buffer : buffer[k] = x =>
          reached'[x].taken <= reached'[x].lost \/ (k = 1 /\ p \in Shifting)
    BY <1>6, <1>9, <1>11 DEF Shifting
  <2>6. p = "returned" => reached'[i].taken > 0
    BY <1>1, <1>3, <1>9, <1>11 DEF CallSound
  <2> QED BY <2>2, <2>3, <2>4, <2>5, <2>6, <1>1, <1>4, <1>6, <1>8, <1>9, <1>10, <1>11, CallKeeps, SMTT(60)
<1> DEFINE none == 0
<1>12. none \in 0..MaxSends /\ {"shift", "reshift", "send", "returned"} \subseteq Pcs
  BY <1>3 DEF Pcs, none
<1> HIDE DEF none
<1>13. CASE reply = "ok"
  <2> DEFINE p == IF calls[i].pc = "flush" THEN "shift" ELSE "reshift"
  <2>1. p \in Pcs
    BY <1>12
  <2>2. calls' = [calls EXCEPT ![i].sends = none, ![i].pc = p] /\ chain' = chain
    BY <1>2, <1>13 DEF Retries, none
  <2>3. p = IF calls[i].pc = "flush" THEN "shift" ELSE "reshift"
    OBVIOUS
  <2> HIDE DEF p
  <2>4. Moved(i, p, none)
    BY <2>1, <2>2, <1>1, <1>12, FieldsWritten DEF BridgeInv
  <2> QED BY <2>1, <2>2, <2>3, <2>4, <1>11, <1>12, <1>13 DEF none
<1>14. CASE Retries(i, reply)
  <2> DEFINE n == calls[i].sends + 1
  <2>1. n \in 0..MaxSends /\ n < MaxSends /\ reply # "ok"
    BY <1>3, <1>14 DEF Retries
  <2>2. calls' = [calls EXCEPT ![i].sends = n] /\ chain' = chain
    BY <1>2, <1>14 DEF Retries
  <2> HIDE DEF n
  <2>3. Moved(i, calls[i].pc, n)
    BY <2>1, <2>2, <1>1, <1>3, FieldsWritten DEF BridgeInv
  <2> QED BY <2>1, <2>2, <2>3, <1>3, <1>11
<1>15. CASE reply # "ok" /\ ~Retries(i, reply)
  <2> DEFINE p == IF calls[i].pc = "flush" THEN "send" ELSE "returned"
  <2>1. p \in Pcs
    BY <1>12
  <2>2. calls' = [calls EXCEPT ![i].sends = none, ![i].pc = p] /\ chain' = Released
    BY <1>2, <1>15 DEF none
  <2>3. p = IF calls[i].pc = "flush" THEN "send" ELSE "returned"
    OBVIOUS
  <2> HIDE DEF p
  <2>4. Moved(i, p, none)
    BY <2>1, <2>2, <1>1, <1>12, FieldsWritten DEF BridgeInv
  <2> QED BY <2>1, <2>2, <2>3, <2>4, <1>11, <1>12, <1>15 DEF none
<1> QED BY <1>13, <1>14, <1>15

\* A flush that finds the buffer empty ends its turn.
LEMMA FlushEndsKeeps ==
  ASSUME BridgeInv, NEW i \in Nat, FlushEnds(i)
  PROVE  BridgeInv'
<1>1. /\ i \in DOMAIN calls /\ calls[i].pc \in {"flush", "reflush"} /\ HoldsLock(i)
      /\ chain' = Released /\ UNCHANGED <<buffer, settled, aborted, busy, reached>>
  BY DEF FlushEnds, CallAt
<1>2. /\ calls \in Seq(CallRows) /\ reached \in Seq(ReachedRows) /\ calls[i].sends \in 0..MaxSends
      /\ reached[i].taken \in Nat /\ reached[i].lost \in Nat /\ busy \in 0..MaxBusy
      /\ CallSound(calls[i], reached[i]) /\ MaxSends \in Nat \ {0} /\ DOMAIN reached = DOMAIN calls
  BY <1>1, CallKnown
<1> DEFINE p == IF calls[i].pc = "flush" THEN "send" ELSE "returned"
           n == calls[i].sends
<1>3. /\ p \in {"send", "returned"} /\ p \in Pcs /\ p \notin Turns /\ p \notin Shifting
      /\ p = "send" => calls[i].pc = "flush"
      /\ p = "returned" => calls[i].pc = "reflush"
  BY <1>1 DEF Pcs, Turns, Shifting
<1>4. calls' = [calls EXCEPT ![i].pc = p]
  BY DEF FlushEnds
<1>5. n \in 0..MaxSends /\ n = calls[i].sends
  BY <1>2
<1> HIDE DEF p, n
<1>6. Moved(i, p, n)
  BY <1>1, <1>3, <1>4, <1>5, FieldsWritten DEF BridgeInv
<1>7. calls'[i].kind = calls[i].kind /\ calls'[i].sound = calls[i].sound /\ calls'[i].pc = p /\ calls'[i].sends = n
  BY <1>1, <1>3, <1>5, <1>6, CallMoved DEF BridgeInv
<1>8. calls[i].pc \in Turns /\ calls[i].pc \notin Shifting /\ calls[i].pc # "returned"
  BY <1>1 DEF Turns, Shifting
<1>9. CallSound(calls'[i], reached'[i]) /\ (p = "returned" => reached'[i].taken > 0)
  BY <1>1, <1>2, <1>3, <1>5, <1>7, <1>8 DEF CallSound, Turns
<1>10. \A k \in DOMAIN buffer : buffer[k] # i
  BY <1>8 DEF BridgeInv, BufferSound
<1> QED BY <1>1, <1>2, <1>3, <1>5, <1>6, <1>8, <1>9, <1>10, CallKeeps, SMTT(60)

\* A call sends for itself: how it goes on after the answer.
LEMMA OwnRequestKeeps ==
  ASSUME BridgeInv, NEW i \in DOMAIN calls, calls[i].pc = "send", NEW p \in Pcs, NEW n \in 0..MaxSends,
         NEW reply \in {"ok", "lost", "busy", "refused", "abort"}, NEW dropped \in BOOLEAN,
         dropped => reply \in {"refused", "abort"}, Request(i, reply, dropped), Moved(i, p, n),
         buffer' = buffer, p \notin Shifting, p # "flush",
         \/ chain' = chain /\ p \notin Turns
         \/ chain' = Append(chain, i) /\ p \in Turns,
         p \in Turns => calls[i].kind = "entry", p \in Turns \cup {"send"} => n < MaxSends,
         p \in {"send", "push"} => reply # "ok", p = "reflush" => reply = "ok",
         calls[i].kind = "entry" /\ p = "returned" => dropped
  PROVE  BridgeInv'
<1>1. /\ calls \in Seq(CallRows) /\ reached[i].taken \in Nat /\ reached[i].lost \in Nat
      /\ CallSound(calls[i], reached[i]) /\ DOMAIN reached = DOMAIN calls
  BY CallKnown
<1>2. /\ reached' \in Seq(ReachedRows) /\ DOMAIN reached' = DOMAIN reached /\ Len(reached') = Len(reached)
      /\ \A k \in DOMAIN reached : k # i => reached'[k] = reached[k]
      /\ reached'[i].taken = reached[i].taken + IF reply \in {"ok", "lost"} THEN 1 ELSE 0
      /\ reached'[i].lost = reached[i].lost + IF reply = "lost" THEN 1 ELSE 0
      /\ reached'[i].fate = IF dropped THEN reply ELSE reached[i].fate
      /\ busy' \in 0..MaxBusy
  BY RequestCounted DEF BridgeInv
<1>3. reached[i].taken <= reached[i].lost
  BY <1>1 DEF CallSound
<1>4. /\ reached[i].taken <= reached'[i].taken /\ reached'[i].taken <= 1 + reached'[i].lost
      /\ reply # "ok" => reached'[i].taken <= reached'[i].lost
      /\ reply = "ok" => reached'[i].taken > 0
      /\ reached[i].fate # "open" => reached'[i].fate # "open"
      /\ dropped => reached'[i].fate # "open"
  BY <1>1, <1>2, <1>3
<1>5. calls'[i].kind = calls[i].kind /\ calls'[i].sound = calls[i].sound /\ calls'[i].pc = p /\ calls'[i].sends = n
  BY CallMoved DEF BridgeInv
<1>6. CallSound(calls'[i], reached'[i])
  BY <1>1, <1>4, <1>5 DEF CallSound, Turns, Shifting
<1>7. calls[i].pc \notin Turns /\ calls[i].pc \notin Shifting /\ calls[i].pc # "returned"
  BY DEF Turns, Shifting
<1>8. \A k \in DOMAIN buffer : buffer[k] # i
  BY <1>7 DEF BridgeInv, BufferSound
<1> QED BY <1>1, <1>2, <1>4, <1>6, <1>7, <1>8, CallKeeps, SMTT(60)

\* A log or a status is sent for itself.
LEMMA SendKeeps ==
  ASSUME BridgeInv, NEW i \in Nat, Send(i)
  PROVE  BridgeInv'
<1>1. i \in DOMAIN calls /\ calls[i].pc = "send" /\ calls[i].kind = "entry" /\ buffer' = buffer
  BY DEF Send, CallAt
<1> DEFINE nextAfter(reply) ==
             CASE reply = "ok" -> "reflush"
               [] Retries(i, reply) -> "send"
               [] reply \in {"lost", "busy"} /\ ~Retries(i, reply) -> "push"
               [] OTHER -> "returned"
<1>2. PICK reply \in {"ok", "lost", "busy", "refused", "abort"} :
        /\ Request(i, reply, reply \in {"refused", "abort"})
        /\ calls' = [calls EXCEPT ![i].pc = nextAfter(reply),
                        ![i].sends = IF nextAfter(reply) = "send" THEN @ + 1 ELSE 0]
        /\ chain' = IF nextAfter(reply) \in {"reflush", "push"} THEN Append(chain, i) ELSE chain
  BY DEF Send
<1>3. calls[i].sends \in Nat /\ MaxSends \in Nat \ {0}
  BY <1>1, CallKnown
<1> DEFINE p == nextAfter(reply)
           n == IF p = "send" THEN calls[i].sends + 1 ELSE 0
           dropped == reply \in {"refused", "abort"}
<1>4. /\ p \in {"reflush", "send", "push", "returned"}
      /\ p = "reflush" <=> reply = "ok"
      /\ p = "send" <=> Retries(i, reply)
      /\ p = "returned" <=> dropped
  BY DEF Retries
<1>5. calls' = [calls EXCEPT ![i].pc = p, ![i].sends = n]
  BY <1>2
<1>6. chain' = IF p \in {"reflush", "push"} THEN Append(chain, i) ELSE chain
  BY <1>2
<1> HIDE DEF p
<1>7. n \in 0..MaxSends /\ n < MaxSends
  BY <1>3, <1>4 DEF Retries
<1>8. Request(i, reply, dropped) /\ dropped \in BOOLEAN /\ (dropped => reply \in {"refused", "abort"})
  BY <1>2
<1> HIDE DEF n, dropped, nextAfter
<1>9. /\ p \in Pcs /\ p \notin Shifting /\ p # "flush" /\ (p \in Turns <=> p \in {"reflush", "push"})
      /\ p \in {"send", "push"} => reply # "ok"
  BY <1>4 DEF Pcs, Shifting, Turns
<1>10. Moved(i, p, n)
  BY <1>1, <1>5, <1>7, <1>9, FieldsWritten DEF BridgeInv
<1> QED BY <1>1, <1>2, <1>4, <1>6, <1>7, <1>8, <1>9, <1>10, OwnRequestKeeps

\* A terminal status, a snapshot and a heartbeat are sent and never buffered.
LEMMA SendUnbufferedKeeps ==
  ASSUME BridgeInv, NEW i \in Nat, SendUnbuffered(i)
  PROVE  BridgeInv'
<1>1. /\ i \in DOMAIN calls /\ calls[i].pc = "send" /\ calls[i].kind \in {"terminal", "snapshot", "heartbeat"}
      /\ buffer' = buffer /\ chain' = chain
  BY DEF SendUnbuffered, CallAt
<1> DEFINE again(reply) ==
             CASE calls[i].kind = "terminal" -> Retries(i, reply)
               [] calls[i].kind = "snapshot" -> FALSE
               [] calls[i].kind = "heartbeat" ->
                    reply \notin {"ok", "abort"} /\ calls[i].sends + 1 < MaxSends
           nextAfter(reply) ==
             IF again(reply) THEN "send"
             ELSE IF reply = "ok" \/ calls[i].kind = "heartbeat" THEN "returned" ELSE "threw"
<1>2. PICK reply \in {"ok", "lost", "busy", "refused", "abort"} :
        /\ Request(i, reply, FALSE)
        /\ calls' = [calls EXCEPT ![i].sends = @ + 1, ![i].pc = nextAfter(reply)]
  BY DEF SendUnbuffered
<1>3. calls[i].sends \in Nat /\ MaxSends \in Nat \ {0} /\ CallSound(calls[i], reached[i])
  BY <1>1, CallKnown
<1> DEFINE p == nextAfter(reply)
           n == calls[i].sends + 1
           dropped == FALSE
<1>4. again(reply) => reply # "ok" /\ n < MaxSends
  BY <1>1 DEF Retries
<1>5. p \in {"send", "returned", "threw"} /\ (p = "send" => again(reply))
  OBVIOUS
<1>6. calls[i].sends < MaxSends
  BY <1>1, <1>3 DEF CallSound
<1>7. n \in 0..MaxSends
  BY <1>3, <1>6
<1>8. calls' = [calls EXCEPT ![i].sends = n, ![i].pc = p]
  BY <1>2
<1>9. Request(i, reply, dropped) /\ dropped \in BOOLEAN /\ ~dropped
  BY <1>2
<1> HIDE DEF p, n, dropped, again, nextAfter
<1>10. /\ p \in Pcs /\ p \notin Shifting /\ p # "flush" /\ p \notin Turns /\ p \notin {"push", "reflush"}
       /\ p \in Turns \cup {"send"} => n < MaxSends
       /\ p = "send" => reply # "ok"
  BY <1>4, <1>5 DEF Pcs, Shifting, Turns
<1>11. Moved(i, p, n)
  BY <1>1, <1>7, <1>8, <1>10, FieldsWritten DEF BridgeInv
<1> QED BY <1>1, <1>2, <1>7, <1>9, <1>10, <1>11, OwnRequestKeeps

\* The entry that leaves the buffer is the one the server took.
LEMMA FlushShiftKeeps ==
  ASSUME BridgeInv, NEW i \in Nat, FlushShift(i)
  PROVE  BridgeInv'
<1>1. /\ i \in DOMAIN calls /\ calls[i].pc \in {"shift", "reshift"}
      /\ UNCHANGED <<chain, settled, aborted, busy, reached>>
      /\ buffer' = IF buffer = <<>> THEN <<>> ELSE Tail(buffer)
  BY DEF FlushShift, CallAt
<1>2. /\ calls \in Seq(CallRows) /\ calls[i].sends \in 0..MaxSends
      /\ CallSound(calls[i], reached[i]) /\ DOMAIN reached = DOMAIN calls
  BY <1>1, CallKnown
<1> DEFINE p == IF calls[i].pc = "shift" THEN "flush" ELSE "reflush"
           n == calls[i].sends
<1>3. /\ p \in {"flush", "reflush"} /\ p \in Pcs /\ p \in Turns /\ p \notin Shifting
      /\ p = "flush" => calls[i].pc = "shift"
      /\ p = "reflush" => calls[i].pc = "reshift"
  BY <1>1 DEF Pcs, Turns, Shifting
<1>4. calls' = [calls EXCEPT ![i].pc = p]
  BY DEF FlushShift
<1>5. n \in 0..MaxSends /\ n = calls[i].sends
  BY <1>2
<1> HIDE DEF p, n
<1>6. Moved(i, p, n)
  BY <1>1, <1>3, <1>4, <1>5, FieldsWritten DEF BridgeInv
<1>7. /\ calls' \in Seq(CallRows) /\ DOMAIN calls' = DOMAIN calls /\ Len(calls') = Len(calls)
      /\ calls'[i].kind = calls[i].kind /\ calls'[i].sound = calls[i].sound /\ calls'[i].pc = p /\ calls'[i].sends = n
      /\ \A k \in DOMAIN calls : k # i => calls'[k] = calls[k]
  BY <1>1, <1>3, <1>5, <1>6, CallMoved DEF BridgeInv
<1>8. calls[i].pc \in Turns /\ calls[i].pc \in Shifting /\ calls[i].pc # "returned"
  BY <1>1 DEF Turns, Shifting
<1>9. /\ buffer # <<>> /\ reached[buffer[1]].taken > 0
      /\ \A j \in DOMAIN calls : j # i => calls[j].pc \notin Shifting
  BY <1>1, <1>8 DEF BridgeInv, LockSound
<1>10. buffer \in Seq(Nat) /\ Once(buffer) /\ Len(buffer) <= Capacity
  BY DEF BridgeInv, BufferSound
<1>11. /\ buffer' \in Seq(Nat) /\ Once(buffer') /\ Head(buffer) = buffer[1]
       /\ \A k : Among(k, buffer) <=> Among(k, buffer') \/ k = buffer[1]
       /\ \A k \in DOMAIN buffer' : k + 1 \in DOMAIN buffer /\ k + 1 # 1 /\ buffer'[k] = buffer[k + 1]
  BY <1>1, <1>9, <1>10, QueueLeft
<1>12. Len(buffer') <= Capacity
  BY <1>1, <1>9, <1>10, FirstLeaves, PageBridgeAssumption
<1>13. BridgeTyped'
  BY <1>1, <1>7 DEF BridgeInv, BridgeTyped
<1>14. CallsSound'
  <2>1. CallSound(calls'[i], reached'[i])
    BY <1>1, <1>2, <1>3, <1>5, <1>7, <1>8 DEF CallSound, Turns
  <2>2. ASSUME NEW k \in DOMAIN calls' PROVE CallSound(calls'[k], reached'[k])
    <3>1. CASE k = i
      BY <2>1, <3>1
    <3>2. CASE k # i
      BY <3>2, <1>1, <1>7 DEF BridgeInv, CallsSound
    <3> QED BY <3>1, <3>2
  <2>3. ASSUME NEW k \in DOMAIN calls', calls'[k].kind = "entry", calls'[k].pc = "returned"
        PROVE  reached'[k].taken > 0 \/ reached'[k].fate # "open" \/ Among(k, buffer')
    <3>1. k # i /\ k \in DOMAIN calls /\ calls[k] = calls'[k]
      BY <2>3, <1>3, <1>7
    <3>2. reached[k].taken > 0 \/ reached[k].fate # "open" \/ Among(k, buffer)
      BY <2>3, <3>1 DEF BridgeInv, CallsSound
    <3> QED BY <3>2, <1>1, <1>9, <1>11
  <2> QED BY <2>2, <2>3 DEF CallsSound
<1>15. LockSound'
  <2>1. /\ chain' \in Seq(Nat) /\ Once(chain')
        /\ \A k \in DOMAIN chain' : chain'[k] \in DOMAIN calls'
        /\ \A j \in DOMAIN calls' : calls'[j].pc \in Turns <=> Among(j, chain')
    BY <1>1, <1>3, <1>7, <1>8, TurnsKept
  <2>2. \A j \in DOMAIN calls' : calls'[j].pc \notin Shifting
    BY <1>3, <1>7, <1>9
  <2> QED BY <2>1, <2>2 DEF LockSound
<1>16. BufferSound'
  <2>1. ASSUME NEW k \in DOMAIN buffer'
        PROVE  /\ buffer'[k] \in DOMAIN calls' /\ calls'[buffer'[k]].pc = "returned"
               /\ reached'[buffer'[k]].taken <= reached'[buffer'[k]].lost
    <3>1. k + 1 \in DOMAIN buffer /\ k + 1 # 1 /\ buffer'[k] = buffer[k + 1]
      BY <1>11
    <3>2. /\ buffer'[k] \in DOMAIN calls /\ calls[buffer'[k]].pc = "returned"
          /\ reached[buffer'[k]].taken <= reached[buffer'[k]].lost
      BY <3>1 DEF BridgeInv, BufferSound
    <3>3. buffer'[k] # i
      BY <3>2, <1>8
    <3> QED BY <3>2, <3>3, <1>1, <1>7
  <2> QED BY <2>1, <1>11, <1>12 DEF BufferSound
<1> QED BY <1>13, <1>14, <1>15, <1>16 DEF BridgeInv

\* An entry joins the buffer; the oldest is pushed out of a full one.
LEMMA EnqueueKeeps ==
  ASSUME BridgeInv, NEW i \in Nat, Enqueue(i)
  PROVE  BridgeInv'
<1>1. /\ i \in DOMAIN calls /\ calls[i].pc = "push" /\ HoldsLock(i)
      /\ chain' = Released /\ UNCHANGED <<settled, aborted, busy>>
      /\ buffer' = Append(IF Len(buffer) >= Capacity THEN Tail(buffer) ELSE buffer, i)
      /\ reached' = IF Len(buffer) >= Capacity
                    THEN [reached EXCEPT ![Head(buffer)].fate = "full"] ELSE reached
  BY DEF Enqueue, CallAt
<1>2. /\ calls \in Seq(CallRows) /\ reached \in Seq(ReachedRows) /\ calls[i].sends \in 0..MaxSends
      /\ CallSound(calls[i], reached[i]) /\ DOMAIN reached = DOMAIN calls
  BY <1>1, CallKnown
<1> DEFINE p == "returned"
           n == calls[i].sends
<1>3. p \in Pcs /\ p \notin Turns /\ p \notin Shifting /\ n \in 0..MaxSends /\ n = calls[i].sends
  BY <1>2 DEF Pcs, Turns, Shifting
<1>4. calls' = [calls EXCEPT ![i].pc = p]
  BY DEF Enqueue
<1> HIDE DEF n
<1>5. Moved(i, p, n)
  BY <1>1, <1>3, <1>4, FieldsWritten DEF BridgeInv
<1>6. /\ calls' \in Seq(CallRows) /\ DOMAIN calls' = DOMAIN calls /\ Len(calls') = Len(calls)
      /\ calls'[i].kind = calls[i].kind /\ calls'[i].sound = calls[i].sound /\ calls'[i].pc = p /\ calls'[i].sends = n
      /\ \A k \in DOMAIN calls : k # i => calls'[k] = calls[k]
  BY <1>1, <1>3, <1>5, CallMoved DEF BridgeInv
<1>7. calls[i].pc \in Turns /\ calls[i].pc \notin Shifting /\ calls[i].pc # "returned"
  BY <1>1 DEF Turns, Shifting
<1>8. \A j \in DOMAIN calls : calls[j].pc \notin Shifting
  BY <1>1, <1>7, OneShifts
<1>9. buffer \in Seq(Nat) /\ Once(buffer) /\ Len(buffer) <= Capacity /\ Len(buffer) \in Nat /\ Capacity \in Nat \ {0}
  BY PageBridgeAssumption DEF BridgeInv, BufferSound
<1> DEFINE full == Len(buffer) >= Capacity
           rest == IF full THEN Tail(buffer) ELSE buffer
<1>10. full => buffer # <<>>
  BY <1>9
<1>11. /\ rest \in Seq(Nat) /\ Once(rest) /\ Len(rest) < Capacity /\ Len(rest) \in Nat
       /\ \A k : Among(k, buffer) => Among(k, rest) \/ (full /\ k = buffer[1])
       /\ \A k \in DOMAIN rest : \E l \in DOMAIN buffer : rest[k] = buffer[l]
  <2>1. CASE full
    <3>1. /\ Tail(buffer) \in Seq(Nat) /\ Once(Tail(buffer)) /\ Head(buffer) = buffer[1]
          /\ \A k : Among(k, buffer) <=> Among(k, Tail(buffer)) \/ k = Head(buffer)
          /\ \A k \in DOMAIN Tail(buffer) : k + 1 \in DOMAIN buffer /\ Tail(buffer)[k] = buffer[k + 1]
      BY <1>9, <1>10, <2>1, QueueLeft
    <3>2. Len(Tail(buffer)) = Len(buffer) - 1 /\ Len(Tail(buffer)) \in Nat
      BY <1>9, <1>10, <2>1, FirstLeaves
    <3>3. rest = Tail(buffer)
      BY <2>1
    <3> HIDE DEF rest
    <3> QED BY <3>1, <3>2, <3>3, <2>1, <1>9
  <2>2. CASE ~full
    BY <2>2, <1>9 DEF Among
  <2> QED BY <2>1, <2>2
<1>12. buffer' = Append(rest, i)
  BY <1>1
<1>13. \A l \in DOMAIN buffer :
         /\ buffer[l] \in DOMAIN calls /\ calls[buffer[l]].pc = "returned"
         /\ reached[buffer[l]].taken <= reached[buffer[l]].lost
  BY <1>8 DEF BridgeInv, BufferSound
<1> HIDE DEF rest
<1>14. ~Among(i, rest)
  BY <1>7, <1>11, <1>13 DEF Among
<1>15. /\ buffer' \in Seq(Nat) /\ Once(buffer')
       /\ \A k : Among(k, buffer') <=> Among(k, rest) \/ k = i
       /\ \A k \in DOMAIN buffer' : buffer'[k] = i \/ (k \in DOMAIN rest /\ buffer'[k] = rest[k])
  BY <1>11, <1>12, <1>14, QueueJoined
<1>16. Len(buffer') <= Capacity
  BY <1>9, <1>11, <1>12, OneAppended
<1>17. /\ reached' \in Seq(ReachedRows) /\ DOMAIN reached' = DOMAIN reached /\ Len(reached') = Len(reached)
       /\ \A k \in DOMAIN reached : /\ reached'[k].taken = reached[k].taken /\ reached'[k].lost = reached[k].lost
                                    /\ reached[k].fate # "open" => reached'[k].fate # "open"
       /\ full => reached'[buffer[1]].fate = "full"
  <2>1. CASE full
    <3> DEFINE x == buffer[1]
    <3>1. x \in DOMAIN reached /\ Head(buffer) = x /\ reached[x] \in ReachedRows
      BY <1>2, <1>10, <2>1, OldestKnown
    <3> DEFINE r == [reached[x] EXCEPT !.fate = "full"]
    <3>2. /\ r \in ReachedRows /\ r.taken = reached[x].taken /\ r.lost = reached[x].lost /\ r.fate = "full"
      BY <3>1 DEF ReachedRows, Fates
    <3>3. reached' = [reached EXCEPT ![x] = r]
      BY <1>1, <2>1, <3>1
    <3> HIDE DEF r, x
    <3>4. /\ reached' \in Seq(ReachedRows) /\ DOMAIN reached' = DOMAIN reached /\ Len(reached') = Len(reached)
          /\ reached'[x] = r /\ \A k \in DOMAIN reached : k # x => reached'[k] = reached[k]
      BY <1>2, <3>1, <3>2, <3>3, OneReplaced
    <3>5. ASSUME NEW k \in DOMAIN reached
          PROVE  /\ reached'[k].taken = reached[k].taken /\ reached'[k].lost = reached[k].lost
                 /\ reached[k].fate # "open" => reached'[k].fate # "open"
      <4>1. CASE k = x
        BY <4>1, <3>2, <3>4
      <4>2. CASE k # x
        BY <4>2, <3>4
      <4> QED BY <4>1, <4>2
    <3> QED BY <3>2, <3>4, <3>5 DEF x
  <2>2. CASE ~full
    BY <2>2, <1>1, <1>2
  <2> QED BY <2>1, <2>2
<1> HIDE DEF full
<1>18. BridgeTyped'
  BY <1>1, <1>6, <1>17 DEF BridgeInv, BridgeTyped
<1>19. CallsSound'
  <2>1. CallSound(calls'[i], reached'[i])
    BY <1>1, <1>2, <1>6, <1>17 DEF CallSound, Turns
  <2>2. ASSUME NEW k \in DOMAIN calls' PROVE CallSound(calls'[k], reached'[k])
    <3>1. CASE k = i
      BY <2>1, <3>1
    <3>2. CASE k # i
      <4>1. CallSound(calls[k], reached[k]) /\ k \in DOMAIN reached /\ calls'[k] = calls[k]
        BY <3>2, <1>2, <1>6 DEF BridgeInv, CallsSound
      <4>2. reached'[k].taken = reached[k].taken /\ reached'[k].lost = reached[k].lost
        BY <4>1, <1>17
      <4> QED BY <4>1, <4>2 DEF CallSound
    <3> QED BY <3>1, <3>2
  <2>3. ASSUME NEW k \in DOMAIN calls', calls'[k].kind = "entry", calls'[k].pc = "returned"
        PROVE  reached'[k].taken > 0 \/ reached'[k].fate # "open" \/ Among(k, buffer')
    <3>1. CASE k = i
      BY <3>1, <1>15
    <3>2. CASE k # i
      <4>1. k \in DOMAIN reached /\ (reached[k].taken > 0 \/ reached[k].fate # "open" \/ Among(k, buffer))
        BY <2>3, <3>2, <1>2, <1>6 DEF BridgeInv, CallsSound
      <4> QED BY <4>1, <1>11, <1>15, <1>17
    <3> QED BY <3>1, <3>2
  <2> QED BY <2>2, <2>3 DEF CallsSound
<1>20. LockSound'
  <2>1. /\ chain' \in Seq(Nat) /\ Once(chain')
        /\ \A k \in DOMAIN chain' : chain'[k] \in DOMAIN calls'
        /\ \A j \in DOMAIN calls' : calls'[j].pc \in Turns <=> Among(j, chain')
    BY <1>1, <1>3, <1>6, <1>7, TurnsKept
  <2>2. \A j \in DOMAIN calls' : calls'[j].pc \notin Shifting
    BY <1>3, <1>6, <1>8
  <2> QED BY <2>1, <2>2 DEF LockSound
<1>21. BufferSound'
  <2>1. ASSUME NEW k \in DOMAIN buffer'
        PROVE  /\ buffer'[k] \in DOMAIN calls' /\ calls'[buffer'[k]].pc = "returned"
               /\ reached'[buffer'[k]].taken <= reached'[buffer'[k]].lost
    <3>1. CASE buffer'[k] = i
      BY <3>1, <1>1, <1>2, <1>6, <1>17 DEF CallSound
    <3>2. CASE buffer'[k] # i
      <4>1. PICK l \in DOMAIN buffer : buffer'[k] = buffer[l]
        BY <3>2, <1>11, <1>15
      <4>2. /\ buffer[l] \in DOMAIN calls /\ calls[buffer[l]].pc = "returned"
            /\ reached[buffer[l]].taken <= reached[buffer[l]].lost
        BY <1>13
      <4> QED BY <4>1, <4>2, <3>2, <1>2, <1>6, <1>17
    <3> QED BY <3>1, <3>2
  <2> QED BY <2>1, <1>15, <1>16 DEF BufferSound
<1> QED BY <1>18, <1>19, <1>20, <1>21 DEF BridgeInv

\* The payload of a call the page may make has the fields of its method.
LEMMA PayloadFields ==
  ASSUME NEW c \in RawCalls, c.method \in DOMAIN BridgeMethods
  PROVE  /\ DOMAIN c.payload = DOMAIN BridgeMethods[c.method]
         /\ \A f \in DOMAIN c.payload : c.payload[f] \in Classes
<1> DEFINE M == DOMAIN BridgeMethods
<1>1. \A m \in M : \A f \in DOMAIN BridgeMethods[m] : BridgeMethods[m][f] \in Classes
  BY DEF BridgeMethods, Classes
<1>2. "__proto__" \notin M
  BY DEF BridgeMethods
<1>3. CASE \E m \in M : \E f \in DOMAIN BridgeMethods[m], v \in Classes :
             c = [method |-> m, payload |-> [BridgeMethods[m] EXCEPT ![f] = v], size |-> "fits"]
  <2>1. PICK m \in M : \E f \in DOMAIN BridgeMethods[m], v \in Classes :
          c = [method |-> m, payload |-> [BridgeMethods[m] EXCEPT ![f] = v], size |-> "fits"]
    BY <1>3
  <2>2. PICK f \in DOMAIN BridgeMethods[m], v \in Classes :
          c = [method |-> m, payload |-> [BridgeMethods[m] EXCEPT ![f] = v], size |-> "fits"]
    BY <2>1
  <2> DEFINE b == BridgeMethods[m]
  <2>3. c.method = m /\ c.payload = [b EXCEPT ![f] = v]
    BY <2>2
  <2>4. \A g \in DOMAIN b : b[g] \in Classes
    BY <1>1
  <2>5. f \in DOMAIN b
    OBVIOUS
  <2> HIDE DEF b
  <2>6. DOMAIN c.payload = DOMAIN b /\ \A g \in DOMAIN b : c.payload[g] \in Classes
    BY <2>3, <2>4, <2>5
  <2> QED BY <2>3, <2>6 DEF b
<1>4. CASE \E m \in M, s \in {"large", "cyclic", "noRecord"} :
             c = [method |-> m, payload |-> BridgeMethods[m], size |-> s]
  BY <1>1, <1>4
<1>5. CASE c = [method |-> "__proto__", payload |-> BridgeMethods["complete"], size |-> "fits"]
  BY <1>2, <1>5
<1> QED BY <1>3, <1>4, <1>5 DEF RawCalls

\* A call that bridge-protocol.ts lets through is sound field by field.
LEMMA ValidatedIsSound ==
  ASSUME NEW c \in RawCalls, ValidateBridgeCall(c)
  PROVE  /\ c.method \in DOMAIN BridgeMethods
         /\ \A f \in DOMAIN c.payload : c.payload[f] \in Expected(f)
<1> DEFINE p == c.payload
           m == c.method
<1>1. m \in DOMAIN BridgeMethods /\ Validators(m, p)
  BY DEF ValidateBridgeCall
<1>2. DOMAIN p = DOMAIN BridgeMethods[m] /\ \A f \in DOMAIN p : p[f] \in Classes
  BY <1>1, PayloadFields
<1> HIDE DEF p, m
<1>3. m \in {"sendResult", "sendLog", "sendStatus", "sendSnapshot", "sendHeartbeat",
             "requestHuman", "checkpointContext", "complete"}
  BY <1>1 DEF BridgeMethods
<1> SUFFICES ASSUME NEW f \in DOMAIN p PROVE p[f] \in Expected(f)
  BY <1>1 DEF p, m
<1>4. CASE m \in {"sendResult", "sendHeartbeat"}
  <2>1. DOMAIN p = {"payload"}
    BY <1>2, <1>4 DEF BridgeMethods
  <2>2. Expected("payload") = Classes
    BY DEF Expected
  <2> QED BY <1>2, <2>1, <2>2
<1>5. CASE m = "sendLog"
  <2>1. DOMAIN p = {"level", "message", "extra"}
    BY <1>2, <1>5 DEF BridgeMethods
  <2>2. ValidateSendLog(p)
    BY <1>1, <1>5 DEF Validators
  <2> QED BY <2>1, <2>2 DEF ValidateSendLog, NonEmptyString, RequireString, OptionalRecord, RequireRecord, Expected
<1>6. CASE m = "sendStatus"
  <2>1. DOMAIN p = {"status", "message"}
    BY <1>2, <1>6 DEF BridgeMethods
  <2>2. ValidateSendStatus(p)
    BY <1>1, <1>6 DEF Validators
  <2> QED BY <2>1, <2>2 DEF ValidateSendStatus, NonEmptyString, RequireString, OptionalString, Expected
<1>7. CASE m = "sendSnapshot"
  <2>1. DOMAIN p = {"name", "type", "data"}
    BY <1>2, <1>7 DEF BridgeMethods
  <2>2. ValidateSendSnapshot(p)
    BY <1>1, <1>7 DEF Validators
  <2> QED BY <2>1, <2>2 DEF ValidateSendSnapshot, NonEmptyString, RequireString, Expected
<1>8. CASE m = "requestHuman"
  <2>1. DOMAIN p = {"type", "prompt", "timeoutMs", "stepId", "url"}
    BY <1>2, <1>8 DEF BridgeMethods
  <2>2. ValidateRequestHuman(p)
    BY <1>1, <1>8 DEF Validators
  <2> QED BY <2>1, <2>2 DEF ValidateRequestHuman, NonEmptyString, Expected
<1>9. CASE m = "checkpointContext"
  <2>1. DOMAIN p = {"taskId", "path", "extracted", "evaluated", "captured"}
    BY <1>2, <1>9 DEF BridgeMethods
  <2>2. ValidateCheckpointContext(p)
    BY <1>1, <1>9 DEF Validators
  <2> QED BY <2>1, <2>2 DEF ValidateCheckpointContext, NonEmptyString, OptionalRecord, RequireRecord, Expected
<1>10. CASE m = "complete"
  <2>1. DOMAIN p = {"status", "message", "error"}
    BY <1>2, <1>10 DEF BridgeMethods
  <2>2. ValidateComplete(p)
    BY <1>1, <1>10 DEF Validators
  <2> QED BY <2>1, <2>2 DEF ValidateComplete, OptionalString, RequireString, OptionalRecord, RequireRecord, Expected
<1> QED BY <1>3, <1>4, <1>5, <1>6, <1>7, <1>8, <1>9, <1>10

\* A call the page makes: it is sound or refused, and a log or a status takes its turn last.
LEMMA BridgeHandlerKeeps ==
  ASSUME BridgeInv, BridgeHandler
  PROVE  BridgeInv'
<1> DEFINE refusal(c) == ~ValidateBridgeCall(c) \/ (settled /\ c.method # "complete")
           start(c, kind) == IF refusal(c) THEN "rejected" ELSE FirstStep(kind)
           row(c, kind) ==
             [kind |-> IF refusal(c) THEN "other" ELSE kind, pc |-> start(c, kind), sends |-> 0,
              sound |-> \/ refusal(c)
                        \/ /\ c.method \in DOMAIN BridgeMethods
                           /\ \A f \in DOMAIN c.payload : c.payload[f] \in Expected(f)]
           fresh == [taken |-> 0, lost |-> 0, fate |-> "open"]
           Forwarded(c, kind) ==
             /\ calls' = Append(calls, row(c, kind))
             /\ chain' = IF start(c, kind) = "flush" THEN Append(chain, Len(calls) + 1) ELSE chain
             /\ reached' = Append(reached, fresh)
<1>0. PICK c \in RawCalls : \E kind \in Kinds(c.method) : Forwarded(c, kind)
  BY DEF BridgeHandler
<1>1. PICK kind \in Kinds(c.method) : Forwarded(c, kind)
  BY <1>0
<1>2. buffer' = buffer /\ busy' = busy
  BY DEF BridgeHandler
<1> DEFINE e == row(c, kind)
           n == Len(calls) + 1
<1>3. kind \in {"entry", "terminal", "snapshot", "heartbeat", "other"}
  BY DEF Kinds
<1>4. /\ start(c, kind) \in {"rejected", "flush", "send", "returned"}
      /\ start(c, kind) = "flush" => kind = "entry" /\ ~refusal(c)
      /\ start(c, kind) = "returned" => kind # "entry"
  BY <1>3 DEF FirstStep
<1>5. /\ e.sound = TRUE /\ e.sends = 0 /\ e.pc = start(c, kind)
      /\ e.kind = IF refusal(c) THEN "other" ELSE kind
  BY ValidatedIsSound
<1> HIDE DEF refusal, start
<1>6. /\ e.pc \in {"rejected", "flush", "send", "returned"}
      /\ e.pc = "flush" => e.kind = "entry"
      /\ e.pc = "returned" => e.kind # "entry"
  BY <1>4, <1>5
<1>7. e \in CallRows
  BY <1>3, <1>4, ValidatedIsSound, PageBridgeAssumption DEF CallRows, Pcs, refusal
<1>8. calls' = Append(calls, e) /\ chain' = IF e.pc = "flush" THEN Append(chain, n) ELSE chain
  BY <1>1
<1>9. fresh \in ReachedRows /\ fresh.taken = 0 /\ fresh.lost = 0
  BY DEF ReachedRows, Fates
<1> HIDE DEF e, fresh, row
<1>10. /\ calls \in Seq(CallRows) /\ reached \in Seq(ReachedRows) /\ DOMAIN reached = DOMAIN calls
       /\ Len(calls) = Len(reached)
  BY DEF BridgeInv, BridgeTyped
<1>11. /\ calls' \in Seq(CallRows) /\ Len(calls) \in Nat /\ Len(calls') = Len(calls) + 1
       /\ DOMAIN calls = 1..Len(calls) /\ DOMAIN calls' = 1..Len(calls) + 1
       /\ calls'[n] = e /\ \A k \in DOMAIN calls : calls'[k] = calls[k]
  BY <1>7, <1>8, <1>10, OneAppended
<1>12. /\ reached' \in Seq(ReachedRows) /\ Len(reached') = Len(calls) + 1
       /\ DOMAIN reached' = 1..Len(calls) + 1
       /\ reached'[n] = fresh /\ \A k \in DOMAIN calls : reached'[k] = reached[k]
  BY <1>1, <1>9, <1>10, OneAppended
<1>13. n \in Nat /\ n \notin DOMAIN calls /\ DOMAIN calls' = DOMAIN calls \cup {n}
  BY <1>11
<1> HIDE DEF n
<1>14. BridgeTyped'
  BY <1>2, <1>11, <1>12 DEF BridgeInv, BridgeTyped
<1>15. CallsSound'
  <2>1. CallSound(calls'[n], reached'[n])
    BY <1>5, <1>6, <1>9, <1>11, <1>12, PageBridgeAssumption DEF CallSound, Turns
  <2>2. ASSUME NEW k \in DOMAIN calls'
        PROVE  /\ CallSound(calls'[k], reached'[k])
               /\ calls'[k].kind = "entry" /\ calls'[k].pc = "returned" =>
                    reached'[k].taken > 0 \/ reached'[k].fate # "open" \/ Among(k, buffer')
    <3>1. CASE k = n
      BY <3>1, <2>1, <1>6, <1>11
    <3>2. CASE k \in DOMAIN calls
      BY <3>2, <1>2, <1>11, <1>12 DEF BridgeInv, CallsSound
    <3> QED BY <3>1, <3>2, <1>13
  <2> QED BY <2>2 DEF CallsSound
<1>16. /\ chain \in Seq(Nat) /\ Once(chain)
       /\ \A k \in DOMAIN chain : chain[k] \in DOMAIN calls
       /\ \A j \in DOMAIN calls : calls[j].pc \in Turns <=> Among(j, chain)
       /\ \A j \in DOMAIN calls : calls[j].pc \in Shifting =>
            chain[1] = j /\ buffer # <<>> /\ reached[buffer[1]].taken > 0
  BY DEF BridgeInv, LockSound
<1>17. ~Among(n, chain)
  BY <1>13, <1>16 DEF Among
<1>18. calls'[n].pc \notin Shifting /\ (calls'[n].pc \in Turns <=> e.pc = "flush")
  BY <1>6, <1>11 DEF Turns, Shifting
<1>19. /\ chain' \in Seq(Nat) /\ Once(chain')
       /\ \A k : Among(k, chain') <=> Among(k, chain) \/ (e.pc = "flush" /\ k = n)
       /\ chain # <<>> => chain'[1] = chain[1]
       /\ \A k \in DOMAIN chain' : chain'[k] \in DOMAIN calls'
  <2>1. CASE e.pc = "flush"
    BY <2>1, <1>8, <1>13, <1>16, <1>17, QueueJoined
  <2>2. CASE e.pc # "flush"
    BY <2>2, <1>8, <1>13, <1>16
  <2> QED BY <2>1, <2>2
<1>20. \A k \in DOMAIN buffer : buffer[k] \in DOMAIN calls
  BY DEF BridgeInv, BufferSound
<1>21. LockSound'
  <2>1. ASSUME NEW j \in DOMAIN calls' PROVE calls'[j].pc \in Turns <=> Among(j, chain')
    <3>1. CASE j = n
      BY <3>1, <1>17, <1>18, <1>19
    <3>2. CASE j \in DOMAIN calls
      BY <3>2, <1>11, <1>13, <1>16, <1>19
    <3> QED BY <3>1, <3>2, <1>13
  <2>2. ASSUME NEW j \in DOMAIN calls', calls'[j].pc \in Shifting
        PROVE  chain'[1] = j /\ buffer' # <<>> /\ reached'[buffer'[1]].taken > 0
    <3>1. j \in DOMAIN calls /\ calls[j].pc \in Shifting
      BY <2>2, <1>11, <1>13, <1>18
    <3>2. chain[1] = j /\ buffer # <<>> /\ reached[buffer[1]].taken > 0
      BY <3>1, <1>16
    <3>3. chain # <<>>
      BY <3>1, <1>16 DEF Shifting, Turns, Among
    <3>4. 1 \in DOMAIN buffer
      BY <3>2 DEF BridgeInv, BufferSound
    <3> QED BY <3>2, <3>3, <3>4, <1>2, <1>12, <1>19, <1>20
  <2> QED BY <2>1, <2>2, <1>19 DEF LockSound
<1>22. BufferSound'
  <2>1. buffer \in Seq(Nat) /\ Once(buffer) /\ Len(buffer) <= Capacity
    BY DEF BridgeInv, BufferSound
  <2>2. ASSUME NEW k \in DOMAIN buffer
        PROVE  /\ buffer[k] \in DOMAIN calls' /\ calls'[buffer[k]].pc = "returned"
               /\ reached'[buffer[k]].taken <= reached'[buffer[k]].lost
                  \/ (k = 1 /\ \E i \in DOMAIN calls' : calls'[i].pc \in Shifting)
    <3>1. /\ buffer[k] \in DOMAIN calls /\ calls[buffer[k]].pc = "returned"
          /\ reached[buffer[k]].taken <= reached[buffer[k]].lost
             \/ (k = 1 /\ \E i \in DOMAIN calls : calls[i].pc \in Shifting)
      BY DEF BridgeInv, BufferSound
    <3>2. (\E i \in DOMAIN calls : calls[i].pc \in Shifting) =>
            \E i \in DOMAIN calls' : calls'[i].pc \in Shifting
      BY <1>11, <1>13
    <3> QED BY <3>1, <3>2, <1>11, <1>12, <1>13
  <2> QED BY <2>1, <2>2, <1>2 DEF BufferSound
<1> QED BY <1>14, <1>15, <1>21, <1>22 DEF BridgeInv

\* The bridge starts with nothing under way.
LEMMA BridgeStarts == BridgeInit => BridgeInv
<1> SUFFICES ASSUME BridgeInit PROVE BridgeInv
  OBVIOUS
<1>1. calls = <<>> /\ buffer = <<>> /\ chain = <<>> /\ reached = <<>> /\ busy = 0
  BY DEF BridgeInit
<1> QED BY <1>1, PageBridgeAssumption
        DEF BridgeInv, BridgeTyped, CallsSound, LockSound, BufferSound, Once, Among

\* Every step of the page, of the transport and of the abort keeps the invariant.
LEMMA BridgeStepKeeps == BridgeInv /\ [BridgeNext]_bridgeVars => BridgeInv'
<1> SUFFICES ASSUME BridgeInv, [BridgeNext]_bridgeVars PROVE BridgeInv'
  OBVIOUS
<1>1. CASE BridgeHandler
  BY <1>1, BridgeHandlerKeeps
<1>2. CASE \E i \in 1..MaxBridgeCalls : CallStep(i)
  <2>1. PICK i \in 1..MaxBridgeCalls : CallStep(i)
    BY <1>2
  <2>2. i \in Nat
    OBVIOUS
  <2> QED BY <2>1, <2>2, FlushSendKeeps, FlushShiftKeeps, FlushEndsKeeps, SendKeeps,
             SendUnbufferedKeeps, EnqueueKeeps DEF CallStep
<1>3. CASE AbortTask \/ UNCHANGED bridgeVars
  <2>1. UNCHANGED <<calls, buffer, chain, busy, reached>>
    BY <1>3 DEF AbortTask, bridgeVars
  <2> QED BY <2>1 DEF BridgeInv, BridgeTyped, CallsSound, LockSound, BufferSound
<1> QED BY <1>1, <1>2, <1>3 DEF BridgeNext

\* What the bridge promises follows from the invariant.
LEMMA BridgeInvKeepsCalls == BridgeInv => BridgeKeepsCalls
<1> SUFFICES ASSUME BridgeInv PROVE BridgeKeepsCalls
  OBVIOUS
<1>1. ASSUME NEW i \in DOMAIN calls
      PROVE  /\ calls[i] \in CallRows /\ CallSound(calls[i], reached[i])
             /\ calls[i].kind = "entry" /\ calls[i].pc = "returned" =>
                  reached[i].taken > 0 \/ reached[i].fate # "open" \/ Among(i, buffer)
  BY DEF BridgeInv, BridgeTyped, CallsSound
<1>2. BridgeTypeOK
  BY <1>1 DEF BridgeTypeOK, BridgeInv, BridgeTyped, BufferSound, CallSound, CallRows
<1>3. NothingVanishes
  BY <1>1 DEF NothingVanishes, Among
<1>4. TakenOnce
  BY <1>1 DEF TakenOnce, CallSound
<1> QED BY <1>2, <1>3, <1>4 DEF BridgeKeepsCalls

\* HttpTransport.ts behind bridge-protocol.ts, for every capacity of the buffer and every number
\* of attempts, calls and failures: what got through is sound field by field, no log or status
\* vanishes, and the server takes a call twice only where an answer of it was lost.
THEOREM BridgeAlwaysKeepsCalls == BridgeSpec => []BridgeKeepsCalls
<1>1. BridgeInit => BridgeInv
  BY BridgeStarts
<1>2. BridgeInv /\ [BridgeNext]_bridgeVars => BridgeInv'
  BY BridgeStepKeeps
<1>3. BridgeInv => BridgeKeepsCalls
  BY BridgeInvKeepsCalls
<1> QED BY <1>1, <1>2, <1>3, PTL DEF BridgeSpec

-----------------------------------------------------------------------------
(* The main() of the live workflow.                                        *)

\* The stages after which the paid loop may have run, and what a report may say.
Paid == {"scenario", "judged", "count"}
Statuses == {"passed", "failed"}

\* What the validators have established once anything is read, opened, run or kept.
Checked ==
  stage \notin {"options", "exit1"} \/ reports # <<>> \/ traces # {} => Valid(opts)

\* What is open in which stage.
HeldSound ==
  /\ held \subseteq {"shop", "server", "browser", "directory"}
  /\ "server" \notin held => held \subseteq {"shop", "directory"}
  /\ stage \in {"options", "load", "shop", "count", "exit0"} => held = {}
  /\ stage = "boot" => held \subseteq {"shop"}
  /\ stage = "exit1" => held \subseteq {"directory"}
  /\ stage \in {"warmup", "preflight", "scenario", "return", "judged"} => "server" \in held

\* The reports, and the stages at which they are all there.
ReportsSound ==
  /\ reports \in Seq(Statuses) /\ Len(reports) <= Len(opts.selection)
  /\ reports # <<>> \/ stage \in Paid => ~On(opts, "recordOnly")
  /\ stage \in {"judged", "count"} => Len(reports) = Len(opts.selection)
  /\ stage = "exit0" =>
       "preflight" \in traces \/ reports = [i \in DOMAIN opts.selection |-> "passed"]

\* The three things a person may be waited for.
Asked == On(opts, "warmup") \/ On(opts, "humanDemo") \/ Selects(opts, HumanRequirement)

\* The traces, and the switches that explain each of them.
TracesSound ==
  /\ traces \subseteq {"provider", "restored", "person", "nobody", "preflight", "scripted", "human"}
  /\ "provider" \in traces => ~On(opts, "recordOnly")
  /\ "restored" \in traces => On(opts, "reuse")
  /\ "person" \in traces => Asked
  /\ "nobody" \in traces => Asked /\ ~On(opts, "headed")
  /\ "human" \in traces => /\ On(opts, "save") /\ ~On(opts, "recordOnly")
                           /\ Demonstrated \subseteq traces
  /\ "scripted" \in traces => On(opts, "save") /\ On(opts, "recordOnly") /\ Single(opts, Books)
  /\ stage = "preflight" => On(opts, "recordOnly")
  /\ stage = "warmup" => On(opts, "warmup")
  /\ stage = "return" => "preflight" \in traces

\* A selection is a list.
Listed == Len(opts.selection) \in Nat /\ DOMAIN opts.selection = 1..Len(opts.selection)

\* The inductive invariant of main().
SetupInv ==
  /\ Listed
  /\ stage \in {"options", "load", "shop", "boot", "warmup", "preflight", "scenario",
                "finally", "return", "judged", "count", "exit0", "exit1"}
  /\ Checked /\ HeldSound /\ ReportsSound /\ TracesSound

\* What is parsed of a list of names is a list of names.
LEMMA ParsedIsList ==
  ASSUME NEW asked \in Seq(STRING)
  PROVE  LET parsed == ParseScenarioSelection(asked)
         IN Len(parsed) \in Nat /\ DOMAIN parsed = 1..Len(parsed)
<1> DEFINE kept == {i \in DOMAIN asked : asked[i] # "" /\ \A j \in 1..i - 1 : asked[j] # asked[i]}
           nth(k) == CHOOSE i \in kept : Cardinality({j \in kept : j < i}) = k - 1
           parsed == [k \in 1..Cardinality(kept) |-> asked[nth(k)]]
<1>1. CASE asked = <<>>
  BY <1>1 DEF ParseScenarioSelection
<1>2. CASE asked # <<>>
  <2>1. Cardinality(kept) \in Nat
    <3>1. Len(asked) \in Nat /\ DOMAIN asked = 1..Len(asked)
      OBVIOUS
    <3>2. IsFiniteSet(1..Len(asked))
      BY <3>1, FS_Interval
    <3>3. kept \subseteq 1..Len(asked)
      BY <3>1
    <3> QED BY <3>2, <3>3, FS_Subset, FS_CardinalityType
  <2>2. \A n \in Nat : LET s == [k \in 1..n |-> asked[nth(k)]] IN Len(s) \in Nat /\ DOMAIN s = 1..Len(s)
    <3> SUFFICES ASSUME NEW n \in Nat
                 PROVE  Len([k \in 1..n |-> asked[nth(k)]]) = n
      OBVIOUS
    <3> DEFINE item(k) == asked[nth(k)]
    <3> HIDE DEF item
    <3>1. Len([k \in 1..n |-> item(k)]) = n
      OBVIOUS
    <3> QED BY <3>1 DEF item
  <2>3. ParseScenarioSelection(asked) = parsed
    BY <1>2 DEF ParseScenarioSelection
  <2> QED BY <2>1, <2>2, <2>3
<1> QED BY <1>1, <1>2

\* What the validators say together.
LEMMA ValidTogether ==
  ASSUME Listed, Valid(opts)
  PROVE  /\ Asked => On(opts, "headed")
         /\ On(opts, "warmup") => Dedicated(opts)
         /\ Dedicated(opts) => Single(opts, Baidu) /\ On(opts, "profileApproved")
         /\ Len(opts.selection) > 1 =>
              /\ ~Asked
              /\ \A flag \in {"humanDemo", "humanRequirement", "recordOnly", "save", "reuse"} :
                   ~On(opts, flag)
         /\ On(opts, "save") /\ ~On(opts, "recordOnly") =>
              /\ On(opts, "humanDemo")
              /\ Single(opts, Baidu) => Dedicated(opts)
         /\ On(opts, "save") /\ On(opts, "recordOnly") => ~On(opts, "humanDemo")
         /\ On(opts, "save") /\ Single(opts, Books) => ~Asked
         /\ ~(On(opts, "save") /\ On(opts, "reuse"))
<1>1. \A name : Single(opts, name) => Len(opts.selection) = 1
  BY DEF Single
<1>2. /\ AssertBooksQualificationEnvironment(opts)
      /\ ValidateReusableRecordingConfiguration(opts) /\ ValidateHumanDemoConfiguration(opts)
      /\ ValidateHumanRequirementConfiguration(opts) /\ ValidateRecordOnlyConfiguration(opts)
      /\ ResolveDedicatedProfile(opts)
  BY DEF Valid
<1>3. On(opts, "warmup") => Dedicated(opts)
  BY <1>2 DEF ResolveDedicatedProfile, Dedicated
<1>4. Dedicated(opts) => Single(opts, Baidu) /\ On(opts, "profileApproved")
  BY <1>2 DEF ResolveDedicatedProfile, Dedicated
<1>5. On(opts, "humanDemo") => On(opts, "headed")
  BY <1>2 DEF ValidateHumanDemoConfiguration
<1>6. On(opts, "warmup") => On(opts, "headed")
  <2>1. Dedicated(opts) => On(opts, "reuse") \/ On(opts, "headed")
    BY <1>2 DEF ResolveDedicatedProfile, Dedicated
  <2>2. On(opts, "reuse") /\ On(opts, "warmup") => On(opts, "headed")
    BY <1>2 DEF ValidateReusableRecordingConfiguration
  <2> QED BY <1>3, <2>1, <2>2
<1>7. Selects(opts, HumanRequirement) => On(opts, "headed") /\ Len(opts.selection) = 1
  BY <1>1, <1>2 DEF ValidateHumanRequirementConfiguration
<1>8. Asked => On(opts, "headed")
  BY <1>5, <1>6, <1>7 DEF Asked
<1>9. Len(opts.selection) > 1 =>
        /\ ~Asked
        /\ \A flag \in {"humanDemo", "humanRequirement", "recordOnly", "save", "reuse"} : ~On(opts, flag)
  <2> SUFFICES ASSUME Len(opts.selection) > 1
               PROVE  /\ ~Asked /\ ~On(opts, "humanDemo") /\ ~On(opts, "humanRequirement")
                      /\ ~On(opts, "recordOnly") /\ ~On(opts, "save") /\ ~On(opts, "reuse")
    OBVIOUS
  <2>0. Len(opts.selection) # 1
    <3>1. Len(opts.selection) \in Nat
      BY DEF Listed
    <3> DEFINE n == Len(opts.selection)
    <3>2. n \in Nat /\ n > 1
      BY <3>1
    <3> HIDE DEF n
    <3>3. n # 1
      BY <3>2
    <3> QED BY <3>3 DEF n
  <2>1. \A name : ~Single(opts, name)
    BY <1>1, <2>0
  <2>2. ~On(opts, "humanDemo")
    BY <1>2, <2>0 DEF ValidateHumanDemoConfiguration
  <2>3. ~Asked
    BY <1>3, <1>4, <1>7, <2>0, <2>1, <2>2 DEF Asked
  <2> QED BY <2>1, <2>2, <2>3, <1>2 DEF ValidateHumanRequirementConfiguration,
               ValidateRecordOnlyConfiguration, ValidateReusableRecordingConfiguration
<1>10. On(opts, "save") /\ ~On(opts, "recordOnly") =>
        /\ On(opts, "humanDemo")
        /\ Single(opts, Baidu) => Dedicated(opts)
  <2> SUFFICES ASSUME On(opts, "save"), ~On(opts, "recordOnly")
               PROVE  /\ On(opts, "humanDemo")
                      /\ Single(opts, Baidu) => Dedicated(opts)
    OBVIOUS
  <2>1. On(opts, "humanDemo")
    BY <1>2 DEF ValidateReusableRecordingConfiguration
  <2>2. Single(opts, Baidu) => Dedicated(opts)
    BY <1>2 DEF ResolveDedicatedProfile, Dedicated
  <2> QED BY <2>1, <2>2
<1>11. On(opts, "save") /\ On(opts, "recordOnly") => ~On(opts, "humanDemo")
  BY <1>2 DEF ValidateReusableRecordingConfiguration
<1>12. On(opts, "save") /\ Single(opts, Books) => ~Asked
  <2> SUFFICES ASSUME On(opts, "save"), Single(opts, Books) PROVE ~Asked
    OBVIOUS
  <2>1. ~On(opts, "warmup") /\ ~On(opts, "humanDemo")
    BY <1>2 DEF ValidateReusableRecordingConfiguration
  <2>2. opts.selection[1] = Books /\ DOMAIN opts.selection = {1}
    BY DEF Single
  <2>3. ~Selects(opts, HumanRequirement)
    BY <2>2 DEF Selects, HumanRequirement, Books
  <2> QED BY <2>1, <2>3 DEF Asked
<1>13. ~(On(opts, "save") /\ On(opts, "reuse"))
  BY <1>2 DEF ValidateReusableRecordingConfiguration
<1> QED BY <1>3, <1>4, <1>8, <1>9, <1>10, <1>11, <1>12, <1>13

\* main() starts with nothing open.
LEMMA SetupStarts == SetupInit => SetupInv
<1> SUFFICES ASSUME SetupInit PROVE SetupInv
  OBVIOUS
<1>1. PICK asked \in Selections, profile \in {"none", "baidu-qualification", "other"}, flags \in SUBSET Flags :
        opts = Options(asked, profile, flags)
  BY DEF SetupInit
<1>2. asked \in Seq(STRING)
  BY SetupAssumption
<1>3. opts.selection = ParseScenarioSelection(asked)
  BY <1>1 DEF Options
<1>4. Listed
  BY <1>2, <1>3, ParsedIsList DEF Listed
<1> QED BY <1>4 DEF SetupInit, SetupInv, HeldSound, Listed, Checked, ReportsSound, TracesSound, Paid, Statuses

\* Every stage of main() keeps the invariant.
LEMMA SetupStepKeeps == SetupInv /\ [SetupNext]_setupVars => SetupInv'
<1> SUFFICES ASSUME SetupInv, [SetupNext]_setupVars PROVE SetupInv'
  OBVIOUS
<1> USE DEF Goes, Remember, SetupInv, HeldSound, Listed, Checked, ReportsSound, TracesSound, Paid
<1>0. UNCHANGED opts => UNCHANGED <<Asked, Waited, Demonstrated, Temporary, Listed>>
  BY DEF Asked, Waited, Demonstrated, Temporary, Selects, On, Dedicated
<1>1. CASE CheckOptions
  BY <1>0, <1>1 DEF CheckOptions
<1>2. CASE Load
  BY <1>0, <1>2 DEF Load, LoadsProvider
<1>3. CASE StartShop
  BY <1>0, <1>3 DEF StartShop
<1>4. CASE BootAll
  BY <1>0, <1>4 DEF BootAll, Temporary
<1>5. CASE WarmUp
  BY <1>0, <1>5 DEF WarmUp, Waited, Asked
<1>6. CASE RunRecordOnlyPreflight
  BY <1>0, <1>6 DEF RunRecordOnlyPreflight, Waited, Demonstrated, Asked
<1>7. CASE RunScenario
  <2> DEFINE captured == IF On(opts, "reuse") THEN {} ELSE Demonstrated
             kept == IF On(opts, "save") /\ ~On(opts, "reuse") THEN {"human"} ELSE {}
  <2>1. /\ stage = "scenario" /\ ~On(opts, "recordOnly") /\ Valid(opts) /\ "server" \in held
        /\ opts' = opts /\ held' = held
    BY <1>7 DEF RunScenario
  <2>2. CASE /\ Len(reports) < Len(opts.selection)
             /\ \E done \in {{}, captured, captured \cup kept, captured \cup kept \cup Completed} :
                  traces' = traces \cup done
             /\ \/ stage' = stage /\ \E status \in Statuses : reports' = Append(reports, status)
                \/ stage' = "finally" /\ reports' = reports
    <3>1. reports' \in Seq(Statuses) /\ Len(reports') <= Len(reports) + 1 /\ Len(reports) \in Nat
          /\ Len(reports') \in Nat /\ Len(opts.selection) \in Nat
      BY <2>2
    <3>2. Len(reports') <= Len(opts'.selection)
      BY <2>1, <2>2, <3>1
    <3>3. ReportsSound'
      BY <2>1, <2>2, <3>1, <3>2
    <3>4. TracesSound'
      <4>1. PICK done \in {{}, captured, captured \cup kept, captured \cup kept \cup Completed} :
              traces' = traces \cup done
        BY <2>2
      <4>2. /\ done \subseteq Demonstrated \cup Completed \cup {"human"}
            /\ "human" \in done => /\ On(opts, "save") /\ ~On(opts, "reuse")
                                   /\ Demonstrated \subseteq done
        <5>1. captured \subseteq Demonstrated /\ (~On(opts, "reuse") => captured = Demonstrated)
          OBVIOUS
        <5>2. kept \subseteq {"human"} /\ (kept # {} => On(opts, "save") /\ ~On(opts, "reuse"))
          OBVIOUS
        <5>3. "human" \notin Demonstrated \cup Completed
          BY DEF Demonstrated, Completed, Waited
        <5> QED BY <4>1, <5>1, <5>2, <5>3
      <4>3. /\ Demonstrated \cup Completed \subseteq {"person", "nobody"}
            /\ Demonstrated \cup Completed # {} => Asked
            /\ "nobody" \in Demonstrated \cup Completed => ~On(opts, "headed")
        BY DEF Waited, Demonstrated, Completed, Asked
      <4> QED BY <1>0, <2>1, <2>2, <4>1, <4>2, <4>3
    <3> QED BY <1>0, <2>1, <2>2, <3>3, <3>4
  <2>3. CASE Len(reports) = Len(opts.selection) /\ stage' = "judged" /\ UNCHANGED <<reports, traces>>
    BY <1>0, <2>1, <2>3
  <2> QED BY <1>7, <2>2, <2>3 DEF RunScenario, Statuses
<1>8. CASE Finally
  BY <1>0, <1>8 DEF Finally
<1>9. CASE CountReports
  <2>1. /\ stage = "count" /\ UNCHANGED <<opts, held, reports, traces>>
        /\ stage' \in {"exit0", "exit1"} /\ (stage' = "exit0" => ~SomeFailed(reports))
        /\ ~On(opts, "recordOnly")
    BY <1>9 DEF CountReports
  <2>2. ASSUME stage' = "exit0" PROVE reports = [i \in DOMAIN opts.selection |-> "passed"]
    <3>1. reports \in Seq(Statuses) /\ Len(reports) = Len(opts.selection)
      BY <2>1
    <3>2. \A i \in DOMAIN reports : reports[i] = "passed"
      BY <2>1, <2>2 DEF SomeFailed
    <3>3. DOMAIN reports = DOMAIN opts.selection
      BY <3>1
    <3> QED BY <3>1, <3>2, <3>3
  <2> QED BY <1>0, <2>1, <2>2
<1>10. CASE UNCHANGED setupVars
  BY <1>0, <1>10 DEF setupVars
<1> QED BY <1>1, <1>2, <1>3, <1>4, <1>5, <1>6, <1>7, <1>8, <1>9, <1>10 DEF SetupNext

\* What main() promises follows.
LEMMA SetupInvHonest == SetupInv => SetupIsHonest
<1> SUFFICES ASSUME SetupInv PROVE SetupIsHonest
  OBVIOUS
<1>1. SetupTypeOK
  BY DEF SetupInv, HeldSound, ReportsSound, TracesSound, SetupTypeOK
<1>2. PersonalRunsAreAlone
  <2> SUFFICES ASSUME stage \notin {"idle", "options", "exit1"}
               PROVE  /\ "nobody" \notin traces
                      /\ On(opts, "warmup") => On(opts, "headed") /\ Dedicated(opts)
                      /\ Dedicated(opts) => Single(opts, Baidu) /\ On(opts, "profileApproved")
                      /\ Len(opts.selection) > 1 =>
                           /\ "person" \notin traces
                           /\ \A flag \in {"humanDemo", "humanRequirement", "recordOnly", "save", "reuse"} :
                                ~On(opts, flag)
    BY DEF PersonalRunsAreAlone
  <2>1. Valid(opts) /\ Listed
    BY DEF SetupInv, Checked
  <2>2. /\ "nobody" \in traces => Asked /\ ~On(opts, "headed")
        /\ "person" \in traces => Asked
    BY DEF SetupInv, TracesSound
  <2>3. On(opts, "warmup") => Asked
    BY DEF Asked
  <2> QED BY <2>1, <2>2, <2>3, ValidTogether
<1>3. PreflightIsFree
  BY DEF SetupInv, ReportsSound, TracesSound, PreflightIsFree
<1>4. SavedAsReviewed
  <2>1. traces # {} => Valid(opts) /\ Listed
    BY DEF SetupInv, Checked
  <2>2. /\ "human" \in traces => /\ On(opts, "save") /\ ~On(opts, "recordOnly")
                                 /\ Demonstrated \subseteq traces
        /\ "scripted" \in traces => On(opts, "save") /\ On(opts, "recordOnly") /\ Single(opts, Books)
        /\ "provider" \in traces => ~On(opts, "recordOnly")
        /\ "person" \in traces => Asked
        /\ "restored" \in traces => On(opts, "reuse")
    BY DEF SetupInv, TracesSound
  <2>3. On(opts, "humanDemo") => Asked
    BY DEF Asked
  <2>4. On(opts, "humanDemo") /\ On(opts, "headed") => Demonstrated = {"person"}
    BY DEF Demonstrated, Waited
  <2>5. CASE traces = {}
    BY <2>5 DEF SavedAsReviewed
  <2>6. CASE traces # {}
    BY <2>1, <2>2, <2>3, <2>4, <2>6, ValidTogether DEF SavedAsReviewed
  <2> QED BY <2>5, <2>6
<1>5. ExitIsHonest
  BY DEF SetupInv, HeldSound, ReportsSound, ExitIsHonest
<1> QED BY <1>1, <1>2, <1>3, <1>4, <1>5 DEF SetupIsHonest

\* main() of the live workflow, for every selection of scenarios and every set of switches: no
\* combination gets past the validators together, a record-only run is free, what is kept was
\* recorded as reviewed, the exit code tells the truth and nothing is left open.
THEOREM SetupAlwaysHonest == SetupSpec => []SetupIsHonest
<1>1. SetupInit => SetupInv
  BY SetupStarts
<1>2. SetupInv /\ [SetupNext]_setupVars => SetupInv'
  BY SetupStepKeeps
<1>3. SetupInv => SetupIsHonest
  BY SetupInvHonest
<1> QED BY <1>1, <1>2, <1>3, PTL DEF SetupSpec

-----------------------------------------------------------------------------
(* The run of one scenario.                                                 *)

DriverPlaces == {"boot", "browser", "record", "click", "wait", "reached", "handover", "create",
                 "poll", "results", "token", "compare", "revoke", "stop", "judge", "failed",
                 "shutdown", "end"}
LiveThings == {"server", "db", "browser", "profile", "host", "hostProfile", "artifacts", "page", "token"}
JobType == [st : JobStates, quality : Qualities, cost : 0..1]
FlowStates == {"none", "generating", "awaiting_replay", "replaying", "repairing", "verified",
               "approved", "failed"}

\* The driver has the types LiveTypeOK tells, and what it leaves out.  A record's type is
\* its fields and the type of each.
PlanTyped == plan \in [mode : {"intent", "candidates", "structured"}, dedicated : BOOLEAN]
DriverTyped ==
  /\ DOMAIN drv = {"pc", "step", "case", "quiet", "errs"}
  /\ drv.pc \in DriverPlaces /\ drv.case \in 1..Len(Cases)
  /\ drv.quiet \in 0..MaxQuiet /\ drv.errs \in 0..1
  /\ drv.step \in 1..Len(Path)
FlowTyped ==
  /\ DOMAIN wf = {"job", "state", "replays", "repairs", "spec", "errors", "shown", "wizardError"}
  /\ wf.job \in [JobNames -> JobType] /\ wf.state \in FlowStates
  /\ wf.replays \in 0..2 /\ wf.repairs \in 0..1 /\ wf.spec \in {"none", "valid", "bad"}
SeenTyped ==
  /\ DOMAIN seen = {"job", "state", "replays", "repairs"}
  /\ seen.job \in [JobNames -> JobType] /\ seen.state \in FlowStates
  /\ seen.replays \in 0..2 /\ seen.repairs \in 0..1
WorkTyped ==
  /\ DOMAIN work = {"st", "rows", "token", "kept", "oracle"}
  /\ work.st \in {"none", "queued", "done", "failed"} /\ work.rows \in 0..1
  /\ work.kept \in Seq({"none", "queued", "done", "failed"} \X (0..1))
LiveTyped ==
  /\ PlanTyped /\ DriverTyped /\ FlowTyped /\ SeenTyped /\ WorkTyped
  /\ own \subseteq LiveThings /\ report \in {"none", "passed", "failed"}

\* The server's workflow: what its state says of the jobs, replays and repairs.
FlowSound ==
  /\ \A j \in JobNames : wf.job[j].st = "none" => wf.job[j] = NoJob
  /\ wf.state \in {"none", "generating"} =>
       wf.repairs = 0 /\ wf.replays = 0
  /\ wf.state = "none" => wf.job["generate"] = NoJob
  /\ wf.state # "none" =>
       /\ wf.spec = "valid"
       /\ wf.job["candidates"].st # "running" /\ wf.job["normalize"].st # "running"
  /\ wf.state # "generating" => wf.job["generate"].st # "running"
  /\ wf.state # "repairing" => wf.job["repair"].st # "running"
  /\ wf.repairs = 0 => wf.job["repair"] = NoJob
  /\ wf.state = "awaiting_replay" => wf.replays = wf.repairs
  /\ wf.state \in {"replaying", "verified", "approved"} => wf.replays = wf.repairs + 1
  /\ wf.state = "repairing" => wf.replays = 1 /\ wf.repairs = 1

\* What a phase finds before its click.
PhaseReady(p) ==
  CASE p = "candidates" -> wf.state = "none" /\ \A j \in JobNames : wf.job[j] = NoJob
    [] p = "normalize" -> /\ wf.state = "none" /\ wf.job["normalize"] = NoJob
                          /\ wf.job["candidates"].st # "running"
    [] p = "generate" -> /\ wf.state = "none" /\ wf.spec = "valid"
                         /\ wf.job["normalize"].st = "completed"
                         /\ wf.job["candidates"].st # "running"
    [] p = "replay" -> wf.state = "awaiting_replay" /\ wf.repairs = 0
    [] OTHER -> wf.state = "verified"

\* Where its click leads.
PhaseUnder(p) ==
  CASE p = "candidates" -> /\ wf.state = "none" /\ wf.job["normalize"] = NoJob
                           /\ wf.job["candidates"].st # "none"
    [] p = "normalize" -> wf.state = "none" /\ wf.job["candidates"].st # "running"
    [] p = "generate" -> /\ wf.state \in {"generating", "awaiting_replay", "failed"}
                         /\ wf.repairs = 0
    [] p = "replay" -> wf.state \in {"replaying", "repairing", "awaiting_replay", "verified", "failed"}
    [] OTHER -> wf.state = "approved"

Settled == {"handover", "create", "poll", "results", "token", "compare", "revoke", "stop", "judge"}

\* The driver is where the workflow is.
PlaceSound ==
  /\ drv.pc \in {"boot", "browser", "record"} =>
       drv.step = 1 /\ wf.state = "none" /\ \A j \in JobNames : wf.job[j] = NoJob
  /\ drv.pc = "click" => PhaseReady(Phase)
  /\ drv.pc \in {"wait", "reached"} => PhaseUnder(Phase) /\ (wf.shown => Reached)
  /\ drv.pc = "reached" => Reached
  /\ drv.pc \in Settled => wf.state = "approved" /\ seen.state = "approved"
  /\ report # "none" => drv.pc \in {"shutdown", "end"}
  /\ drv.pc = "shutdown" => report # "none"

\* Once the tracker has seen the approval it has seen all.
SeenSound ==
  seen.state = "approved" =>
    /\ wf.state = "approved" /\ seen.repairs = wf.repairs /\ seen.replays = wf.replays
    /\ seen.repairs = 0 => seen.job = wf.job

CaseDone(c) == <<Cases[c], IF Cases[c] = "done" THEN 1 ELSE 0>>

\* The cases that are kept are the first ones, each as expected.
KeptSound ==
  /\ Len(work.kept) <= Len(Cases)
  /\ \A c \in 1..Len(work.kept) : work.kept[c] = CaseDone(c)
  /\ drv.pc \notin {"stop", "judge", "failed", "shutdown", "end"} =>
       Len(work.kept) = drv.case - 1
  /\ drv.pc \in {"results", "token", "compare", "revoke"} => work.st # "queued"
  /\ drv.pc \in {"token", "compare", "revoke"} => <<work.st, work.rows>> = CaseDone(drv.case)
  /\ drv.pc = "judge" => Len(work.kept) = Len(Cases)

\* What is open where.
OwnSound ==
  /\ drv.pc = "boot" => own = {}
  /\ drv.pc = "browser" => own = {"server", "db"}
  /\ own \cap {"host", "hostProfile"} # {} =>
       drv.pc \in {"create", "poll", "results", "token", "compare", "revoke", "stop"}
  /\ plan.dedicated /\ "host" \in own => "browser" \notin own
  /\ "token" \in own => \/ drv.pc \in {"compare", "revoke"}
                        \/ /\ drv.pc \in {"stop", "failed", "shutdown", "end"}
                           /\ Len(work.kept) < Len(Cases) /\ report # "passed"
  /\ drv.pc = "shutdown" =>
       "page" \notin own /\ (report = "passed" => "artifacts" \notin own /\ "token" \notin own)

LiveInv ==
  /\ LiveTyped /\ FlowSound /\ PlaceSound /\ SeenSound /\ KeptSound /\ OwnSound
  /\ PassedIsEarned /\ NothingLeftBehind
-----------------------------------------------------------------------------
\* The phases of every mode come in one order and end with the approval.
LEMMA PathOrder ==
  ASSUME NEW mode \in {"intent", "candidates", "structured"}, NEW k \in 1..Len(PathOf(mode))
  PROVE  LET path == PathOf(mode)
             next == path[k + 1]
         IN /\ Len(path) \in 4..5
            /\ path[k] \in {"candidates", "normalize", "generate", "replay", "approve"}
            /\ path[1] \in {"candidates", "normalize"}
            /\ path[k] = "candidates" => k < Len(path) /\ next = "normalize"
            /\ path[k] = "normalize" => k < Len(path) /\ next = "generate"
            /\ path[k] = "generate" => k < Len(path) /\ next = "replay"
            /\ path[k] = "replay" => k < Len(path) /\ next = "approve"
            /\ path[k] = "approve" => k = Len(path)
<1>1. CASE mode = "candidates"
  <2>1. PathOf(mode) = <<"candidates", "normalize", "generate", "replay", "approve">>
    BY <1>1 DEF PathOf
  <2>2. k \in {1, 2, 3, 4, 5}
    BY <2>1
  <2> QED BY <2>1, <2>2
<1>2. CASE mode # "candidates"
  <2>1. PathOf(mode) = <<"normalize", "generate", "replay", "approve">>
    BY <1>2 DEF PathOf
  <2>2. k \in {1, 2, 3, 4}
    BY <2>1
  <2> QED BY <2>1, <2>2
<1> QED BY <1>1, <1>2

\* The same of the driver's phase.
LEMMA PhaseOrder ==
  ASSUME LiveTyped
  PROVE  /\ Len(Path) \in 4..5 /\ drv.step \in 1..Len(Path)
         /\ Phase \in {"candidates", "normalize", "generate", "replay", "approve"}
         /\ drv.step = 1 => Phase \in {"candidates", "normalize"}
         /\ Phase = "candidates" => drv.step < Len(Path) /\ Path[drv.step + 1] = "normalize"
         /\ Phase = "normalize" => drv.step < Len(Path) /\ Path[drv.step + 1] = "generate"
         /\ Phase = "generate" => drv.step < Len(Path) /\ Path[drv.step + 1] = "replay"
         /\ Phase = "replay" => drv.step < Len(Path) /\ Path[drv.step + 1] = "approve"
         /\ Phase = "approve" => drv.step = Len(Path)
<1>1. plan.mode \in {"intent", "candidates", "structured"}
  BY DEF LiveTyped, PlanTyped
<1>2. Len(Path) \in 4..5
  <2>1. 1 \in 1..Len(PathOf(plan.mode))
    BY <1>1 DEF PathOf
  <2> QED BY <1>1, <2>1, PathOrder DEF Path
<1>3. drv.step \in 1..Len(Path)
  BY DEF LiveTyped, DriverTyped
<1> QED BY <1>1, <1>2, <1>3, PathOrder DEF Phase, Path

\* There are cases and each expects one of two outcomes.
LEMMA CaseCount == Len(Cases) \in Nat \ {0} /\ \A c \in 1..Len(Cases) : Cases[c] \in {"done", "failed"}
BY LiveAssumption

\* A run starts with nothing opened and nothing known.
LEMMA LiveStarts == LiveInit => LiveInv
<1> SUFFICES ASSUME LiveInit PROVE LiveInv
  OBVIOUS
<1> USE DEF LiveInit, Fresh, DriverAt, NoJob
<1>1. PlanTyped
  BY LiveAssumption DEF PlanTyped
<1>2. DriverTyped
  <2>1. Len(Path) \in 4..5
    BY <1>1 DEF PlanTyped, Path, PathOf
  <2>2. drv = [pc |-> "boot", step |-> 1, case |-> 1, quiet |-> 0, errs |-> 0]
    OBVIOUS
  <2>3. MaxQuiet \in Nat
    BY LiveAssumption
  <2>4. /\ DOMAIN drv = {"pc", "step", "case", "quiet", "errs"}
        /\ drv.pc = "boot" /\ drv.step = 1 /\ drv.case = 1 /\ drv.quiet = 0 /\ drv.errs = 0
    BY <2>2
  <2> HIDE DEF LiveInit, DriverAt
  <2>5. 1 \in 1..Len(Path) /\ 1 \in 1..Len(Cases) /\ 0 \in 0..MaxQuiet
    <3>1. 1 \in 1..Len(Path) /\ 0 \in 0..MaxQuiet
      BY <2>1, <2>3
    <3>2. 1 \in 1..Len(Cases)
      BY CaseCount
    <3> QED BY <3>1, <3>2
  <2> QED BY <2>4, <2>5 DEF DriverTyped, DriverPlaces
<1>3. FlowTyped
  BY DEF FlowTyped, JobType, JobStates, Qualities, FlowStates
<1>4. SeenTyped
  BY DEF SeenTyped, JobType, JobStates, Qualities, FlowStates
<1>5. WorkTyped
  BY DEF WorkTyped
<1>6. LiveTyped
  BY <1>1, <1>2, <1>3, <1>4, <1>5 DEF LiveTyped, LiveThings
<1>7. FlowSound
  BY DEF FlowSound, JobNames
<1>8. PlaceSound
  BY DEF PlaceSound, Settled
<1>9. SeenSound /\ OwnSound
  BY DEF SeenSound, OwnSound
<1>10. KeptSound
  BY CaseCount DEF KeptSound
<1> QED BY <1>6, <1>7, <1>8, <1>9, <1>10 DEF LiveInv, PassedIsEarned, NothingLeftBehind

\* What every move of the driver does to its record.
LEMMA GoToKeeps ==
  ASSUME DriverTyped, NEW place \in DriverPlaces, GoTo(place), plan' = plan
  PROVE  /\ DriverTyped' /\ drv'.pc = place /\ drv'.step = drv.step /\ drv'.case = drv.case
         /\ Path' = Path /\ Phase' = Phase
BY LiveAssumption DEF DriverTyped, GoTo, Path, Phase

\* A poll leaves the server as it is, but for the error that is remembered.
LEMMA PollKeeps ==
  ASSUME FlowTyped, SeenTyped, NEW lost \in BOOLEAN, NEW bad \in BOOLEAN, Poll(lost, bad)
  PROVE  /\ FlowTyped' /\ SeenTyped'
         /\ wf'.job = wf.job /\ wf'.state = wf.state /\ wf'.replays = wf.replays
         /\ wf'.repairs = wf.repairs /\ wf'.spec = wf.spec /\ wf'.shown = wf.shown
         /\ seen' = seen \/ seen' = Refreshed
<1>1. NoJob \in JobType
  BY DEF NoJob, JobType, JobStates, Qualities
<1>2. wf' = [wf EXCEPT !.errors = wf.errors \/ bad] /\ (seen' = seen \/ seen' = Refreshed)
  BY DEF Poll
<1>3. seen' = Refreshed => SeenTyped'
  BY <1>1 DEF Refreshed, SeenTyped, FlowTyped
<1>4. FlowTyped' /\ wf'.job = wf.job /\ wf'.state = wf.state /\ wf'.replays = wf.replays
      /\ wf'.repairs = wf.repairs /\ wf'.spec = wf.spec /\ wf'.shown = wf.shown
  BY <1>2, SMTT(30) DEF FlowTyped
<1> QED BY <1>2, <1>3, <1>4 DEF SeenTyped

\* The driver stays within its phases, its cases and its patience.
LEMMA DriverKeepsType ==
  ASSUME LiveTyped, [LiveNext]_liveVars
  PROVE  plan' = plan /\ PlanTyped' /\ DriverTyped'
<1> USE DEF LiveTyped
<1>0. plan' = plan /\ PlanTyped'
  <2>1. plan' = plan
    BY DEF LiveNext, Driver, BootLiveServer, BootLiveEnvironment, RecordScenario, ClickPrimary, WaitForPhase,
           PhaseReached, StartHost, CreateTask, PollTask, CheckResults, CreateToken, CompareSurfaces,
           RevokeToken, StopHost, Judge, Fail, ShutdownLive, WizardShows, CaseTaskEnds, ReplayEnds,
           ReplaysAgain, WizardFails, JobEnds, liveVars
  <2> QED BY <2>1, SMTT(30) DEF PlanTyped
<1>1. CASE UNCHANGED drv
  BY <1>0, <1>1 DEF DriverTyped, Path
<1>2. CASE \E place \in DriverPlaces : GoTo(place)
  BY <1>0, <1>2, GoToKeeps
<1>3. CASE WaitForPhase
  <2>1. CASE \E place \in DriverPlaces : GoTo(place)
    BY <1>2, <2>1
  <2>2. ASSUME NEW errs \in 0..1, NEW quiet \in Nat, ~GivesUp(quiet),
               drv' = [drv EXCEPT !.errs = errs, !.quiet = quiet]
        PROVE  DriverTyped'
    BY <1>0, <2>2, LiveAssumption DEF GivesUp, DriverTyped, Path
  <2>3. drv.errs + 1 >= 2 \/ drv.errs + 1 \in 0..1
    BY DEF DriverTyped
  <2>4. drv.quiet + 1 \in Nat
    BY LiveAssumption DEF DriverTyped
  <2>5. CASE wf.shown
    BY <1>3, <2>1, <2>5 DEF WaitForPhase, DriverPlaces
  <2>6. CASE ~wf.shown
    <3>1. PICK errs \in {0, drv.errs + 1}, quiet \in {0, drv.quiet + 1} :
            IF TerminalErrors(seen') \/ errs >= 2 \/ GivesUp(quiet)
            THEN GoTo("failed") ELSE drv' = [drv EXCEPT !.errs = errs, !.quiet = quiet]
      BY <1>3, <2>6 DEF WaitForPhase
    <3>2. CASE TerminalErrors(seen') \/ errs >= 2 \/ GivesUp(quiet)
      BY <2>1, <3>1, <3>2 DEF DriverPlaces
    <3>3. CASE ~(TerminalErrors(seen') \/ errs >= 2 \/ GivesUp(quiet))
      <4>1. errs \in 0..1
        BY <2>3, <3>3
      <4>2. quiet \in Nat /\ ~GivesUp(quiet)
        BY <2>4, <3>3
      <4>3. drv' = [drv EXCEPT !.errs = errs, !.quiet = quiet]
        BY <3>1, <3>3
      <4> QED BY <1>0, <2>2, <4>1, <4>2, <4>3
    <3> QED BY <3>2, <3>3
  <2> QED BY <1>0, <2>5, <2>6
<1>4. CASE PhaseReached
  BY <1>0, <1>4, PhaseOrder DEF PhaseReached, DriverTyped, DriverPlaces, Path
<1>5. CASE PollTask
  BY <1>0, <1>2, <1>5, LiveAssumption DEF PollTask, GivesUp, DriverTyped, DriverPlaces, Path
<1>6. CASE RevokeToken
  BY <1>0, <1>6, CaseCount DEF RevokeToken, DriverTyped, DriverPlaces, Path
<1> QED BY <1>1, <1>2, <1>3, <1>4, <1>5, <1>6
        DEF LiveNext, Driver, BootLiveServer, BootLiveEnvironment, RecordScenario, ClickPrimary,
            StartHost, CreateTask, CheckResults, CreateToken, CompareSurfaces,
            StopHost, Judge, Fail, ShutdownLive, WizardShows, CaseTaskEnds, ReplayEnds,
            ReplaysAgain, WizardFails, JobEnds, liveVars, DriverPlaces

\* What a step leaves of the server's workflow.
FlowBecomes(job, flow, replays, repairs, spec) ==
  /\ DOMAIN wf' = DOMAIN wf
  /\ wf'.job = job /\ wf'.state = flow /\ wf'.replays = replays
  /\ wf'.repairs = repairs /\ wf'.spec = spec
FlowStays == FlowBecomes(wf.job, wf.state, wf.replays, wf.repairs, wf.spec)
RunningJob == [st |-> "running", quality |-> "first", cost |-> 0]

\* A click starts the phase's job, its replay or its approval.
LEMMA ClickWrites ==
  ASSUME FlowTyped, ClickPrimary
  PROVE  /\ wf'.shown = FALSE
         /\ Phase \in JobNames =>
              FlowBecomes([wf.job EXCEPT ![Phase] = RunningJob],
                          IF Phase = "generate" THEN "generating" ELSE wf.state,
                          wf.replays, wf.repairs, wf.spec)
         /\ Phase = "replay" =>
              FlowBecomes(wf.job, "replaying", wf.replays + 1, wf.repairs, wf.spec)
         /\ Phase = "approve" =>
              FlowBecomes(wf.job, "approved", wf.replays, wf.repairs, wf.spec)
<1>0. [NoJob EXCEPT !.st = "running"] = RunningJob
  BY DEF NoJob, RunningJob
<1>1. CASE Phase \in JobNames
  <2>1. wf' = [wf EXCEPT !.job[Phase] = RunningJob, !.shown = FALSE,
                         !.state = IF Phase = "generate" THEN "generating" ELSE wf.state]
    BY <1>0, <1>1 DEF ClickPrimary, JobNames
  <2> QED BY <1>1, <2>1 DEF FlowTyped, FlowBecomes, JobNames
<1>2. CASE Phase = "replay"
  <2>1. wf' = [wf EXCEPT !.state = "replaying", !.shown = FALSE, !.replays = wf.replays + 1]
    BY <1>2 DEF ClickPrimary, JobNames
  <2> QED BY <1>2, <2>1 DEF FlowTyped, FlowBecomes, JobNames
<1>3. CASE Phase \notin JobNames /\ Phase # "replay"
  <2>1. wf' = [wf EXCEPT !.state = "approved", !.shown = FALSE]
    BY <1>3 DEF ClickPrimary
  <2> QED BY <1>3, <2>1 DEF FlowTyped, FlowBecomes, JobNames
<1> QED BY <1>1, <1>2, <1>3

\* The end of a job writes it, for the requirement its structure and for the others the state.
LEMMA JobEndWrites ==
  ASSUME FlowTyped, NEW j \in JobNames, JobEnds(j)
  PROVE  /\ wf'.shown = wf.shown
         /\ \E job \in JobType, flow \in FlowStates, spec \in {wf.spec, "valid", "bad"} :
              /\ job.st \in {"completed", "failed"}
              /\ j # "normalize" => spec = wf.spec
              /\ j \notin {"generate", "repair"} => flow = wf.state
              /\ j \in {"generate", "repair"} => flow \in {"awaiting_replay", "failed"}
              /\ FlowBecomes([wf.job EXCEPT ![j] = job], flow, wf.replays, wf.repairs, spec)
<1> DEFINE Rec(st, q, c) == [st |-> st, quality |-> q, cost |-> c]
           Spc(spec) == IF j = "normalize" THEN spec ELSE wf.spec
           Stt(st) == IF j \notin {"generate", "repair"} THEN wf.state
                      ELSE IF st = "completed" THEN "awaiting_replay" ELSE "failed"
           Ends(st, q, c, spec) == wf' = [wf EXCEPT !.job[j] = Rec(st, q, c), !.spec = Spc(spec), !.state = Stt(st)]
<1>1. \E st \in {"completed", "failed"}, q \in Qualities, c \in 0..1, spec \in {"valid", "bad"} :
        Ends(st, q, c, spec)
  <2>1. \E st \in {"completed", "failed"}, q \in Qualities, c \in 0..1, spec \in {"valid", "bad"} :
       /\ q = "first" \/ st = "completed"
       /\ c = 0 \/ (q = "first" /\ st = "completed" /\ NeedsProvider(plan.mode, j))
       /\ spec = "valid" \/ j = "normalize"
       /\ Ends(st, q, c, spec)
    BY Zenon DEF JobEnds
  <2> HIDE DEF Ends
  <2> QED BY <2>1
<1>2. PICK st \in {"completed", "failed"}, q \in Qualities, c \in 0..1, spec \in {"valid", "bad"} :
        Ends(st, q, c, spec)
  BY <1>1
<1>3. Rec(st, q, c) \in JobType /\ Rec(st, q, c).st \in {"completed", "failed"}
  BY DEF JobType, JobStates
<1>4. Stt(st) \in FlowStates /\ Spc(spec) \in {wf.spec, "valid", "bad"}
  BY DEF FlowStates, FlowTyped
<1>5. wf'.shown = wf.shown
      /\ FlowBecomes([wf.job EXCEPT ![j] = Rec(st, q, c)], Stt(st), wf.replays, wf.repairs, Spc(spec))
  <2>1. wf' = [wf EXCEPT !.job[j] = Rec(st, q, c), !.spec = Spc(spec), !.state = Stt(st)]
    BY <1>2
  <2> HIDE DEF Rec, Spc, Stt, Ends
  <2> QED BY <2>1 DEF FlowBecomes, FlowTyped
<1> QED BY <1>3, <1>4, <1>5

\* A replay verifies, fails, or is repaired once.
LEMMA ReplayEndWrites ==
  ASSUME FlowTyped, ReplayEnds
  PROVE  /\ wf'.shown = wf.shown
         /\ \/ \E flow \in {"verified", "failed"} :
                 FlowBecomes(wf.job, flow, wf.replays, wf.repairs, wf.spec)
            \/ /\ wf.repairs = 0
               /\ FlowBecomes([wf.job EXCEPT !["repair"] = RunningJob], "repairing", wf.replays, 1, wf.spec)
<1>0. [NoJob EXCEPT !.st = "running"] = RunningJob
  BY DEF NoJob, RunningJob
<1>1. CASE \E flow \in {"verified", "failed"} : wf' = [wf EXCEPT !.state = flow]
  BY <1>1 DEF FlowTyped, FlowBecomes
<1>2. CASE wf.repairs = 0 /\ wf' = [wf EXCEPT !.state = "repairing", !.repairs = 1,
                                              !.job["repair"] = RunningJob]
  BY <1>2 DEF FlowTyped, FlowBecomes
<1> QED BY <1>0, <1>1, <1>2 DEF ReplayEnds

\* Every step leaves the workflow or is one of its own.
LEMMA FlowMoves ==
  ASSUME LiveTyped, [LiveNext]_liveVars
  PROVE  \/ FlowStays /\ wf'.shown = wf.shown
         \/ FlowStays /\ WizardShows
         \/ ClickPrimary
         \/ \E j \in JobNames : JobEnds(j)
         \/ ReplayEnds
         \/ ReplaysAgain /\ wf'.shown = wf.shown
            /\ FlowBecomes(wf.job, "replaying", wf.replays + 1, wf.repairs, wf.spec)
<1> USE DEF LiveTyped
<1>1. wf' = wf => FlowStays /\ wf'.shown = wf.shown
  BY DEF FlowStays, FlowBecomes
<1>2. ASSUME NEW lost \in BOOLEAN, NEW bad \in BOOLEAN, Poll(lost, bad)
      PROVE  FlowStays /\ wf'.shown = wf.shown
  BY <1>2, PollKeeps DEF FlowStays, FlowBecomes, FlowTyped
<1>3. CreateTask \/ WizardFails => FlowStays /\ wf'.shown = wf.shown
  BY DEF CreateTask, WizardFails, FlowTyped, FlowStays, FlowBecomes
<1>4. WizardShows => FlowStays
  BY DEF WizardShows, FlowTyped, FlowStays, FlowBecomes
<1>5. ReplaysAgain => wf'.shown = wf.shown
            /\ FlowBecomes(wf.job, "replaying", wf.replays + 1, wf.repairs, wf.spec)
  BY DEF ReplaysAgain, FlowTyped, FlowBecomes
<1>6. WaitForPhase => wf' = wf \/ \E lost, bad \in BOOLEAN : Poll(lost, bad)
  BY DEF WaitForPhase
<1>7. PhaseReached => \E lost, bad \in BOOLEAN : Poll(lost, bad)
  BY SMTT(30) DEF PhaseReached
<1> QED BY <1>1, <1>2, <1>3, <1>4, <1>5, <1>6, <1>7
        DEF LiveNext, Driver, BootLiveServer, BootLiveEnvironment, RecordScenario,
            StartHost, PollTask, CheckResults, CreateToken, CompareSurfaces, RevokeToken,
            StopHost, Judge, Fail, ShutdownLive, CaseTaskEnds, liveVars

\* The tracker's copy is left or refreshed, and that only while a phase is waited for.
LEMMA SeenMoves ==
  ASSUME [LiveNext]_liveVars
  PROVE  seen' = seen \/ (seen' = Refreshed /\ (WaitForPhase \/ PhaseReached))
<1>1. WaitForPhase \/ PhaseReached => seen' = seen \/ seen' = Refreshed
  BY DEF WaitForPhase, PhaseReached, Poll
<1> QED BY <1>1
        DEF LiveNext, Driver, BootLiveServer, BootLiveEnvironment, RecordScenario, ClickPrimary,
            StartHost, CreateTask, PollTask, CheckResults, CreateToken, CompareSurfaces, RevokeToken,
            StopHost, Judge, Fail, ShutdownLive, WizardShows, CaseTaskEnds, ReplayEnds,
            ReplaysAgain, WizardFails, JobEnds, liveVars

\* The tracker's copy keeps its types.
LEMMA SeenKeepsType ==
  ASSUME LiveTyped, [LiveNext]_liveVars
  PROVE  SeenTyped'
<1> USE DEF LiveTyped
<1>1. NoJob \in JobType
  BY DEF NoJob, JobType, JobStates, Qualities
<1>2. seen' = Refreshed => SeenTyped'
  BY <1>1 DEF Refreshed, SeenTyped, FlowTyped
<1>3. seen' = seen => SeenTyped'
  BY DEF SeenTyped
<1> QED BY <1>2, <1>3, SeenMoves

\* What a step leaves has its type when its parts have theirs.
LEMMA FlowBecomesTyped ==
  ASSUME FlowTyped, NEW job \in [JobNames -> JobType], NEW flow \in FlowStates,
         NEW replays \in 0..2, NEW repairs \in 0..1, NEW spec \in {"none", "valid", "bad"},
         FlowBecomes(job, flow, replays, repairs, spec)
  PROVE  FlowTyped'
BY DEF FlowTyped, FlowBecomes

\* The workflow keeps its types: it is replayed at most twice, repaired at most once.
LEMMA FlowKeepsType ==
  ASSUME LiveTyped, FlowSound, PlaceSound, [LiveNext]_liveVars
  PROVE  FlowTyped'
<1>0. FlowTyped
  BY DEF LiveTyped
<1>1. RunningJob \in JobType
  BY DEF RunningJob, JobType, JobStates, Qualities
<1>2. CASE FlowStays
  BY <1>0, <1>2, FlowBecomesTyped DEF FlowStays, FlowTyped
<1>3. CASE ClickPrimary
  <2>1. CASE Phase \in JobNames
    <3>1. [wf.job EXCEPT ![Phase] = RunningJob] \in [JobNames -> JobType]
      BY <1>0, <1>1, <2>1 DEF FlowTyped
    <3>2. (IF Phase = "generate" THEN "generating" ELSE wf.state) \in FlowStates
      BY <1>0 DEF FlowTyped, FlowStates
    <3>3. wf.replays \in 0..2 /\ wf.repairs \in 0..1 /\ wf.spec \in {"none", "valid", "bad"}
      BY <1>0 DEF FlowTyped
    <3> QED BY <1>0, <1>3, <2>1, <3>1, <3>2, <3>3, ClickWrites, FlowBecomesTyped
  <2>2. CASE Phase = "replay"
    <3>1. wf.replays + 1 \in 0..2
      BY <1>0, <1>3, <2>2 DEF ClickPrimary, PlaceSound, PhaseReady, FlowSound
    <3>2. "replaying" \in FlowStates
      BY DEF FlowStates
    <3>3. wf.job \in [JobNames -> JobType] /\ wf.repairs \in 0..1 /\ wf.spec \in {"none", "valid", "bad"}
      BY <1>0 DEF FlowTyped
    <3> QED BY <1>0, <1>3, <2>2, <3>1, <3>2, <3>3, ClickWrites, FlowBecomesTyped
  <2>3. CASE Phase = "approve"
    <3>1. /\ wf.job \in [JobNames -> JobType] /\ wf.replays \in 0..2 /\ wf.repairs \in 0..1
          /\ wf.spec \in {"none", "valid", "bad"} /\ "approved" \in FlowStates
      BY <1>0 DEF FlowTyped, FlowStates
    <3> QED BY <1>0, <1>3, <2>3, <3>1, ClickWrites, FlowBecomesTyped
  <2> QED BY <2>1, <2>2, <2>3, PhaseOrder DEF JobNames
<1>4. ASSUME NEW j \in JobNames, JobEnds(j) PROVE FlowTyped'
  <2>1. PICK job \in JobType, flow \in FlowStates, spec \in {wf.spec, "valid", "bad"} :
          FlowBecomes([wf.job EXCEPT ![j] = job], flow, wf.replays, wf.repairs, spec)
    BY <1>0, <1>4, JobEndWrites
  <2>2. /\ [wf.job EXCEPT ![j] = job] \in [JobNames -> JobType] /\ spec \in {"none", "valid", "bad"}
        /\ wf.replays \in 0..2 /\ wf.repairs \in 0..1
    BY <1>0, <1>4 DEF FlowTyped
  <2> QED BY <1>0, <2>1, <2>2, FlowBecomesTyped
<1>5. CASE ReplayEnds
  <2>1. /\ [wf.job EXCEPT !["repair"] = RunningJob] \in [JobNames -> JobType]
        /\ wf.job \in [JobNames -> JobType] /\ wf.spec \in {"none", "valid", "bad"}
        /\ wf.replays \in 0..2 /\ wf.repairs \in 0..1 /\ 1 \in 0..1
    BY <1>0, <1>1 DEF FlowTyped, JobNames
  <2>2. {"verified", "failed", "repairing"} \subseteq FlowStates
    BY DEF FlowStates
  <2> QED BY <1>0, <1>5, <2>1, <2>2, ReplayEndWrites, FlowBecomesTyped
<1>6. CASE ReplaysAgain /\ FlowBecomes(wf.job, "replaying", wf.replays + 1, wf.repairs, wf.spec)
  <2>1. wf.replays + 1 \in 0..2
    BY <1>6 DEF ReplaysAgain, FlowSound
  <2>2. /\ wf.job \in [JobNames -> JobType] /\ wf.repairs \in 0..1
        /\ wf.spec \in {"none", "valid", "bad"} /\ "replaying" \in FlowStates
    BY <1>0 DEF FlowTyped, FlowStates
  <2> QED BY <1>0, <1>6, <2>1, <2>2, FlowBecomesTyped
<1> QED BY <1>2, <1>3, <1>4, <1>5, <1>6, FlowMoves

\* What the workflow's state says of its jobs, replays and repairs stays so.
LEMMA FlowKeepsSound ==
  ASSUME LiveTyped, FlowSound, PlaceSound, [LiveNext]_liveVars
  PROVE  FlowSound'
<1>0. FlowTyped
  BY DEF LiveTyped
<1>1. CASE FlowStays
  BY <1>1 DEF FlowStays, FlowBecomes, FlowSound
<1>2. CASE ClickPrimary
  <2>1. PhaseReady(Phase)
    BY <1>2 DEF ClickPrimary, PlaceSound
  <2>2. CASE Phase \in JobNames
    <3>1. FlowBecomes([wf.job EXCEPT ![Phase] = RunningJob],
                      IF Phase = "generate" THEN "generating" ELSE wf.state,
                      wf.replays, wf.repairs, wf.spec)
      BY <1>0, <1>2, <2>2, ClickWrites
    <3>2. Phase \in {"candidates", "normalize", "generate"}
      BY <2>2, PhaseOrder DEF JobNames
    <3>3. CASE Phase = "generate"
      BY <1>0, <2>1, <3>1, <3>3 DEF FlowBecomes, FlowSound, FlowTyped, PhaseReady, RunningJob, JobNames
    <3>4. CASE Phase \in {"candidates", "normalize"}
      BY <1>0, <2>1, <3>1, <3>4 DEF FlowBecomes, FlowSound, FlowTyped, PhaseReady, RunningJob, JobNames
    <3> QED BY <3>2, <3>3, <3>4
  <2>3. CASE Phase = "replay"
    <3>1. FlowBecomes(wf.job, "replaying", wf.replays + 1, wf.repairs, wf.spec)
      BY <1>0, <1>2, <2>3, ClickWrites
    <3> QED BY <1>0, <2>1, <2>3, <3>1 DEF FlowBecomes, FlowSound, FlowTyped, PhaseReady
  <2>4. CASE Phase = "approve"
    <3>1. FlowBecomes(wf.job, "approved", wf.replays, wf.repairs, wf.spec)
      BY <1>0, <1>2, <2>4, ClickWrites
    <3> QED BY <1>0, <2>1, <2>4, <3>1 DEF FlowBecomes, FlowSound, FlowTyped, PhaseReady
  <2> QED BY <2>2, <2>3, <2>4, PhaseOrder DEF JobNames
<1>3. ASSUME NEW j \in JobNames, JobEnds(j) PROVE FlowSound'
  <2>1. PICK job \in JobType, flow \in FlowStates, spec \in {wf.spec, "valid", "bad"} :
              /\ job.st \in {"completed", "failed"}
              /\ j # "normalize" => spec = wf.spec
              /\ j \notin {"generate", "repair"} => flow = wf.state
              /\ j \in {"generate", "repair"} => flow \in {"awaiting_replay", "failed"}
              /\ FlowBecomes([wf.job EXCEPT ![j] = job], flow, wf.replays, wf.repairs, spec)
    BY <1>0, <1>3, JobEndWrites
  <2>2. wf.job[j].st = "running"
    BY <1>3 DEF JobEnds
  <2>3. /\ wf'.job = [wf.job EXCEPT ![j] = job] /\ wf'.state = flow /\ wf'.replays = wf.replays
        /\ wf'.repairs = wf.repairs /\ wf'.spec = spec
    BY <2>1 DEF FlowBecomes
  <2>4. /\ wf'.job[j].st \in {"completed", "failed"} /\ wf'.job[j] # NoJob
        /\ \A i \in JobNames \ {j} : wf'.job[i] = wf.job[i]
    BY <1>0, <2>1, <2>3 DEF FlowTyped, NoJob
  <2>5. CASE j \in {"candidates", "normalize"}
    BY <1>0, <2>1, <2>2, <2>3, <2>4, <2>5 DEF FlowSound, JobNames
  <2>6. CASE j = "generate"
    BY <1>0, <2>1, <2>2, <2>3, <2>4, <2>6 DEF FlowSound, JobNames
  <2>7. CASE j = "repair"
    BY <1>0, <2>1, <2>2, <2>3, <2>4, <2>7 DEF FlowSound, JobNames
  <2> QED BY <2>5, <2>6, <2>7 DEF JobNames
<1>4. CASE ReplayEnds
  <2>1. wf.state = "replaying"
    BY <1>4 DEF ReplayEnds
  <2>2. CASE \E flow \in {"verified", "failed"} :
               FlowBecomes(wf.job, flow, wf.replays, wf.repairs, wf.spec)
    BY <2>1, <2>2 DEF FlowBecomes, FlowSound
  <2>3. CASE /\ wf.repairs = 0
             /\ FlowBecomes([wf.job EXCEPT !["repair"] = RunningJob], "repairing", wf.replays, 1, wf.spec)
    BY <1>0, <2>1, <2>3 DEF FlowBecomes, FlowSound, FlowTyped, RunningJob, JobNames
  <2> QED BY <1>0, <1>4, <2>2, <2>3, ReplayEndWrites
<1>5. CASE ReplaysAgain /\ FlowBecomes(wf.job, "replaying", wf.replays + 1, wf.repairs, wf.spec)
  BY <1>5 DEF FlowBecomes, FlowSound, ReplaysAgain
<1> QED BY <1>1, <1>2, <1>3, <1>4, <1>5, FlowMoves

\* Nothing of an approved workflow moves any more, unless it is approved again.
LEMMA ApprovedStays ==
  ASSUME LiveTyped, FlowSound, PlaceSound, [LiveNext]_liveVars, wf.state = "approved"
  PROVE  FlowStays
<1>0. FlowTyped
  BY DEF LiveTyped
<1>1. ~ClickPrimary
  BY PhaseOrder, SMTT(30) DEF ClickPrimary, PlaceSound, PhaseReady
<1>2. ASSUME NEW j \in JobNames PROVE ~JobEnds(j)
  BY <1>2, Zenon DEF JobEnds, FlowSound, JobNames
<1>3. ~ReplayEnds /\ ~ReplaysAgain
  BY DEF ReplayEnds, ReplaysAgain
<1> QED BY <1>1, <1>2, <1>3, FlowMoves

\* The server moves only under a wait that is not over.
LEMMA ServerRests ==
  ASSUME LiveTyped, FlowSound, PlaceSound, [LiveNext]_liveVars, ~ClickPrimary,
         drv.pc \notin {"wait", "reached"} \/ Reached,
         drv.pc \notin {"failed", "shutdown", "end"}
  PROVE  FlowStays
<1>0. FlowTyped
  BY DEF LiveTyped
<1>1. \A j \in JobNames : wf.job[j].st # "running"
  <2>1. CASE drv.pc \in {"boot", "browser", "record"}
    BY <2>1 DEF PlaceSound, NoJob
  <2>2. CASE drv.pc = "click"
    BY <2>2, PhaseOrder DEF PlaceSound, PhaseReady, FlowSound, NoJob, JobNames
  <2>3. CASE drv.pc \in {"wait", "reached"}
    BY <2>3, PhaseOrder DEF PlaceSound, PhaseUnder, Reached, FlowSound, NoJob, JobNames
  <2>4. CASE drv.pc \in Settled
    BY <2>4 DEF PlaceSound, FlowSound, NoJob, JobNames
  <2> QED BY <2>1, <2>2, <2>3, <2>4 DEF LiveTyped, DriverTyped, DriverPlaces, Settled
<1>2. wf.state # "replaying" /\ ~ReplaysAgain
  <2>1. CASE drv.pc \in {"boot", "browser", "record"}
    BY <2>1 DEF PlaceSound, ReplaysAgain
  <2>2. CASE drv.pc = "click"
    BY <2>2, PhaseOrder DEF PlaceSound, PhaseReady, ReplaysAgain
  <2>3. CASE drv.pc \in {"wait", "reached"}
    BY <2>3, PhaseOrder DEF PlaceSound, PhaseUnder, Reached, ReplaysAgain
  <2>4. CASE drv.pc \in Settled
    BY <2>4 DEF PlaceSound, ReplaysAgain
  <2> QED BY <2>1, <2>2, <2>3, <2>4 DEF LiveTyped, DriverTyped, DriverPlaces, Settled
<1> QED BY <1>1, <1>2, FlowMoves DEF JobEnds, ReplayEnds

\* What a wait is for stays under the server's steps.
LEMMA UnderStays ==
  ASSUME LiveTyped, FlowSound, PlaceSound, [LiveNext]_liveVars, ~ClickPrimary,
         drv.pc \in {"wait", "reached"}, Phase' = Phase
  PROVE  PhaseUnder(Phase)'
<1>0. FlowTyped /\ PhaseUnder(Phase)
  BY DEF LiveTyped, PlaceSound
<1>1. CASE FlowStays
  BY <1>0, <1>1, PhaseOrder DEF FlowStays, FlowBecomes, PhaseUnder
<1>2. ASSUME NEW j \in JobNames, JobEnds(j) PROVE PhaseUnder(Phase)'
  <2>1. PICK job \in JobType, flow \in FlowStates, spec \in {wf.spec, "valid", "bad"} :
              /\ job.st \in {"completed", "failed"}
              /\ j \notin {"generate", "repair"} => flow = wf.state
              /\ j \in {"generate", "repair"} => flow \in {"awaiting_replay", "failed"}
              /\ FlowBecomes([wf.job EXCEPT ![j] = job], flow, wf.replays, wf.repairs, spec)
    BY <1>0, <1>2, JobEndWrites
  <2>2. wf.job[j].st = "running"
    BY <1>2 DEF JobEnds
  <2>3. /\ wf'.job[j].st \in {"completed", "failed"} /\ wf'.state = flow /\ wf'.repairs = wf.repairs
        /\ \A i \in JobNames \ {j} : wf'.job[i] = wf.job[i]
    BY <1>0, <2>1 DEF FlowTyped, FlowBecomes
  <2>4. CASE Phase \in {"candidates", "normalize"}
    <3>1. j \in {"candidates", "normalize"}
      BY <1>0, <2>2, <2>4 DEF PhaseUnder, FlowSound, NoJob, JobNames
    <3> QED BY <1>0, <2>1, <2>2, <2>3, <2>4, <3>1 DEF PhaseUnder, JobNames, NoJob
  <2>5. CASE Phase \notin {"candidates", "normalize"}
    <3>1. j \in {"generate", "repair"} /\ wf.state # "approved"
      BY <1>0, <2>2, <2>5, PhaseOrder DEF PhaseUnder, FlowSound, JobNames
    <3> QED BY <1>0, <2>1, <2>3, <2>5, <3>1, PhaseOrder DEF PhaseUnder
  <2> QED BY <2>4, <2>5
<1>3. CASE ReplayEnds
  <2>1. Phase = "replay"
    BY <1>0, <1>3, PhaseOrder DEF ReplayEnds, PhaseUnder
  <2>2. wf'.state \in {"verified", "failed", "repairing"}
    BY <1>0, <1>3, ReplayEndWrites DEF FlowBecomes
  <2> QED BY <2>1, <2>2 DEF PhaseUnder
<1>4. CASE ReplaysAgain /\ FlowBecomes(wf.job, "replaying", wf.replays + 1, wf.repairs, wf.spec)
  BY <1>4 DEF ReplaysAgain, FlowBecomes, PhaseUnder
<1> QED BY <1>1, <1>2, <1>3, <1>4, FlowMoves

\* What the workflow shows and has reached stays with what it is read from.
LEMMA ReachedStays ==
  ASSUME FlowStays, Phase' = Phase
  PROVE  Reached' = Reached
BY DEF FlowStays, FlowBecomes, Reached

\* The driver stays, and the workflow stays where it waits for it.
LEMMA PlaceKeepsResting ==
  ASSUME LiveTyped, FlowSound, PlaceSound, [LiveNext]_liveVars,
         drv' = drv, plan' = plan, seen' = seen, report' = report
  PROVE  PlaceSound'
<1>1. Phase' = Phase /\ Path' = Path
  BY DEF Phase, Path
<1>2. ~ClickPrimary
  <2>1. DOMAIN drv = {"pc", "step", "case", "quiet", "errs"}
    BY DEF LiveTyped, DriverTyped
  <2> QED BY <2>1 DEF ClickPrimary, GoTo
<1>3. CASE drv.pc \in {"failed", "shutdown", "end"}
  BY <1>3 DEF PlaceSound, Settled
<1>4. CASE drv.pc \notin {"failed", "shutdown", "end", "wait", "reached"}
  <2>1. FlowStays
    BY <1>2, <1>4, ServerRests
  <2>2. PhaseReady(Phase)' = PhaseReady(Phase)
    BY <1>1, <2>1 DEF PhaseReady, FlowStays, FlowBecomes
  <2> QED BY <1>4, <2>1, <2>2 DEF PlaceSound, FlowStays, FlowBecomes, Settled
<1>5. CASE drv.pc \in {"wait", "reached"}
  <2>1. PhaseUnder(Phase)'
    BY <1>1, <1>2, <1>5, UnderStays
  <2>2. Reached => FlowStays
    BY <1>2, <1>5, ServerRests
  <2>3. Reached => Reached'
    BY <1>1, <2>2, ReachedStays
  <2>4. wf'.shown => Reached'
    <3>1. wf'.shown = wf.shown \/ WizardShows
      <4>1. FlowTyped
        BY DEF LiveTyped
      <4> QED BY <1>2, <4>1, FlowMoves, JobEndWrites, ReplayEndWrites
    <3> QED BY <1>5, <2>3, <3>1 DEF PlaceSound, WizardShows
  <2> QED BY <1>5, <2>1, <2>3, <2>4 DEF PlaceSound, Settled
<1> QED BY <1>3, <1>4, <1>5 DEF LiveTyped, DriverTyped

\* The click puts the workflow under its phase.
LEMMA ClickLeadsUnder ==
  ASSUME LiveTyped, FlowSound, PlaceSound, ClickPrimary
  PROVE  PlaceSound'
<1>0. FlowTyped /\ DriverTyped /\ PhaseReady(Phase) /\ drv.pc = "click"
  BY DEF LiveTyped, PlaceSound, ClickPrimary
<1>1. plan' = plan /\ seen' = seen /\ report' = report /\ GoTo("wait")
  BY DEF ClickPrimary
<1>2. drv'.pc = "wait" /\ Phase' = Phase
  BY <1>0, <1>1, GoToKeeps DEF DriverPlaces
<1>3. PhaseUnder(Phase)'
  <2>1. CASE Phase \in JobNames
    <3>1. FlowBecomes([wf.job EXCEPT ![Phase] = RunningJob],
                      IF Phase = "generate" THEN "generating" ELSE wf.state,
                      wf.replays, wf.repairs, wf.spec)
      BY <1>0, <2>1, ClickWrites
    <3>2. /\ wf'.job = [wf.job EXCEPT ![Phase] = RunningJob] /\ wf'.repairs = wf.repairs
          /\ wf'.state = (IF Phase = "generate" THEN "generating" ELSE wf.state)
      BY <3>1 DEF FlowBecomes
    <3>3. /\ wf'.job[Phase] = RunningJob
          /\ \A i \in JobNames \ {Phase} : wf'.job[i] = wf.job[i]
      BY <1>0, <2>1, <3>2 DEF FlowTyped
    <3>4. CASE Phase = "candidates"
      BY <1>0, <1>2, <3>2, <3>3, <3>4 DEF PhaseReady, PhaseUnder, RunningJob, JobNames
    <3>5. CASE Phase = "normalize"
      BY <1>0, <1>2, <3>2, <3>3, <3>5 DEF PhaseReady, PhaseUnder, JobNames
    <3>6. CASE Phase = "generate"
      BY <1>0, <1>2, <3>2, <3>6 DEF PhaseReady, PhaseUnder, FlowSound
    <3> QED BY <2>1, <3>4, <3>5, <3>6, PhaseOrder DEF JobNames
  <2>2. CASE Phase = "replay"
    BY <1>0, <1>2, <2>2, ClickWrites DEF FlowBecomes, PhaseUnder
  <2>3. CASE Phase = "approve"
    BY <1>0, <1>2, <2>3, ClickWrites DEF FlowBecomes, PhaseUnder
  <2> QED BY <2>1, <2>2, <2>3, PhaseOrder DEF JobNames
<1>4. report = "none" /\ wf'.shown = FALSE
  BY <1>0, ClickWrites DEF PlaceSound
<1> QED BY <1>1, <1>2, <1>3, <1>4 DEF PlaceSound, Settled

\* The next phase finds what it needs.
LEMMA PhaseLeadsOn ==
  ASSUME LiveTyped, FlowSound, PlaceSound, [LiveNext]_liveVars, PhaseReached
  PROVE  PlaceSound'
<1>0. FlowTyped /\ DriverTyped /\ PhaseUnder(Phase) /\ Reached /\ drv.pc = "reached" /\ report = "none"
  BY DEF LiveTyped, PlaceSound, PhaseReached
<1>1. plan' = plan /\ report' = report /\ Path' = Path
  BY DEF PhaseReached, Path
<1>2. FlowStays
  <2>1. ~ClickPrimary
    BY <1>0 DEF ClickPrimary
  <2> QED BY <1>0, <2>1, ServerRests
<1>3. drv' = IF ~PhaseHolds(seen') THEN [drv EXCEPT !.pc = "failed"]
             ELSE IF drv.step = Len(Path) THEN [drv EXCEPT !.pc = "handover"]
             ELSE [drv EXCEPT !.pc = "click", !.step = drv.step + 1]
  BY DEF PhaseReached
<1>4. CASE ~PhaseHolds(seen')
  <2>1. drv'.pc = "failed"
    BY <1>0, <1>3, <1>4 DEF DriverTyped
  <2> QED BY <1>0, <1>1, <2>1 DEF PlaceSound, Settled
<1>5. CASE PhaseHolds(seen') /\ drv.step = Len(Path)
  <2>1. drv'.pc = "handover"
    BY <1>0, <1>3, <1>5 DEF DriverTyped
  <2>2. Phase = "approve"
    BY <1>5, PhaseOrder
  <2>3. wf'.state = "approved" /\ seen'.state = "approved"
    BY <1>0, <1>2, <1>5, <2>2 DEF PhaseUnder, PhaseHolds, FlowStays, FlowBecomes
  <2> QED BY <1>0, <1>1, <2>1, <2>3 DEF PlaceSound, Settled
<1>6. CASE PhaseHolds(seen') /\ drv.step # Len(Path)
  <2>1. drv'.pc = "click" /\ Phase' = Path[drv.step + 1]
    BY <1>0, <1>1, <1>3, <1>6 DEF DriverTyped, Phase
  <2>2. PhaseReady(Phase)'
    <3>1. CASE Phase = "candidates"
      <4>1. Phase' = "normalize"
        BY <2>1, <3>1, PhaseOrder
      <4> QED BY <1>0, <1>2, <3>1, <4>1 DEF PhaseUnder, Reached, PhaseReady, FlowStays, FlowBecomes
    <3>2. CASE Phase = "normalize"
      <4>1. Phase' = "generate"
        BY <2>1, <3>2, PhaseOrder
      <4>2. wf'.spec = "valid"
        <5>1. wf.spec = "valid"
          BY <1>6, <3>2 DEF PhaseHolds
        <5> QED BY <1>2, <5>1 DEF FlowStays, FlowBecomes
      <4> QED BY <1>0, <1>2, <3>2, <4>1, <4>2 DEF PhaseUnder, Reached, PhaseReady, FlowStays, FlowBecomes
    <3>3. CASE Phase = "generate"
      <4>1. Phase' = "replay"
        BY <2>1, <3>3, PhaseOrder
      <4> QED BY <1>0, <1>2, <3>3, <4>1 DEF PhaseUnder, Reached, PhaseReady, FlowStays, FlowBecomes
    <3>4. CASE Phase = "replay"
      <4>1. Phase' = "approve"
        BY <2>1, <3>4, PhaseOrder
      <4> QED BY <1>0, <1>2, <3>4, <4>1 DEF PhaseUnder, Reached, PhaseReady, FlowStays, FlowBecomes
    <3> QED BY <1>6, <3>1, <3>2, <3>3, <3>4, PhaseOrder
  <2> QED BY <1>0, <1>1, <2>1, <2>2 DEF PlaceSound, Settled
<1> QED BY <1>4, <1>5, <1>6

\* A move from one place to another that asks only what the first place has.
LEMMA GoToPlace ==
  ASSUME LiveTyped, FlowSound, PlaceSound, [LiveNext]_liveVars, ~ClickPrimary,
         NEW place \in DriverPlaces, GoTo(place), seen' = seen, plan' = plan,
         drv.pc \notin {"wait", "reached"} \/ Reached \/ place = "failed",
         drv.pc # "end",
         drv.pc = "boot" => place \in {"browser", "end"},
         drv.pc = "browser" => place \in {"record", "end"},
         drv.pc = "record" => place \in {"click", "failed"},
         drv.pc = "wait" => place \in {"reached", "failed"},
         drv.pc \in Settled => place \in Settled \cup {"failed", "shutdown"},
         drv.pc = "failed" => place = "shutdown", drv.pc = "shutdown" => place = "end",
         drv.pc \notin {"click", "reached"},
         report' = report \/ place = "shutdown", place = "shutdown" => report' # "none",
         drv.pc # "shutdown" => report = "none"
  PROVE  PlaceSound'
<1>0. DriverTyped /\ FlowTyped
  BY DEF LiveTyped
<1>1. drv'.pc = place /\ drv'.step = drv.step /\ Phase' = Phase
  BY <1>0, GoToKeeps
<1>2. CASE drv.pc \in {"failed", "shutdown"}
  BY <1>1, <1>2 DEF PlaceSound, Settled
<1>3. CASE drv.pc \in {"boot", "browser", "record"}
  <2>1. FlowStays
    BY <1>3, ServerRests
  <2>2. wf'.state = "none" /\ (\A j \in JobNames : wf'.job[j] = NoJob) /\ drv'.step = 1
    BY <1>1, <1>3, <2>1 DEF PlaceSound, FlowStays, FlowBecomes
  <2>3. PhaseReady(Phase)'
    <3>1. Phase \in {"candidates", "normalize"}
      BY <1>3, PhaseOrder DEF PlaceSound
    <3> QED BY <1>1, <2>2, <3>1 DEF PhaseReady, JobNames, NoJob
  <2> QED BY <1>1, <1>3, <2>2, <2>3 DEF PlaceSound, Settled
<1>4. CASE drv.pc = "wait" /\ place = "reached"
  <2>1. Reached /\ FlowStays
    BY <1>4, ServerRests
  <2>2. Reached' /\ PhaseUnder(Phase)'
    BY <1>1, <1>4, <2>1, ReachedStays, UnderStays
  <2> QED BY <1>1, <1>4, <2>2 DEF PlaceSound, Settled
<1>5. CASE drv.pc = "wait" /\ place = "failed"
  BY <1>1, <1>5 DEF PlaceSound, Settled
<1>6. CASE drv.pc \in Settled
  <2>1. FlowStays
    BY <1>6, ServerRests DEF Settled
  <2> QED BY <1>1, <1>6, <2>1 DEF PlaceSound, Settled, FlowStays, FlowBecomes
<1> QED BY <1>0, <1>2, <1>3, <1>4, <1>5, <1>6 DEF DriverTyped, DriverPlaces, Settled

\* After the handover the workflow is not asked any more.
LEMMA SettledStays ==
  ASSUME LiveTyped, FlowSound, PlaceSound, [LiveNext]_liveVars,
         drv.pc \in Settled, drv'.pc \in Settled \cup {"failed"}, seen' = seen, report' = report
  PROVE  PlaceSound'
<1>1. ~ClickPrimary
  BY DEF Settled, ClickPrimary
<1>2. drv.pc \notin {"wait", "reached", "failed", "shutdown", "end"}
  BY DEF Settled
<1>3. FlowStays
  BY <1>1, <1>2, ServerRests, SMTT(30)
<1> QED BY <1>3 DEF PlaceSound, Settled, FlowStays, FlowBecomes

\* The driver is where the workflow is, after every step.
LEMMA PlaceKeeps ==
  ASSUME LiveTyped, FlowSound, PlaceSound, [LiveNext]_liveVars
  PROVE  PlaceSound'
<1>0. DriverTyped /\ FlowTyped /\ plan' = plan
  BY DriverKeepsType DEF LiveTyped
<1>1. CASE ClickPrimary
  BY <1>1, ClickLeadsUnder
<1>2. CASE PhaseReached
  BY <1>2, PhaseLeadsOn
<1>3. CASE WaitForPhase
  <2>1. drv.pc = "wait" /\ report' = report /\ report = "none" /\ ~ClickPrimary
    BY <1>3 DEF WaitForPhase, PlaceSound, ClickPrimary
  <2>2. CASE wf.shown
    <3>1. GoTo("reached") /\ seen' = seen /\ Reached
      BY <1>3, <2>1, <2>2 DEF WaitForPhase, PlaceSound
    <3> QED BY <1>0, <2>1, <3>1, GoToPlace DEF DriverPlaces, Settled
  <2>3. CASE ~wf.shown
    <3>1. PICK lost \in BOOLEAN, bad \in BOOLEAN : Poll(lost, bad)
      BY <1>3, <2>3 DEF WaitForPhase
    <3>2. wf'.shown = wf.shown
      BY <1>0, <3>1, PollKeeps DEF LiveTyped
    <3>3. GoTo("failed") \/ \E errs, quiet : drv' = [drv EXCEPT !.errs = errs, !.quiet = quiet]
      BY <1>3, <2>3 DEF WaitForPhase
    <3>4. CASE GoTo("failed")
      <4>1. drv'.pc = "failed"
        BY <1>0, <3>4, GoToKeeps DEF DriverPlaces
      <4> QED BY <2>1, <4>1 DEF PlaceSound, Settled
    <3>5. CASE \E errs, quiet : drv' = [drv EXCEPT !.errs = errs, !.quiet = quiet]
      <4>1. drv'.pc = "wait" /\ Phase' = Phase
        BY <1>0, <2>1, <3>5 DEF DriverTyped, Phase, Path
      <4>2. PhaseUnder(Phase)'
        BY <2>1, <4>1, UnderStays
      <4> QED BY <2>1, <2>3, <3>2, <4>1, <4>2 DEF PlaceSound, Settled
    <3> QED BY <3>3, <3>4, <3>5
  <2> QED BY <2>2, <2>3
<1>4. CASE BootLiveServer \/ BootLiveEnvironment \/ RecordScenario
  <2>1. PICK place \in DriverPlaces :
          /\ GoTo(place)
          /\ drv.pc = "boot" => place \in {"browser", "end"}
          /\ drv.pc = "browser" => place \in {"record", "end"}
          /\ drv.pc = "record" => place \in {"click", "failed"}
    BY <1>4 DEF BootLiveServer, BootLiveEnvironment, RecordScenario, DriverPlaces
  <2>2. drv.pc \in {"boot", "browser", "record"} /\ seen' = seen /\ report' = report
    BY <1>4 DEF BootLiveServer, BootLiveEnvironment, RecordScenario
  <2> QED BY <1>0, <2>1, <2>2, GoToPlace DEF ClickPrimary, Settled, PlaceSound
<1>5. CASE Judge \/ Fail \/ ShutdownLive
  <2>1. PICK place \in {"shutdown", "failed", "end"} :
          /\ GoTo(place)
          /\ place = "shutdown" => report' # "none"
          /\ report' = report \/ place = "shutdown"
          /\ drv.pc = "judge" => place \in {"shutdown", "failed"}
          /\ drv.pc = "failed" => place = "shutdown"
          /\ drv.pc = "shutdown" => place = "end"
    BY <1>5 DEF Judge, Fail, ShutdownLive
  <2>2. drv.pc \in {"judge", "failed", "shutdown"} /\ seen' = seen
    BY <1>5 DEF Judge, Fail, ShutdownLive
  <2>3. place \in DriverPlaces /\ ~ClickPrimary /\ (drv.pc # "shutdown" => report = "none")
    BY <2>2 DEF DriverPlaces, ClickPrimary, PlaceSound
  <2> QED BY <1>0, <2>1, <2>2, <2>3, GoToPlace DEF Settled
<1>6. CASE StartHost \/ CreateTask \/ CheckResults \/ CreateToken \/ CompareSurfaces \/ StopHost
  <2>1. \E place \in Settled \cup {"failed"} : GoTo(place)
    BY <1>6 DEF StartHost, CreateTask, CheckResults, CreateToken, CompareSurfaces, StopHost, Settled
  <2>2. drv.pc \in Settled /\ seen' = seen /\ report' = report
    BY <1>6 DEF StartHost, CreateTask, CheckResults, CreateToken, CompareSurfaces, StopHost, Settled
  <2>3. drv'.pc \in Settled \cup {"failed"}
    BY <1>0, <2>1, GoToKeeps DEF Settled, DriverPlaces
  <2> QED BY <2>2, <2>3, SettledStays
<1>7. CASE PollTask \/ RevokeToken
  <2>1. drv.pc \in Settled /\ seen' = seen /\ report' = report
    BY <1>7 DEF PollTask, RevokeToken, Settled
  <2>2. drv'.pc \in Settled
    BY <1>0, <1>7 DEF PollTask, RevokeToken, GoTo, DriverTyped, Settled
  <2> QED BY <2>1, <2>2, SettledStays
<1>8. CASE UNCHANGED <<drv, seen, report>>
  BY <1>0, <1>8, PlaceKeepsResting
<1> QED BY <1>1, <1>2, <1>3, <1>4, <1>5, <1>6, <1>7, <1>8
        DEF LiveNext, Driver, WizardShows, CaseTaskEnds, ReplayEnds, ReplaysAgain, WizardFails,
            JobEnds, liveVars

\* What the tracker has once it has seen the approval is the server's.
LEMMA SeenKeeps ==
  ASSUME LiveTyped, FlowSound, PlaceSound, SeenSound, [LiveNext]_liveVars
  PROVE  SeenSound'
<1>0. FlowTyped /\ SeenTyped
  BY DEF LiveTyped
<1>1. CASE seen' = seen /\ seen.state = "approved"
  <2>1. FlowStays
    BY <1>1, ApprovedStays DEF SeenSound
  <2> QED BY <1>1, <2>1 DEF SeenSound, FlowStays, FlowBecomes
<1>2. CASE seen' = seen /\ seen.state # "approved"
  BY <1>2 DEF SeenSound
<1>3. CASE seen' = Refreshed /\ wf.state = "approved"
  <2>1. FlowStays
    BY <1>3, ApprovedStays
  <2>2. /\ seen'.state = wf.state /\ seen'.repairs = wf.repairs /\ seen'.replays = wf.replays
        /\ seen'.job = [j \in JobNames |-> IF j \in Found THEN wf.job[j] ELSE NoJob]
    BY <1>3 DEF Refreshed
  <2>3. ASSUME wf.repairs = 0 PROVE seen'.job = wf.job
    <3>1. \A j \in JobNames : j \notin Found => wf.job[j] = NoJob
      <4>1. wf.job["repair"] = NoJob
        BY <2>3 DEF FlowSound
      <4>2. "generate" \in Found
        BY <1>3, <2>3 DEF Found, CurrentJob
      <4>3. \A j \in {"candidates", "normalize"} : j \notin Found => wf.job[j] = NoJob
        BY DEF Found, FlowSound, JobNames
      <4> QED BY <4>1, <4>2, <4>3 DEF JobNames
    <3>2. \A j \in JobNames : seen'.job[j] = wf.job[j]
      BY <2>2, <3>1
    <3> QED BY <1>0, <2>2, <3>2 DEF FlowTyped
  <2> QED BY <2>1, <2>2, <2>3 DEF SeenSound, FlowStays, FlowBecomes
<1>4. CASE seen' = Refreshed /\ wf.state # "approved"
  BY <1>4, SMTT(30) DEF Refreshed, SeenSound
<1> QED BY <1>1, <1>2, <1>3, <1>4, SeenMoves

\* A step takes the driver from a place to a place that follows it.
NextPlaces(place) ==
  CASE place = "boot" -> {"browser", "end"}
    [] place = "browser" -> {"record", "end"}
    [] place = "record" -> {"click", "failed"}
    [] place = "click" -> {"wait"}
    [] place = "wait" -> {"wait", "reached", "failed"}
    [] place = "reached" -> {"click", "handover", "failed"}
    [] place = "handover" -> {"create"}
    [] place = "create" -> {"poll", "stop"}
    [] place = "poll" -> {"poll", "results", "stop"}
    [] place = "results" -> {"token", "stop"}
    [] place = "token" -> {"compare", "stop"}
    [] place = "compare" -> {"revoke"}
    [] place = "revoke" -> {"create", "stop"}
    [] place = "stop" -> {"judge", "failed"}
    [] place = "judge" -> {"shutdown", "failed"}
    [] place = "failed" -> {"shutdown"}
    [] OTHER -> {"end"}

\* Who moves the tasks' record, and when.
LEMMA WorkMoves ==
  ASSUME [LiveNext]_liveVars
  PROVE  \/ work' = work
         \/ drv.pc = "create" /\ CreateTask
         \/ CaseTaskEnds
         \/ drv.pc = "token" /\ CreateToken
         \/ drv.pc = "compare" /\ CompareSurfaces
         \/ drv.pc = "revoke" /\ RevokeToken
BY DEF LiveNext, Driver, BootLiveServer, BootLiveEnvironment, RecordScenario, ClickPrimary, WaitForPhase,
       PhaseReached, StartHost, CreateTask, PollTask, CheckResults, CreateToken, CompareSurfaces,
       RevokeToken, StopHost, Judge, Fail, ShutdownLive, WizardShows, CaseTaskEnds, ReplayEnds,
       ReplaysAgain, WizardFails, JobEnds, liveVars

\* A case that is kept is the next one, as expected.
LEMMA RevokeWrites ==
  ASSUME WorkTyped, DriverTyped, RevokeToken
  PROVE  /\ DOMAIN work' = DOMAIN work /\ work'.st = "none" /\ work'.rows = work.rows
         /\ \/ /\ work'.kept = Append(work.kept, <<work.st, work.rows>>)
               /\ "token" \notin own'
               /\ IF drv.case = Len(Cases) THEN drv'.pc = "stop" /\ drv'.case = drv.case
                  ELSE drv'.pc = "create" /\ drv'.case = drv.case + 1
            \/ /\ work'.kept = work.kept
               /\ drv'.pc = "stop" /\ drv'.case = drv.case
<1>1. PICK revoked \in BOOLEAN :
       /\ own' = IF revoked THEN own \ {"token"} ELSE own
       /\ work' = [work EXCEPT !.token = "none", !.st = "none",
                               !.kept = IF KeepsCase(revoked) THEN Append(work.kept, <<work.st, work.rows>>)
                                        ELSE work.kept]
       /\ drv' = IF ~KeepsCase(revoked) THEN [drv EXCEPT !.pc = "stop"]
                 ELSE IF drv.case = Len(Cases) THEN [drv EXCEPT !.pc = "stop"]
                 ELSE [drv EXCEPT !.pc = "create", !.case = drv.case + 1]
  BY DEF RevokeToken
<1>2. DOMAIN work' = DOMAIN work /\ work'.st = "none" /\ work'.rows = work.rows
      /\ work'.kept = IF KeepsCase(revoked) THEN Append(work.kept, <<work.st, work.rows>>)
                      ELSE work.kept
  BY <1>1 DEF WorkTyped
<1>3. CASE KeepsCase(revoked)
  <2>1. revoked
    BY <1>3 DEF KeepsCase
  <2>2. IF drv.case = Len(Cases) THEN drv'.pc = "stop" /\ drv'.case = drv.case
        ELSE drv'.pc = "create" /\ drv'.case = drv.case + 1
    BY <1>1, <1>3 DEF DriverTyped
  <2> QED BY <1>1, <1>2, <1>3, <2>1, <2>2
<1>4. CASE ~KeepsCase(revoked)
  <2>1. drv'.pc = "stop" /\ drv'.case = drv.case
    BY <1>1, <1>4 DEF DriverTyped
  <2> QED BY <1>2, <1>4, <2>1
<1> QED BY <1>3, <1>4

\* The other moves leave the kept cases; the outcome is the worker's.
LEMMA WorkWrites ==
  ASSUME WorkTyped, [LiveNext]_liveVars, ~RevokeToken
  PROVE  /\ WorkTyped' /\ work'.kept = work.kept
         /\ drv.pc \in {"poll", "results", "token", "compare", "revoke"} /\ work.st # "queued" =>
              work'.st = work.st /\ work'.rows = work.rows
<1>1. CASE work' = work
  BY <1>1 DEF WorkTyped
<1>2. CASE drv.pc = "create" /\ CreateTask
  <2>1. work' = [work EXCEPT !.st = "queued", !.rows = 0, !.oracle = TRUE] \/ work' = work
    BY <1>2 DEF CreateTask
  <2>2. /\ DOMAIN work' = DOMAIN work /\ work'.kept = work.kept
        /\ work'.st \in {work.st, "queued"} /\ work'.rows \in {work.rows, 0}
    BY <2>1 DEF WorkTyped
  <2>3. WorkTyped'
    BY <2>2 DEF WorkTyped
  <2> QED BY <1>2, <2>2, <2>3
<1>3. CASE CaseTaskEnds
  BY <1>3 DEF CaseTaskEnds, WorkTyped
<1>4. CASE drv.pc = "token" /\ CreateToken
  BY <1>4 DEF CreateToken, WorkTyped
<1>5. CASE drv.pc = "compare" /\ CompareSurfaces
  BY <1>5 DEF CompareSurfaces, WorkTyped
<1> QED BY <1>1, <1>2, <1>3, <1>4, <1>5, WorkMoves

\* The tasks' record, what is open and the report keep their types.
LEMMA WorkKeepsType ==
  ASSUME LiveTyped, [LiveNext]_liveVars
  PROVE  WorkTyped' /\ own' \subseteq LiveThings /\ report' \in {"none", "passed", "failed"}
<1>0. WorkTyped /\ DriverTyped /\ own \subseteq LiveThings /\ report \in {"none", "passed", "failed"}
  BY DEF LiveTyped
<1>1. CASE RevokeToken
  <2>1. <<work.st, work.rows>> \in {"none", "queued", "done", "failed"} \X (0..1)
    BY <1>0 DEF WorkTyped
  <2>2. Append(work.kept, <<work.st, work.rows>>) \in Seq({"none", "queued", "done", "failed"} \X (0..1))
    BY <1>0, <2>1 DEF WorkTyped
  <2>3. WorkTyped'
    BY <1>0, <1>1, <2>2, RevokeWrites DEF WorkTyped
  <2> QED BY <1>0, <1>1, <2>3 DEF RevokeToken
<1>2. CASE ~RevokeToken
  <2>1. WorkTyped'
    BY <1>0, <1>2, WorkWrites
  <2>2. report' \in {"none", "passed", "failed"}
    BY <1>0, Zenon DEF LiveNext, Driver, BootLiveServer, BootLiveEnvironment, RecordScenario, ClickPrimary, WaitForPhase,
       PhaseReached, StartHost, CreateTask, PollTask, CheckResults, CreateToken, CompareSurfaces,
       RevokeToken, StopHost, Judge, Fail, ShutdownLive, WizardShows, CaseTaskEnds, ReplayEnds,
       ReplaysAgain, WizardFails, JobEnds, liveVars
  <2>3. own' \subseteq LiveThings
    <3>1. CASE own' = own \/ \E gone : own' = own \ gone
      BY <1>0, <3>1
    <3>2. CASE BootLiveServer \/ BootLiveEnvironment \/ RecordScenario \/ StartHost \/ CreateToken
      <4>1. \E things : own' \subseteq own \cup things /\ things \subseteq LiveThings
        BY <3>2 DEF BootLiveServer, BootLiveEnvironment, BootUndone, RecordScenario, StartHost,
                    HandedOver, CreateToken, LiveThings
      <4> QED BY <1>0, <4>1
    <3> QED BY <1>2, <3>1, <3>2
            DEF LiveNext, Driver, ClickPrimary, WaitForPhase, PhaseReached, CreateTask, PollTask,
                CheckResults, CompareSurfaces, StopHost, Judge, Fail, ShutdownLive, WizardShows,
                CaseTaskEnds, ReplayEnds, ReplaysAgain, WizardFails, JobEnds, liveVars
  <2> QED BY <2>1, <2>2, <2>3
<1> QED BY <1>1, <1>2

\* Where a step takes the driver, and that only a revocation goes on to the next case.
LEMMA DriverMoves ==
  ASSUME LiveTyped, [LiveNext]_liveVars
  PROVE  \/ drv' = drv
         \/ drv'.pc \in NextPlaces(drv.pc) /\ (RevokeToken \/ drv'.case = drv.case)
<1>0. DriverTyped /\ plan' = plan
  BY DriverKeepsType DEF LiveTyped
<1>1. ASSUME NEW place \in DriverPlaces, GoTo(place) PROVE drv'.pc = place /\ drv'.case = drv.case
  BY <1>0, <1>1, GoToKeeps
<1>2. CASE BootLiveServer \/ BootLiveEnvironment \/ RecordScenario \/ ClickPrimary
  BY <1>1, <1>2 DEF BootLiveServer, BootLiveEnvironment, RecordScenario, ClickPrimary, NextPlaces, DriverPlaces
<1>3. CASE WaitForPhase
  <2>1. drv.pc = "wait" /\ \/ GoTo("reached") \/ GoTo("failed")
                           \/ \E errs, quiet : drv' = [drv EXCEPT !.errs = errs, !.quiet = quiet]
    BY <1>3 DEF WaitForPhase
  <2>2. CASE \E errs, quiet : drv' = [drv EXCEPT !.errs = errs, !.quiet = quiet]
    BY <1>0, <2>1, <2>2 DEF NextPlaces, DriverTyped
  <2> QED BY <1>1, <2>1, <2>2 DEF NextPlaces, DriverPlaces
<1>4. CASE PhaseReached
  <2>1. drv.pc = "reached" /\ drv'.pc \in {"failed", "handover", "click"} /\ drv'.case = drv.case
    BY <1>0, <1>4 DEF PhaseReached, DriverTyped
  <2> QED BY <2>1 DEF NextPlaces
<1>5. CASE PollTask
  <2>1. CASE drv' = [drv EXCEPT !.quiet = drv.quiet + 1]
    BY <1>0, <1>5, <2>1 DEF NextPlaces, DriverTyped, PollTask
  <2> QED BY <1>1, <1>5, <2>1 DEF PollTask, NextPlaces, DriverPlaces
<1>6. CASE RevokeToken
  <2>1. drv.pc = "revoke" /\ drv'.pc \in {"stop", "create"}
    BY <1>0, <1>6, RevokeWrites DEF RevokeToken, LiveTyped
  <2> QED BY <1>6, <2>1 DEF NextPlaces
<1>7. CASE StartHost \/ CreateTask \/ CheckResults \/ CreateToken
  BY <1>1, <1>7 DEF StartHost, CreateTask, CheckResults, CreateToken, NextPlaces, DriverPlaces
<1>8. CASE CompareSurfaces \/ StopHost \/ Judge \/ Fail \/ ShutdownLive
  BY <1>1, <1>8 DEF CompareSurfaces, StopHost, Judge, Fail, ShutdownLive, NextPlaces, DriverPlaces
<1> QED BY <1>2, <1>3, <1>4, <1>5, <1>6, <1>7, <1>8
        DEF LiveNext, Driver, WizardShows, CaseTaskEnds, ReplayEnds, ReplaysAgain, WizardFails,
            JobEnds, liveVars

\* The kept cases stay the first ones, each as expected.
LEMMA KeptKeeps ==
  ASSUME LiveTyped, KeptSound, [LiveNext]_liveVars
  PROVE  KeptSound'
<1>0. WorkTyped /\ DriverTyped
  BY DEF LiveTyped
<1>1. Len(work.kept) \in Nat /\ Len(Cases) \in Nat /\ drv.case \in 1..Len(Cases) /\ drv.case \in Nat
  BY <1>0, CaseCount DEF WorkTyped, DriverTyped
<1>2. CASE RevokeToken
  <2>1. /\ drv.pc = "revoke" /\ Len(work.kept) = drv.case - 1
        /\ <<work.st, work.rows>> = CaseDone(drv.case)
    BY <1>2 DEF RevokeToken, KeptSound
  <2>2. CASE /\ work'.kept = Append(work.kept, <<work.st, work.rows>>)
             /\ IF drv.case = Len(Cases) THEN drv'.pc = "stop" /\ drv'.case = drv.case
                ELSE drv'.pc = "create" /\ drv'.case = drv.case + 1
    <3>1. Len(work'.kept) = drv.case /\ work'.kept[drv.case] = CaseDone(drv.case)
          /\ \A c \in 1..Len(work.kept) : work'.kept[c] = work.kept[c]
      <4>1. <<work.st, work.rows>> \in {"none", "queued", "done", "failed"} \X (0..1)
        BY <1>0 DEF WorkTyped
      <4>2. work.kept \in Seq({"none", "queued", "done", "failed"} \X (0..1))
        BY <1>0 DEF WorkTyped
      <4>3. drv.case = Len(work.kept) + 1
        BY <1>1, <2>1
      <4>4. ASSUME NEW S, NEW s \in Seq(S), NEW e \in S, work'.kept = Append(s, e)
            PROVE  /\ Len(work'.kept) = Len(s) + 1 /\ work'.kept[Len(s) + 1] = e
                   /\ \A c \in 1..Len(s) : work'.kept[c] = s[c]
        BY <4>4, AppendProperties
      <4>5. /\ Len(work'.kept) = Len(work.kept) + 1
            /\ work'.kept[Len(work.kept) + 1] = <<work.st, work.rows>>
            /\ \A c \in 1..Len(work.kept) : work'.kept[c] = work.kept[c]
        BY <2>2, <4>1, <4>2, <4>4
      <4> QED BY <2>1, <4>3, <4>5
    <3>2. \A c \in 1..drv.case : c \in 1..Len(work.kept) \/ c = drv.case
      BY <1>1, <2>1
    <3>3. \A c \in 1..Len(work'.kept) : work'.kept[c] = CaseDone(c)
      BY <3>1, <3>2 DEF KeptSound
    <3>4. drv'.pc \in {"stop", "create"} /\ (drv'.pc = "create" => drv'.case = drv.case + 1)
      BY <2>2
    <3>5. Len(work'.kept) <= Len(Cases) /\ (drv'.pc = "create" => Len(work'.kept) = drv'.case - 1)
      BY <1>1, <3>1, <3>4
    <3> QED BY <3>3, <3>4, <3>5 DEF KeptSound, CaseDone
  <2>3. CASE work'.kept = work.kept /\ drv'.pc = "stop"
    BY <2>3 DEF KeptSound, CaseDone
  <2> QED BY <1>0, <1>2, <2>2, <2>3, RevokeWrites
<1>3. CASE ~RevokeToken
  <2>1. work'.kept = work.kept
    BY <1>0, <1>3, WorkWrites
  <2>2. drv.pc \in {"poll", "results", "token", "compare", "revoke"} /\ work.st # "queued" =>
          work'.st = work.st /\ work'.rows = work.rows
    BY <1>0, <1>3, WorkWrites
  <2>3. CASE drv' = drv
    <3>1. drv.pc \in {"results", "token", "compare", "revoke"} =>
            work.st # "queued" /\ work'.st = work.st /\ work'.rows = work.rows
      BY <2>2 DEF KeptSound
    <3> QED BY <2>1, <2>3, <3>1 DEF KeptSound, CaseDone
  <2>4. CASE drv' # drv
    <3>1. drv'.pc \in NextPlaces(drv.pc) /\ drv'.case = drv.case
      BY <1>3, <2>4, DriverMoves
    <3>2. drv'.pc = "results" => work'.st # "queued"
      <4>1. drv'.pc = "results" => drv.pc = "poll"
        BY <3>1 DEF NextPlaces
      <4>2. SUFFICES ASSUME drv.pc = "poll", drv'.pc = "results" PROVE work'.st # "queued"
        BY <4>1, Zenon
      <4>3. PollTask
        BY <2>4, <4>2 DEF LiveNext, Driver, BootLiveServer, BootLiveEnvironment, RecordScenario, ClickPrimary,
             WaitForPhase, PhaseReached, StartHost, CreateTask, CheckResults, CreateToken, CompareSurfaces,
             RevokeToken, StopHost, Judge, Fail, ShutdownLive, WizardShows, CaseTaskEnds, ReplayEnds,
             ReplaysAgain, WizardFails, JobEnds, liveVars
      <4>4. CASE work.st = "queued"
        <5>1. GoTo("stop") \/ drv' = [drv EXCEPT !.quiet = drv.quiet + 1]
          BY <4>3, <4>4 DEF PollTask
        <5>2. drv'.pc \in {"stop", "poll"}
          BY <1>0, <4>2, <5>1 DEF GoTo, DriverTyped
        <5> QED BY <4>2, <5>2
      <4>5. CASE work.st # "queued"
        BY <4>3, <4>5 DEF PollTask
      <4> QED BY <4>4, <4>5
    <3>3. drv'.pc = "token" => <<work'.st, work'.rows>> = CaseDone(drv.case) /\ work'.st # "queued"
      <4>1. drv'.pc = "token" => drv.pc = "results"
        BY <3>1 DEF NextPlaces
      <4>2. SUFFICES ASSUME drv.pc = "results", drv'.pc = "token"
                     PROVE  <<work'.st, work'.rows>> = CaseDone(drv.case) /\ work'.st # "queued"
        BY <4>1, Zenon
      <4>3. CheckResults
        BY <2>4, <4>2 DEF LiveNext, Driver, BootLiveServer, BootLiveEnvironment, RecordScenario, ClickPrimary,
             WaitForPhase, PhaseReached, StartHost, CreateTask, PollTask, CreateToken, CompareSurfaces,
             RevokeToken, StopHost, Judge, Fail, ShutdownLive, WizardShows, CaseTaskEnds, ReplayEnds,
             ReplaysAgain, WizardFails, JobEnds, liveVars
      <4>4. CaseHolds
        <5>1. ~CaseHolds => drv'.pc = "stop"
          BY <1>0, <4>3 DEF CheckResults, GoTo, DriverTyped
        <5> QED BY <4>2, <5>1
      <4>5. /\ work.st = Cases[drv.case] /\ work.st \in {"done", "failed"}
            /\ work.rows = IF Cases[drv.case] = "done" THEN 1 ELSE 0
        BY <1>0, <1>1, <4>4, CaseCount DEF CaseHolds, WorkTyped
      <4> QED BY <4>3, <4>5 DEF CheckResults, CaseDone
    <3>4. drv'.pc \in {"compare", "revoke"} =>
            <<work'.st, work'.rows>> = CaseDone(drv.case) /\ work'.st # "queued"
      <4>1. drv'.pc \in {"compare", "revoke"} => drv.pc \in {"token", "compare"}
        BY <3>1 DEF NextPlaces
      <4> QED BY <2>2, <4>1 DEF KeptSound
    <3>5. drv'.pc = "judge" => Len(work.kept) = Len(Cases)
      <4>1. drv'.pc = "judge" => drv.pc = "stop"
        BY <3>1 DEF NextPlaces
      <4>2. SUFFICES ASSUME drv.pc = "stop", drv'.pc = "judge" PROVE Len(work.kept) = Len(Cases)
        BY <4>1, Zenon
      <4>3. StopHost
        BY <2>4, <4>2 DEF LiveNext, Driver, BootLiveServer, BootLiveEnvironment, RecordScenario, ClickPrimary,
             WaitForPhase, PhaseReached, StartHost, CreateTask, PollTask, CheckResults, CreateToken, CompareSurfaces,
             RevokeToken, Judge, Fail, ShutdownLive, WizardShows, CaseTaskEnds, ReplayEnds,
             ReplaysAgain, WizardFails, JobEnds, liveVars
      <4>4. Len(work.kept) # Len(Cases) => drv'.pc = "failed"
        BY <1>0, <4>3 DEF StopHost, GoTo, DriverTyped
      <4> QED BY <4>2, <4>4
    <3>6. drv'.pc \notin {"stop", "judge", "failed", "shutdown", "end"} =>
            drv.pc \notin {"stop", "judge", "failed", "shutdown", "end"}
      BY <3>1, SMTT(30) DEF NextPlaces
    <3> QED BY <2>1, <3>1, <3>2, <3>3, <3>4, <3>5, <3>6 DEF KeptSound, CaseDone
  <2> QED BY <2>3, <2>4
<1> QED BY <1>2, <1>3

\* What is open changes with the places that open and close it.
LEMMA OwnMoves ==
  ASSUME LiveTyped, [LiveNext]_liveVars
  PROVE  \/ own' = own /\ drv' = drv
         \/ /\ own' = own /\ drv'.pc \in NextPlaces(drv.pc) /\ drv'.pc \notin {"browser", "shutdown"}
            /\ drv.pc \notin {"browser", "record", "handover", "stop", "failed", "shutdown", "revoke"}
         \/ drv.pc = "boot" /\ own' = own \cup {"server", "db"} /\ drv'.pc = "browser"
         \/ drv.pc = "browser" /\ drv'.pc = "record"
            /\ \E things \in SUBSET {"browser", "profile"} : own' = own \cup things
         \/ drv.pc = "browser" /\ drv'.pc = "end" /\ own' = {}
         \/ drv.pc = "record" /\ own' = own \cup {"artifacts", "page"} /\ drv'.pc \in {"click", "failed"}
         \/ drv.pc = "handover" /\ own' = HandedOver \cup {"host"} /\ drv'.pc = "create"
         \/ drv.pc = "token" /\ own' = own \cup {"token"} /\ drv'.pc = "compare"
         \/ RevokeToken
         \/ drv.pc = "stop" /\ own' = own \ {"host", "hostProfile"} /\ StopHost /\ drv'.pc \in {"judge", "failed"}
         \/ drv.pc = "judge" /\ own' = own \ {"artifacts", "page"} /\ Judge /\ drv'.pc = "shutdown"
         \/ drv.pc = "failed" /\ own' = own \ {"page"} /\ Fail /\ drv'.pc = "shutdown"
         \/ drv.pc = "shutdown" /\ own' = own \ {"browser", "server", "db", "profile"} /\ drv'.pc = "end"
<1>0. ASSUME NEW place \in DriverPlaces, GoTo(place) PROVE drv'.pc = place
  BY <1>0 DEF LiveTyped, DriverTyped, GoTo
<1>1. CASE BootLiveServer
  BY <1>0, <1>1 DEF BootLiveServer, DriverPlaces, NextPlaces
<1>2. CASE BootLiveEnvironment
  <2>1. CASE own' = BootUndone /\ GoTo("end")
    BY <1>0, <1>2, <2>1 DEF BootLiveEnvironment, BootUndone, DriverPlaces
  <2>2. CASE /\ own' = own \cup {"browser"} \cup (IF plan.dedicated THEN {} ELSE {"profile"})
             /\ GoTo("record")
    <3>1. \E things \in SUBSET {"browser", "profile"} : own' = own \cup things
      <4>1. own' = own \cup {"browser"} \/ own' = own \cup {"browser", "profile"}
        BY <2>2
      <4> QED BY <4>1
    <3> QED BY <1>0, <1>2, <2>2, <3>1 DEF BootLiveEnvironment, DriverPlaces
  <2> QED BY <1>2, <2>1, <2>2 DEF BootLiveEnvironment
<1>3. CASE StartHost
  BY <1>0, <1>3 DEF StartHost, DriverPlaces
<1>4. CASE CreateToken
  BY <1>0, <1>4 DEF CreateToken, DriverPlaces, NextPlaces
<1>5. CASE RecordScenario \/ StopHost
  BY <1>0, <1>5 DEF RecordScenario, StopHost, DriverPlaces
<1>6. CASE Judge
  BY <1>0, <1>6 DEF Judge, DriverPlaces, NextPlaces
<1>7. CASE Fail \/ ShutdownLive
  BY <1>0, <1>7 DEF Fail, ShutdownLive, DriverPlaces
<1>8. CASE ClickPrimary \/ WaitForPhase \/ PhaseReached \/ CreateTask \/ PollTask \/ CheckResults \/ CompareSurfaces
  <2>1. own' = own /\ drv.pc \in {"click", "wait", "reached", "create", "poll", "results", "compare"}
    BY <1>8 DEF ClickPrimary, WaitForPhase, PhaseReached, CreateTask, PollTask, CheckResults, CompareSurfaces
  <2>2. drv' = drv \/ drv'.pc \in NextPlaces(drv.pc)
    BY DriverMoves
  <2>3. drv'.pc \in NextPlaces(drv.pc) => drv'.pc \notin {"browser", "shutdown"}
    BY <2>1 DEF NextPlaces
  <2> QED BY <2>1, <2>2, <2>3
<1>9. CASE UNCHANGED <<own, drv>>
  BY <1>9, SMTT(30)
<1> QED BY <1>1, <1>2, <1>3, <1>4, <1>5, <1>6, <1>7, <1>8, <1>9
        DEF LiveNext, Driver, WizardShows, CaseTaskEnds, ReplayEnds,
            ReplaysAgain, WizardFails, JobEnds, liveVars

\* Only the verdict and the catch report.
LEMMA ReportMoves ==
  ASSUME LiveTyped, [LiveNext]_liveVars
  PROVE  \/ report' = report
         \/ drv.pc = "judge" /\ report' = "passed" /\ Judge /\ own' = own \ {"artifacts", "page"}
            /\ drv'.pc = "shutdown"
         \/ drv.pc = "failed" /\ report' = "failed" /\ own' = own \ {"page"} /\ drv'.pc = "shutdown"
<1>0. ASSUME NEW place \in DriverPlaces, GoTo(place) PROVE drv'.pc = place
  BY <1>0 DEF LiveTyped, DriverTyped, GoTo
<1>1. CASE Judge
  BY <1>0, <1>1 DEF Judge, DriverPlaces
<1>2. CASE Fail
  BY <1>0, <1>2 DEF Fail, DriverPlaces
<1> QED BY <1>1, <1>2
        DEF LiveNext, Driver, BootLiveServer, BootLiveEnvironment, RecordScenario, ClickPrimary,
            WaitForPhase, PhaseReached, StartHost, CreateTask, PollTask, CheckResults, CreateToken,
            CompareSurfaces, RevokeToken, StopHost, ShutdownLive, WizardShows, CaseTaskEnds, ReplayEnds,
            ReplaysAgain, WizardFails, JobEnds, liveVars

\* What is open stays what the place allows.
LEMMA OwnKeeps ==
  ASSUME LiveTyped, PlaceSound, KeptSound, KeptSound', OwnSound, [LiveNext]_liveVars
  PROVE  OwnSound'
<1>0. DriverTyped /\ WorkTyped /\ own \subseteq LiveThings /\ plan' = plan
  BY DriverKeepsType DEF LiveTyped
<1>1. Len(work.kept) \in Nat /\ Len(Cases) \in Nat /\ drv.case \in 1..Len(Cases)
  BY <1>0, CaseCount DEF WorkTyped, DriverTyped
<1>2. ~RevokeToken => work'.kept = work.kept
  BY <1>0, WorkWrites
<1>3. CASE RevokeToken
  <2>1. /\ drv.pc = "revoke" /\ drv'.pc \in {"create", "stop"} /\ report' = report
        /\ own' = own \/ own' = own \ {"token"} 
        /\ report = "none"
    BY <1>0, <1>3, RevokeWrites DEF RevokeToken, PlaceSound
  <2>2. "token" \in own' => drv'.pc = "stop" /\ Len(work'.kept) < Len(Cases)
    <3>1. "token" \in own' => drv'.pc = "stop" /\ work'.kept = work.kept
      BY <1>0, <1>3, RevokeWrites
    <3>2. Len(work.kept) < Len(Cases)
      BY <1>1, <2>1 DEF KeptSound
    <3> QED BY <3>1, <3>2
  <2> QED BY <1>0, <2>1, <2>2 DEF OwnSound
<1>4. CASE ~RevokeToken
  <2>1. work'.kept = work.kept
    BY <1>2, <1>4
  <2>2. CASE own' = own /\ drv' = drv
    <3>1. report' = report
      BY <2>2, ReportMoves
    <3> QED BY <1>0, <2>1, <2>2, <3>1 DEF OwnSound
  <2>3. CASE /\ own' = own /\ drv'.pc \in NextPlaces(drv.pc) /\ drv'.pc \notin {"browser", "shutdown"}
             /\ drv.pc \notin {"browser", "record", "handover", "stop", "failed", "shutdown", "revoke"}
    <3>1. report' = report
      BY <2>3, ReportMoves
    <3>2. "token" \in own => drv.pc = "compare" \/ drv.pc = "end"
      BY <2>3 DEF OwnSound
    <3>3. drv.pc # "boot" => drv'.pc # "boot"
      BY <2>3 DEF NextPlaces
    <3> QED BY <1>0, <2>1, <2>3, <3>1, <3>2, <3>3 DEF OwnSound, NextPlaces
  <2>4. CASE drv.pc = "boot" /\ own' = own \cup {"server", "db"} /\ drv'.pc = "browser"
    BY <1>0, <2>4 DEF OwnSound
  <2>5. CASE drv.pc = "browser" /\ drv'.pc = "record"
             /\ \E things \in SUBSET {"browser", "profile"} : own' = own \cup things
    BY <1>0, <2>5 DEF OwnSound
  <2>6. CASE drv.pc = "browser" /\ drv'.pc = "end" /\ own' = {}
    BY <1>0, <2>6 DEF OwnSound
  <2>7. CASE drv.pc = "record" /\ own' = own \cup {"artifacts", "page"} /\ drv'.pc \in {"click", "failed"}
    BY <1>0, <2>7 DEF OwnSound
  <2>8. CASE drv.pc = "handover" /\ own' = HandedOver \cup {"host"} /\ drv'.pc = "create"
    BY <1>0, <2>8 DEF OwnSound, HandedOver
  <2>9. CASE drv.pc = "token" /\ own' = own \cup {"token"} /\ drv'.pc = "compare"
    BY <1>0, <2>9 DEF OwnSound
  <2>10. CASE drv.pc = "stop" /\ own' = own \ {"host", "hostProfile"} /\ StopHost /\ drv'.pc \in {"judge", "failed"}
    <3>1. drv'.pc = "judge" => Len(work.kept) = Len(Cases)
      BY <2>1 DEF KeptSound
    <3>2. report' = report
      BY <2>10 DEF StopHost
    <3> QED BY <1>0, <1>1, <2>1, <2>10, <3>1, <3>2 DEF OwnSound
  <2>11. CASE drv.pc = "judge" /\ own' = own \ {"artifacts", "page"} /\ Judge /\ drv'.pc = "shutdown"
    BY <1>0, <2>11 DEF OwnSound
  <2>12. CASE drv.pc = "failed" /\ own' = own \ {"page"} /\ Fail /\ drv'.pc = "shutdown"
    <3>1. report' = "failed"
      BY <2>12 DEF Fail
    <3> QED BY <1>0, <2>1, <2>12, <3>1 DEF OwnSound
  <2>13. CASE drv.pc = "shutdown" /\ own' = own \ {"browser", "server", "db", "profile"} /\ drv'.pc = "end"
    <3>1. report' = report
      BY <2>13, ReportMoves
    <3> QED BY <1>0, <2>1, <2>13, <3>1 DEF OwnSound
  <2> QED BY <1>4, <2>2, <2>3, <2>4, <2>5, <2>6, <2>7, <2>8, <2>9, <2>10, <2>11, <2>12, <2>13, OwnMoves
<1> QED BY <1>3, <1>4

\* What is open at the end is what was handed to it.
LEMMA NothingKeeps ==
  ASSUME LiveTyped, PlaceSound, KeptSound, OwnSound, NothingLeftBehind, [LiveNext]_liveVars
  PROVE  NothingLeftBehind'
<1>0. DriverTyped /\ own \subseteq LiveThings /\ report \in {"none", "passed", "failed"}
  BY DEF LiveTyped
<1>1. CASE own' = own /\ drv' = drv
  <2>1. report' = report
    BY <1>1, ReportMoves
  <2> QED BY <1>1, <2>1 DEF NothingLeftBehind
<1>2. CASE /\ own' = own /\ drv'.pc \in NextPlaces(drv.pc) /\ drv'.pc \notin {"browser", "shutdown"}
           /\ drv.pc \notin {"browser", "record", "handover", "stop", "failed", "shutdown", "revoke"}
  <2>1. drv'.pc = "end" => drv.pc \in {"boot", "end"} /\ report' = report
    BY <1>0, <1>2, ReportMoves DEF NextPlaces, DriverTyped, DriverPlaces
  <2> QED BY <1>2, <2>1 DEF NothingLeftBehind, OwnSound
<1>3. CASE drv.pc = "browser" /\ drv'.pc = "end" /\ own' = {}
  BY <1>3 DEF NothingLeftBehind
<1>4. CASE drv.pc = "shutdown" /\ own' = own \ {"browser", "server", "db", "profile"} /\ drv'.pc = "end"
  <2>1. report' = report /\ report \in {"passed", "failed"}
    BY <1>0, <1>4, ReportMoves DEF PlaceSound
  <2>2. own \cap {"host", "hostProfile", "page"} = {} /\ (report = "passed" => own \cap {"artifacts", "token"} = {})
    BY <1>4 DEF OwnSound
  <2>3. own' \subseteq {"artifacts", "token"}
    BY <1>0, <1>4, <2>2 DEF LiveThings
  <2> QED BY <1>4, <2>1, <2>2, <2>3 DEF NothingLeftBehind
<1>5. CASE RevokeToken
  <2>1. drv'.pc # "end"
    BY <1>0, <1>5, RevokeWrites DEF LiveTyped
  <2> QED BY <2>1 DEF NothingLeftBehind
<1> QED BY <1>1, <1>2, <1>3, <1>4, <1>5, OwnMoves DEF NothingLeftBehind

\* A pass is what the tracker saw, and that was the server's.
LEMMA PassedKeeps ==
  ASSUME LiveTyped, FlowSound, PlaceSound, SeenSound, KeptSound, OwnSound, PassedIsEarned,
         [LiveNext]_liveVars
  PROVE  PassedIsEarned'
<1>0. DriverTyped /\ WorkTyped /\ FlowTyped /\ SeenTyped /\ PlanTyped /\ plan' = plan
  BY DriverKeepsType DEF LiveTyped
<1> SUFFICES ASSUME report' = "passed" PROVE PassedIsEarned'
  BY DEF PassedIsEarned
<1>1. CASE report = "passed"
  <2>1. drv.pc \in {"shutdown", "end"}
    BY <1>1 DEF PlaceSound
  <2>2. "host" \notin own /\ (\A j \in JobNames : wf.job[j].st # "running") /\ wf.state = "approved"
    BY <1>1, <2>1, SMTT(30) DEF OwnSound, PassedIsEarned
  <2>3. wf' = wf /\ work' = work
    BY <2>1, <2>2
       DEF LiveNext, Driver, BootLiveServer, BootLiveEnvironment, RecordScenario, ClickPrimary,
           WaitForPhase, PhaseReached, StartHost, CreateTask, PollTask, CheckResults, CreateToken,
           CompareSurfaces, RevokeToken, StopHost, Judge, Fail, ShutdownLive, WizardShows, CaseTaskEnds,
           ReplayEnds, ReplaysAgain, WizardFails, JobEnds, liveVars
  <2>4. "token" \notin own'
    <3>1. ~RevokeToken
      BY <2>1 DEF RevokeToken
    <3> QED BY <1>1, <2>1, <3>1, OwnMoves DEF PassedIsEarned
  <2>5. CostOf(wf)' = CostOf(wf)
    BY <2>3 DEF CostOf, Started
  <2> QED BY <1>0, <1>1, <2>3, <2>4, <2>5 DEF PassedIsEarned
<1>2. CASE report # "passed"
  <2>1. drv.pc = "judge" /\ Judge /\ own' = own \ {"artifacts", "page"}
    BY <1>2, ReportMoves
  <2>2. CostOf(seen) <= Budget /\ Strict(seen) /\ ~wf.errors
    <3>1. CASE ~(CostOf(seen) <= Budget /\ Strict(seen) /\ ~wf.errors)
      BY <1>2, <2>1, <3>1 DEF Judge
    <3> QED BY <3>1
  <2>3. wf' = wf /\ work' = work
    BY <2>1 DEF Judge
  <2>4. wf.state = "approved" /\ wf.repairs = 0 /\ wf.replays = 1 /\ seen.job = wf.job
    BY <2>1, <2>2 DEF PlaceSound, Settled, SeenSound, Strict
  <2>5. /\ \A j \in JobNames : wf.job[j].st \in {"none", "completed"}
        /\ \A j \in JobNames : NeedsProvider(plan.mode, j) => wf.job[j].quality = "first"
    <3>1. \A j \in JobNames : wf.job[j].st # "none" => j \in Started(seen)
      BY <2>4 DEF Started
    <3>2. \A j \in JobNames : wf.job[j].st = "none" => wf.job[j].quality = "first"
      BY DEF FlowSound, NoJob
    <3> QED BY <2>2, <2>4, <3>1, <3>2 DEF Strict
  <2>6. /\ wf.job["candidates"].quality = "first" /\ wf.job["generate"].quality = "first"
        /\ plan.mode = "intent" => wf.job["normalize"].quality = "first"
    BY <2>5 DEF NeedsProvider, JobNames
  <2>7. CostOf(wf) <= Budget
    BY <2>2, <2>4 DEF CostOf, Started
  <2>8. CostOf(wf)' <= Budget
    BY <2>3, <2>7 DEF CostOf, Started
  <2>9. wf.spec = "valid" /\ "token" \notin own'
    BY <2>1, <2>4 DEF FlowSound, OwnSound
  <2>10. work.kept = [c \in DOMAIN Cases |-> <<Cases[c], IF Cases[c] = "done" THEN 1 ELSE 0>>]
    <3>1. Len(work.kept) = Len(Cases) /\ \A c \in 1..Len(work.kept) : work.kept[c] = CaseDone(c)
      BY <2>1 DEF KeptSound
    <3>2. DOMAIN Cases = 1..Len(Cases) /\ DOMAIN work.kept = 1..Len(work.kept)
      BY <1>0, LiveAssumption DEF WorkTyped
    <3>3. work.kept = [c \in DOMAIN work.kept |-> work.kept[c]]
      BY <1>0 DEF WorkTyped
    <3> QED BY <3>1, <3>2, <3>3 DEF CaseDone
  <2> QED BY <1>0, <2>2, <2>3, <2>4, <2>5, <2>6, <2>8, <2>9, <2>10 DEF PassedIsEarned
<1> QED BY <1>1, <1>2

\* Every step keeps the invariant.
LEMMA LiveKeeps == LiveInv /\ [LiveNext]_liveVars => LiveInv'
<1> SUFFICES ASSUME LiveInv, [LiveNext]_liveVars PROVE LiveInv'
  OBVIOUS
<1>1. /\ LiveTyped /\ FlowSound /\ PlaceSound /\ SeenSound /\ KeptSound /\ OwnSound
      /\ PassedIsEarned /\ NothingLeftBehind
  BY DEF LiveInv
<1>2. LiveTyped'
  BY <1>1, DriverKeepsType, FlowKeepsType, SeenKeepsType, WorkKeepsType DEF LiveTyped
<1>3. FlowSound' /\ PlaceSound' /\ SeenSound' /\ KeptSound'
  BY <1>1, FlowKeepsSound, PlaceKeeps, SeenKeeps, KeptKeeps
<1>4. OwnSound' /\ PassedIsEarned' /\ NothingLeftBehind'
  BY <1>1, <1>3, OwnKeeps, PassedKeeps, NothingKeeps
<1> QED BY <1>2, <1>3, <1>4 DEF LiveInv

\* The invariant says all that the run is to keep.
LEMMA LiveInvHonest == LiveInv => RunIsHonest
<1> SUFFICES ASSUME LiveInv PROVE RunIsHonest
  OBVIOUS
<1>1. LiveTypeOK
  <2>1. drv.step \in 1..5
    <3>1. LiveTyped
      BY DEF LiveInv
    <3>2. Len(Path) \in 4..5 /\ drv.step \in 1..Len(Path)
      BY <3>1, PhaseOrder
    <3>3. \A len \in 4..5 : \A k \in 1..len : k \in 1..5
      OBVIOUS
    <3> QED BY <3>2, <3>3
  <2>2. \A j \in JobNames : wf.job[j].st \in JobStates /\ seen.job[j].st \in JobStates
    BY DEF LiveInv, LiveTyped, FlowTyped, SeenTyped, JobType
  <2>3. plan \in [mode : {"intent", "candidates", "structured"}, dedicated : BOOLEAN]
    BY DEF LiveInv, LiveTyped, PlanTyped
  <2>4. /\ drv.pc \in DriverPlaces /\ drv.case \in 1..Len(Cases)
        /\ drv.quiet \in 0..MaxQuiet /\ drv.errs \in 0..1
        /\ wf.replays \in 0..2 /\ wf.repairs \in 0..1
        /\ own \subseteq LiveThings /\ report \in {"none", "passed", "failed"}
    BY DEF LiveInv, LiveTyped, DriverTyped, FlowTyped
  <2>5. Len(work.kept) <= Len(Cases)
    BY DEF LiveInv, KeptSound
  <2> QED BY <2>1, <2>2, <2>3, <2>4, <2>5 DEF LiveTypeOK, DriverPlaces, LiveThings
<1>2. OneProfileOwner
  BY DEF LiveInv, OwnSound, OneProfileOwner
<1> QED BY <1>1, <1>2 DEF LiveInv, RunIsHonest

\* Every run the driver reports as passed was one first-pass path, whatever polls were lost and
\* whatever the server did; every way out gives back what was opened, and the worker host and
\* the recording browser never have the dedicated profile open together.
THEOREM LiveAlwaysHonest == LiveSpec => []RunIsHonest
<1>1. LiveInit => LiveInv
  BY LiveStarts
<1>2. LiveInv /\ [LiveNext]_liveVars => LiveInv'
  BY LiveKeeps
<1>3. LiveInv => RunIsHonest
  BY LiveInvHonest
<1> QED BY <1>1, <1>2, <1>3, PTL DEF LiveSpec

-----------------------------------------------------------------------------
(* The idempotency middleware.                                              *)

\* What is stored under a key is the response of a request with that key.
CacheIsHandled ==
  \A k \in Keys : cache[k] # None => cache[k] \in handled /\ KeyOf[cache[k]] = k

\* A request that has taken effect is at its last step or over, and once over its
\* key stays occupied unless a response was excused; a response is only stored
\* after the effect.
HandledOccupiesKey ==
  /\ \A r \in Requests : pc[r] = "put" => r \in handled
  /\ \A r \in handled :
       /\ pc[r] \in {"put", "done"}
       /\ pc[r] = "done" /\ KeyOf[r] \notin excused => Live(KeyOf[r])

\* A request whose handler is about to run is the first of its key and body.
HandlingIsFirst ==
  \A q \in Requests, r \in handled :
    pc[q] = "handle" /\ MutexOf(q) = MutexOf(r) => KeyOf[r] \in excused

\* HandledOnce is not inductive: that a miss finds no earlier effect needs the
\* occupied key, and that no effect comes between the miss and the handler needs
\* the mutex.
IInv ==
  /\ TypeOK
  /\ MutexHasHolder
  /\ CacheIsHandled
  /\ AnswersItsOwnRequest
  /\ HandledOccupiesKey
  /\ HandlingIsFirst
  /\ HandledOnce

\* With no request yet the invariant holds.
LEMMA InitIInv == Init => IInv
  BY RequestsAssumption
  DEF Init, IInv, TypeOK, MutexHasHolder, CacheIsHandled, AnswersItsOwnRequest,
      HandledOccupiesKey, HandlingIsFirst, HandledOnce, Steps, Locked

\* The name of a mutex is a key and a body hash.
LEMMA MutexType ==
  ASSUME NEW r \in Requests
  PROVE  MutexOf(r) \in Keys \X Bodies
  BY RequestsAssumption DEF MutexOf

\* Two requests share a mutex exactly when they have the same key and body.
LEMMA MutexParts ==
  ASSUME NEW r \in Requests, NEW q \in Requests
  PROVE  MutexOf(r) = MutexOf(q) <=> KeyOf[r] = KeyOf[q] /\ BodyOf[r] = BodyOf[q]
  BY DEF MutexOf

\* Every step keeps the types and the mutexes.
LEMMA NextMutex ==
  ASSUME TypeOK, MutexHasHolder, [Next]_vars
  PROVE  TypeOK' /\ MutexHasHolder'
<1> USE DEF TypeOK, MutexHasHolder, Steps, Locked
<1>1. ASSUME NEW r \in Requests, Arrive(r) PROVE TypeOK' /\ MutexHasHolder'
  BY <1>1 DEF Arrive
<1>2. ASSUME NEW r \in Requests, Lock(r) PROVE TypeOK' /\ MutexHasHolder'
  BY <1>2, MutexType DEF Lock
<1>3. ASSUME NEW r \in Requests, pc[r] \in Locked, Return(r)
      PROVE /\ pc' \in [Requests -> Steps]
            /\ mutexes' \in SUBSET (Keys \X Bodies)
            /\ MutexHasHolder'
  BY <1>3 DEF Return
<1>4. ASSUME NEW r \in Requests, LookupRefused(r) PROVE TypeOK' /\ MutexHasHolder'
  BY <1>3, <1>4 DEF LookupRefused
<1>5. ASSUME NEW r \in Requests, Replay(r) PROVE TypeOK' /\ MutexHasHolder'
  BY <1>3, <1>5, RequestsAssumption DEF Replay
<1>6. ASSUME NEW r \in Requests, Miss(r) PROVE TypeOK' /\ MutexHasHolder'
  BY <1>6 DEF Miss
<1>7. ASSUME NEW r \in Requests, HandlerSucceeds(r) PROVE TypeOK' /\ MutexHasHolder'
  BY <1>7 DEF HandlerSucceeds
<1>8. ASSUME NEW r \in Requests, HandlerFails(r) PROVE TypeOK' /\ MutexHasHolder'
  BY <1>3, <1>8 DEF HandlerFails
<1>9. ASSUME NEW r \in Requests, PutIdempotency(r) PROVE TypeOK' /\ MutexHasHolder'
  BY <1>3, <1>9, RequestsAssumption DEF PutIdempotency
<1>10. ASSUME NEW r \in Requests, RequestTimesOut(r) PROVE TypeOK' /\ MutexHasHolder'
  BY <1>10 DEF RequestTimesOut
<1>11. ASSUME NEW k \in Keys, EntryExpires(k) PROVE TypeOK' /\ MutexHasHolder'
  BY <1>11 DEF EntryExpires
<1>12. CASE EvictExpired
  BY <1>12 DEF EvictExpired
<1>13. CASE ServerRestart
  BY <1>13, RequestsAssumption DEF ServerRestart
<1>14. CASE UNCHANGED vars
  BY <1>14 DEF vars
<1> QED
  BY <1>1, <1>2, <1>4, <1>5, <1>6, <1>7, <1>8, <1>9, <1>10, <1>11, <1>12, <1>13, <1>14
  DEF Next, Serve

\* The actions that touch neither effects, answers, cache nor excuses.
Passive(r) ==
  Arrive(r) \/ Lock(r) \/ LookupRefused(r) \/ HandlerFails(r) \/ RequestTimesOut(r)

\* Every step keeps what the cache and the answers hold.
LEMMA NextAnswers ==
  ASSUME IInv, [Next]_vars
  PROVE  CacheIsHandled' /\ AnswersItsOwnRequest'
<1> USE RequestsAssumption DEF IInv, TypeOK, CacheIsHandled, AnswersItsOwnRequest
<1>1. ASSUME NEW r \in Requests, Passive(r) \/ Miss(r)
      PROVE  CacheIsHandled' /\ AnswersItsOwnRequest'
  <2>1. UNCHANGED <<answer, cache, handled>>
    BY <1>1 DEF Passive, Arrive, Lock, Miss, LookupRefused, HandlerFails, RequestTimesOut
  <2> QED BY <2>1
<1>2. ASSUME NEW r \in Requests, Replay(r) PROVE CacheIsHandled' /\ AnswersItsOwnRequest'
  <2>1. cache[KeyOf[r]] \in handled /\ MutexOf(cache[KeyOf[r]]) = MutexOf(r)
    BY <1>2 DEF Replay, Live, MutexOf
  <2> QED BY <1>2, <2>1 DEF Replay
<1>3. ASSUME NEW r \in Requests, HandlerSucceeds(r)
      PROVE  CacheIsHandled' /\ AnswersItsOwnRequest'
  BY <1>3 DEF HandlerSucceeds
<1>4. ASSUME NEW r \in Requests, PutIdempotency(r)
      PROVE  CacheIsHandled' /\ AnswersItsOwnRequest'
  BY <1>4 DEF PutIdempotency, HandledOccupiesKey
<1>5. ASSUME NEW k \in Keys, EntryExpires(k) PROVE CacheIsHandled' /\ AnswersItsOwnRequest'
  BY <1>5 DEF EntryExpires
<1>6. CASE EvictExpired
  BY <1>6 DEF EvictExpired
<1>7. CASE ServerRestart
  BY <1>7 DEF ServerRestart
<1>8. CASE UNCHANGED vars
  BY <1>8 DEF vars
<1> QED BY <1>1, <1>2, <1>3, <1>4, <1>5, <1>6, <1>7, <1>8 DEF Next, Serve, Passive

\* The three facts that make an effect unique.
EffectFacts == HandledOccupiesKey /\ HandlingIsFirst /\ HandledOnce

\* Every step keeps the three facts that make an effect unique.
LEMMA NextHandled ==
  ASSUME IInv, [Next]_vars
  PROVE  EffectFacts'
<1> USE RequestsAssumption
    DEF IInv, TypeOK, EffectFacts, HandledOccupiesKey, HandlingIsFirst, HandledOnce, Live, Steps
<1>1. ASSUME NEW r \in Requests, Passive(r) \/ Replay(r) PROVE EffectFacts'
  <2>1. \/ UNCHANGED pc
        \/ /\ pc[r] \notin {"put", "done"}
           /\ \E p \in {"wait", "lookup", "done"} : pc' = [pc EXCEPT ![r] = p]
    BY <1>1 DEF Passive, Arrive, Lock, LookupRefused, Replay, HandlerFails, RequestTimesOut, Return
  <2>2. UNCHANGED <<cache, expired, handled, excused>>
    BY <1>1 DEF Passive, Arrive, Lock, LookupRefused, Replay, HandlerFails, RequestTimesOut
  <2> QED BY <2>1, <2>2 DEF MutexOf
<1>2. ASSUME NEW r \in Requests, Miss(r) PROVE EffectFacts'
  <2>1. \A q \in handled : MutexOf(q) = MutexOf(r) => KeyOf[q] \in excused
    <3> SUFFICES ASSUME NEW q \in handled, MutexOf(q) = MutexOf(r), KeyOf[q] \notin excused
                 PROVE  FALSE
      OBVIOUS
    <3>1. KeyOf[q] = KeyOf[r]
      BY MutexParts
    <3>2. pc[q] = "put"
      BY <1>2, <3>1 DEF Miss
    <3>3. q = r
      BY <1>2, <3>2 DEF Miss, MutexHasHolder, Locked
    <3> QED BY <1>2, <3>2, <3>3 DEF Miss
  <2> QED BY <1>2, <2>1 DEF Miss, MutexOf
<1>3. ASSUME NEW r \in Requests, HandlerSucceeds(r) PROVE EffectFacts'
  <2>1. \A q \in Requests : pc[q] = "handle" /\ MutexOf(q) = MutexOf(r) => q = r
    BY <1>3 DEF HandlerSucceeds, MutexHasHolder, Locked
  <2>2. HandledOccupiesKey'
    BY <1>3 DEF HandlerSucceeds
  <2>3. HandlingIsFirst'
    BY <1>3, <2>1 DEF HandlerSucceeds, MutexOf
  <2>4. HandledOnce'
    BY <1>3, MutexParts DEF HandlerSucceeds
  <2> QED BY <2>2, <2>3, <2>4
<1>4. ASSUME NEW r \in Requests, PutIdempotency(r) PROVE EffectFacts'
  <2>1. CASE r \in cancelled
    BY <1>4, <2>1 DEF PutIdempotency, Return, MutexOf
  <2>2. CASE r \notin cancelled
    BY <1>4, <2>2 DEF PutIdempotency, Return, MutexOf
  <2> QED BY <2>1, <2>2
<1>5. ASSUME NEW k \in Keys, EntryExpires(k) PROVE EffectFacts'
  BY <1>5 DEF EntryExpires, MutexOf
<1>6. CASE EvictExpired
  BY <1>6 DEF EvictExpired, MutexOf
<1>7. CASE ServerRestart
  BY <1>7 DEF ServerRestart, MutexOf
<1>8. CASE UNCHANGED vars
  BY <1>8 DEF vars, MutexOf
<1> HIDE DEF IInv, TypeOK, HandledOccupiesKey, HandlingIsFirst, HandledOnce, EffectFacts
<1>9. CASE \E r \in Requests : Arrive(r) \/ Serve(r) \/ RequestTimesOut(r)
  <2>1. PICK r \in Requests : Arrive(r) \/ Serve(r) \/ RequestTimesOut(r)
    BY <1>9
  <2>2. Passive(r) \/ Replay(r) \/ Miss(r) \/ HandlerSucceeds(r) \/ PutIdempotency(r)
    BY <2>1 DEF Serve, Passive
  <2> QED BY <2>2, <1>1, <1>2, <1>3, <1>4
<1> QED BY <1>5, <1>6, <1>7, <1>8, <1>9 DEF Next

\* The mutexes, the cache, the answers and the effects stay as the middleware needs
\* them, for any number of concurrent requests, timeouts, expiries and restarts.
THEOREM MiddlewareInvariant == Spec => []IInv
<1>1. Init => IInv
  BY InitIInv
<1>2. IInv /\ [Next]_vars => IInv'
  BY NextMutex, NextAnswers, NextHandled DEF IInv, EffectFacts
<1> QED BY <1>1, <1>2, PTL DEF Spec

\* IdempotencyMiddleware and PutIdempotency keep the types of what they store.
THEOREM TypeCorrect == Spec => []TypeOK
<1>1. IInv => TypeOK
  BY DEF IInv
<1> QED BY <1>1, MiddlewareInvariant, PTL

\* The handler takes effect at most once per key and body, apart from responses that
\* expired or were lost before they were stored.
THEOREM EffectIsUnique == Spec => []HandledOnce
<1>1. IInv => HandledOnce
  BY DEF IInv
<1> QED BY <1>1, MiddlewareInvariant, PTL

\* A replay answers a request with the response of its own key and body.
THEOREM ReplayIsFaithful == Spec => []AnswersItsOwnRequest
<1>1. IInv => AnswersItsOwnRequest
  BY DEF IInv
<1> QED BY <1>1, MiddlewareInvariant, PTL

\* The mutex of a key and body excludes a second request and is never leaked.
THEOREM MutexIsSound == Spec => []MutexHasHolder
<1>1. IInv => MutexHasHolder
  BY DEF IInv
<1> QED BY <1>1, MiddlewareInvariant, PTL

\* Repeating a request is safe: its handler takes effect once, its answer is that of
\* its own key and body, and no mutex is left behind to block the next repeat.
THEOREM RepeatsAlwaysSafe == Spec => []RepeatsAreSafe
<1>1. TypeOK /\ HandledOnce /\ AnswersItsOwnRequest /\ MutexHasHolder => RepeatsAreSafe
  BY DEF RepeatsAreSafe
<1> QED BY <1>1, TypeCorrect, EffectIsUnique, ReplayIsFaithful, MutexIsSound, PTL

-----------------------------------------------------------------------------
(* The circuit breaker.                                                     *)

\* The three invariants together are inductive.
BreakerIInv == BreakerTypeOK /\ HalfOpenHasProbe /\ ClosedBelowThreshold

\* A new circuit is closed and empty.
LEMMA BreakerInitIInv == BreakerInit => BreakerIInv
<1> SUFFICES ASSUME BreakerInit PROVE BreakerIInv
  OBVIOUS
<1>1. waited \in BOOLEAN /\ request \in [BreakerRequests -> {"idle", "serving", "probe"}]
  BY Zenon DEF BreakerInit
<1>2. failures \in 0..Threshold /\ stale \in 0..failures /\ ClosedBelowThreshold
  BY ThresholdAssumption DEF BreakerInit, ClosedBelowThreshold
<1>3. state \in {"closed", "open", "half_open"} /\ HalfOpenHasProbe
  BY DEF BreakerInit, HalfOpenHasProbe
<1> QED BY <1>1, <1>2, <1>3 DEF BreakerIInv, BreakerTypeOK

\* Every step keeps the three invariants; record is split on the circuit it finds.
LEMMA BreakerNextIInv == BreakerIInv /\ [BreakerNext]_breakerVars => BreakerIInv'
<1> SUFFICES ASSUME BreakerIInv, [BreakerNext]_breakerVars PROVE BreakerIInv'
  OBVIOUS
<1> USE ThresholdAssumption DEF BreakerIInv, BreakerTypeOK, HalfOpenHasProbe, ClosedBelowThreshold
<1>1. CASE FailureGrowsStale
  BY <1>1 DEF FailureGrowsStale
<1>2. CASE OpenDurationPasses
  BY <1>2 DEF OpenDurationPasses
<1>3. ASSUME NEW r \in BreakerRequests, AllowClosed(r) PROVE BreakerIInv'
  BY <1>3 DEF AllowClosed, open
<1>4. ASSUME NEW r \in BreakerRequests, AllowProbe(r) PROVE BreakerIInv'
  BY <1>4 DEF AllowProbe
<1>5. ASSUME NEW r \in BreakerRequests, NEW failure \in BOOLEAN, record(r, failure) PROVE BreakerIInv'
  <2>1. CASE state = "closed" /\ failure /\ RecordFailureClosed
    <3> DEFINE kept == failures + 1 - stale
    <3>1. failures' = kept /\ stale' = 0 /\ kept \in 1..Threshold
      BY <2>1 DEF RecordFailureClosed
    <3>2. request' \in [BreakerRequests -> {"idle", "serving", "probe"}]
      BY <1>5 DEF record
    <3>3. CASE kept >= Threshold
      <4>1. state' = "open" /\ waited' = FALSE
        BY <2>1, <3>3 DEF RecordFailureClosed, open
      <4>2. waited' \in BOOLEAN
        BY <4>1, Zenon
      <4>3. failures' \in 0..Threshold /\ stale' \in 0..failures'
        BY <3>1
      <4> QED BY <3>2, <4>1, <4>2, <4>3
    <3>4. CASE ~(kept >= Threshold)
      <4>1. state' = "closed" /\ waited' = waited
        BY <2>1, <3>4 DEF RecordFailureClosed
      <4> QED BY <3>1, <3>2, <3>4, <4>1
    <3> QED BY <3>3, <3>4
  <2>2. CASE state = "half_open" /\ RecordHalfOpen(failure)
    <3>1. CASE failure
      BY <1>5, <2>2, <3>1 DEF record, RecordHalfOpen, open
    <3>2. CASE ~failure
      BY <1>5, <2>2, <3>2 DEF record, RecordHalfOpen
    <3> QED BY <3>1, <3>2
  <2>3. CASE state # "half_open" /\ UNCHANGED <<state, failures, stale, waited>>
    BY <1>5, <2>3 DEF record
  <2> QED BY <1>5, <2>1, <2>2, <2>3 DEF record
<1>6. CASE UNCHANGED breakerVars
  BY <1>6 DEF breakerVars
<1> QED BY <1>1, <1>2, <1>3, <1>4, <1>5, <1>6 DEF BreakerNext, Refuse

\* The breaker keeps its types, is never half-open without a probe under way, and is
\* never closed with as many failures as open it.
THEOREM BreakerInvariant == BreakerSpec => []BreakerIInv
<1>1. BreakerInit => BreakerIInv
  BY BreakerInitIInv
<1>2. BreakerIInv /\ [BreakerNext]_breakerVars => BreakerIInv'
  BY BreakerNextIInv
<1> QED BY <1>1, <1>2, PTL DEF BreakerSpec

\* The endpoint's state, counters and requests keep their types; in particular the
\* slice of failures never holds more than the threshold.
THEOREM BreakerTypeCorrect == BreakerSpec => []BreakerTypeOK
<1>1. BreakerIInv => BreakerTypeOK
  BY DEF BreakerIInv
<1> QED BY <1>1, BreakerInvariant, PTL

\* A half-open circuit has its probe under way: allow and record never leave the
\* endpoint refusing every request with nothing to end it.
THEOREM HalfOpenIsNeverStuck == BreakerSpec => []HalfOpenHasProbe
<1>1. BreakerIInv => HalfOpenHasProbe
  BY DEF BreakerIInv
<1> QED BY <1>1, BreakerInvariant, PTL

\* A closed circuit holds fewer failures than the threshold.
THEOREM ClosedIsBelowThreshold == BreakerSpec => []ClosedBelowThreshold
<1>1. BreakerIInv => ClosedBelowThreshold
  BY DEF BreakerIInv
<1> QED BY <1>1, BreakerInvariant, PTL

\* The breaker's guarantees together: however many requests allow and record handle
\* at once, an endpoint always has a way back to serving.
THEOREM BreakerAlwaysSound == BreakerSpec => []BreakerIsSound
<1>1. BreakerTypeOK /\ HalfOpenHasProbe /\ ClosedBelowThreshold => BreakerIsSound
  BY DEF BreakerIsSound
<1> QED BY <1>1, BreakerTypeCorrect, HalfOpenIsNeverStuck, ClosedIsBelowThreshold, PTL
=============================================================================
