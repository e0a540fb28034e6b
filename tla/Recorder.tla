------------------------------ MODULE Recorder ------------------------------
(***************************************************************************)
(* The life of a recording in the browser extension: the service worker    *)
(* (extension/src/background.ts) keeps one session and the stored copy,    *)
(* the content script of the recorded tab (extension/src/content.ts) keeps *)
(* the live copy.  Between them go checkpoints, resume requests, status    *)
(* messages, the drain of a stop and the handoff to another tab.           *)
(*                                                                         *)
(* Handlers that change the session run one at a time on a promise chain   *)
(* (slot "chain"); the stop request of the page's HUD and the readiness    *)
(* request run beside it (slot "side").  A handler is cut at its awaits.   *)
(* The service worker may die between any two steps: its memory and all    *)
(* handlers are gone, the four stores are not.  A recording is reduced to  *)
(* the session it belongs to, its events and how it ended.                 *)
(***************************************************************************)
EXTENDS Integers, Sequences, FiniteSets, SequencesExt

CONSTANTS
  Tabs,        \* tabs of the recording window
  FirstTab,    \* the tab open at first
  Origins,     \* origins a tab can be on
  Home,        \* the origin of a new tab
  PageBudget,  \* events that fit in sessionStorage
  Plans        \* bounds: how often each outside event may happen

PlanKeys == {"start", "stop", "hud", "ready", "act", "nav", "tab", "close", "crash", "slow", "limit"}

ASSUME RecorderAssumption ==
  /\ FirstTab \in Tabs /\ Home \in Origins /\ PageBudget \in Nat
  /\ Plans \subseteq [PlanKeys -> Nat]

VARIABLES
  mem,      \* activeRecording of the service worker
  sess,     \* its copy in chrome.storage.session
  store,    \* recordingStore, in IndexedDB
  chk,      \* checkpoint of a tab in chrome.storage.local
  page,     \* content script of the document in a tab
  sstore,   \* sessionStorage: per tab and origin
  queue,    \* messages waiting for stateMutationChain
  jobs,     \* the handler running on the chain, and the one beside it
  active,   \* the active tab
  loading,  \* enrolled tabs whose load the service worker waits for
  left,     \* how many outside events are left of each kind
  events,   \* events so far; an event's number is its timestamp
  starts,   \* sessions so far
  made,     \* history: events recorded for a session
  ended,    \* history: sessions a page has finalised
  mishaps   \* history: what went wrong that some properties do not cover

vars == <<mem, sess, store, chk, page, sstore, queue, jobs, active, loading, left, events,
          starts, made, ended, mishaps>>

NoSession == [tab |-> FirstTab, sid |-> 0, tabs |-> {}]
NoRec == [sid |-> 0, ev |-> <<>>, end |-> "none"]
EmptyRec == [NoRec EXCEPT !.end = "empty"]
NoJob == [kind |-> "none", tab |-> FirstTab, doc |-> 0, step |-> "none", ses |-> NoSession,
          rec |-> NoRec, old |-> NoRec]
Slots == {"chain", "side"}
Mishaps == {"split", "stale", "late", "leftover", "timeout", "raced", "crash"}

IsOpen(r) == r.end = "open"

\* A new document: the content script's fields after construction.
NewDocument(t, o) ==
  [open |-> TRUE, origin |-> o, doc |-> page[t].doc + 1, on |-> FALSE, rec |-> NoRec,
   last |-> NoRec, stop |-> "no", limit |-> FALSE]

Job(kind, t, r) ==
  [NoJob EXCEPT !.kind = kind, !.tab = t, !.doc = page[t].doc, !.step = "begin", !.rec = r]

Messages(kind, t, r) == <<Job(kind, t, r)>>

-----------------------------------------------------------------------------
(* The service worker's session.                                            *)

\* loadActiveRecording.
Session == IF mem # NoSession THEN mem ELSE sess

\* saveActiveRecording: memory, badge and alarm, then the copy.
SaveActiveRecording(s) == mem' = s /\ sess' = s

Next1(slot, j) == jobs' = [jobs EXCEPT ![slot] = j]
Done(slot) == jobs' = [jobs EXCEPT ![slot] = NoJob]

\* A message for the chain goes to its end.
Post(ms) == queue' = queue \o ms

\* serializeStateMutation: the next handler starts when the one before has returned.
TakeNext ==
  /\ queue # <<>> /\ jobs["chain"] = NoJob
  /\ jobs' = [jobs EXCEPT !["chain"] = Head(queue)]
  /\ queue' = Tail(queue)
  /\ mishaps' = IF jobs["side"] # NoJob THEN mishaps \cup {"raced"} ELSE mishaps
  /\ UNCHANGED <<mem, sess, store, chk, page, sstore, active, loading, left, events, starts,
                 made, ended>>

\* A handler that is not serialised starts at once.
StartSide(j) ==
  /\ jobs["side"] = NoJob
  /\ jobs' = [jobs EXCEPT !["side"] = j]
  /\ mishaps' = IF jobs["chain"] # NoJob THEN mishaps \cup {"raced"} ELSE mishaps

Spend(k) == left[k] > 0 /\ left' = [left EXCEPT ![k] = @ - 1]

Running(slot, kind, step) == jobs[slot].kind = kind /\ jobs[slot].step = step

-----------------------------------------------------------------------------
(* The content script.                                                      *)

\* persistState: the copy in sessionStorage, dropped when it would not fit.
SessionCopy(r) == IF Len(r.ev) > PageBudget THEN NoRec ELSE r
PersistState(t, o, r) == [sstore EXCEPT ![t][o] = SessionCopy(r)]

\* restorePersistedState.
Restored(p, r) == [p EXCEPT !.on = TRUE, !.rec = r]

\* adoptNewerBackgroundCheckpoint: the events the local copy misses, in order of time.
Merge(a, b) == SortSeq(a \o SelectSeq(b, LAMBDA e : e \notin Range(a)), <)

\* An event of the user or of the page goes into the live copy.  A checkpoint follows
\* when one is due: forced, twenty events or five seconds after the last.
Record(t, p, due, waiting) ==
  LET r == [p.rec EXCEPT !.ev = Append(@, events + 1)] IN
  /\ events' = events + 1
  /\ page' = [page EXCEPT ![t] = [p EXCEPT !.rec = r]]
  /\ sstore' = PersistState(t, p.origin, r)
  /\ queue' = waiting \o (IF due THEN <<[Job("checkpoint", t, r) EXCEPT !.doc = p.doc]>> ELSE <<>>)
  /\ made' = [made EXCEPT ![r.sid] = @ \cup {events + 1}]

\* The recording of this tab is on its way to another one.
Exported(t) ==
  \E s \in Slots : jobs[s].ses.tab = t /\ jobs[s].step \in {"import", "put", "own", "discard"}

Act(t) ==
  /\ active = t /\ page[t].on /\ page[t].stop = "no"
  /\ Spend("act")
  /\ \E due \in BOOLEAN : Record(t, page[t], due, queue)
  /\ mishaps' = IF Exported(t) THEN mishaps \cup {"late"} ELSE mishaps
  /\ UNCHANGED <<mem, sess, store, chk, jobs, active, loading, starts, ended>>

\* discardRecordingHandoff.
Discarded(p) == [p EXCEPT !.on = FALSE, !.rec = NoRec]

\* A slip: nothing is sent when the document goes away.
UnloadSilently(t) == <<>>

\* handleBeforeUnload: the live copy is saved and a checkpoint forced.
Unload(t) ==
  IF page[t].on THEN Messages("checkpoint", t, page[t].rec) ELSE <<>>

\* What a page resumes from sessionStorage may miss events of other documents, or belong
\* to an earlier session.
ResumeMishaps(r) ==
  (IF made[r.sid] \subseteq Range(r.ev) THEN {} ELSE {"split"})
    \cup (IF Session.sid = r.sid /\ r.sid \notin ended THEN {} ELSE {"stale"})

\* resumeIfNeeded at the start of a document, then pageshow records the navigation; if
\* there is no copy the service worker is asked.
StartDocument(t, o, saved, waiting) ==
  LET r == saved[t][o]
      p == NewDocument(t, o) IN
  IF IsOpen(r)
  THEN LET n == [r EXCEPT !.ev = Append(@, events + 1)] IN
       /\ page' = [page EXCEPT ![t] = Restored(p, n)]
       /\ sstore' = [saved EXCEPT ![t][o] = SessionCopy(n)]
       /\ events' = events + 1
       /\ made' = [made EXCEPT ![r.sid] = @ \cup {events + 1}]
       /\ queue' = Append(waiting, [Job("checkpoint", t, n) EXCEPT !.doc = p.doc])
       /\ mishaps' = mishaps \cup ResumeMishaps(r)
  ELSE /\ page' = [page EXCEPT ![t] = p]
       /\ sstore' = saved
       /\ queue' = Append(waiting, [Job("resume", t, NoRec) EXCEPT !.doc = p.doc])
       /\ UNCHANGED <<events, made, mishaps>>

\* The document of a tab is gone: a handler that waits for its answer gets an error.
Abandon(t) ==
  jobs' = [s \in Slots |-> IF jobs[s].step = "draining" /\ jobs[s].tab = t THEN NoJob ELSE jobs[s]]

Navigate(t, o) ==
  /\ active = t /\ page[t].open
  /\ Spend("nav")
  /\ LET saved == IF page[t].on THEN PersistState(t, page[t].origin, page[t].rec) ELSE sstore
     IN StartDocument(t, o, saved, queue \o Unload(t))
  /\ Abandon(t)
  /\ UNCHANGED <<mem, sess, store, chk, active, loading, starts, ended>>

\* stopAsync up to its first await: a page that does not record tries sessionStorage and
\* then asks the service worker.
ContentStop(t) ==
  LET p == page[t]
      r == sstore[t][p.origin] IN
  IF p.on THEN page' = [page EXCEPT ![t].stop = "draining"] /\ UNCHANGED <<queue, mishaps>>
  ELSE IF IsOpen(r)
  THEN /\ page' = [page EXCEPT ![t] = [Restored(p, r) EXCEPT !.stop = "draining"]]
       /\ mishaps' = mishaps \cup ResumeMishaps(r)
       /\ UNCHANGED queue
  ELSE /\ page' = [page EXCEPT ![t].stop = "resuming"]
       /\ Post(Messages("resume", t, NoRec))
       /\ UNCHANGED mishaps

\* The answer to STOP_RECORDING reaches the handlers that drain the tab.
Answer(t, r) ==
  jobs' = [s \in Slots |->
             IF jobs[s].step = "draining" /\ jobs[s].tab = t
             THEN [jobs[s] EXCEPT !.rec = r, !.step = "store"] ELSE jobs[s]]

\* What a page that does not record returns: its last recording or an empty one of the
\* first protocol.
LastRecording(t) == IF page[t].last # NoRec THEN page[t].last ELSE EmptyRec

\* The event queue is empty and the final snapshot is taken or has failed; finalizeStop.
\* A limit reports the recording itself.
FinalizeStop(t) ==
  /\ page[t].stop = "draining"
  /\ \E end \in {"complete", "partial"} :
       LET r == IF page[t].on THEN [page[t].rec EXCEPT !.end = end] ELSE LastRecording(t) IN
       /\ page' = [page EXCEPT ![t] = [@ EXCEPT !.on = FALSE, !.rec = NoRec, !.last = r,
                                                !.stop = "no", !.limit = FALSE]]
       /\ Answer(t, r)
       /\ Post(IF page[t].limit THEN Messages("status", t, r) ELSE <<>>)
  /\ sstore' = [sstore EXCEPT ![t][page[t].origin] = NoRec]
  /\ ended' = IF page[t].on THEN ended \cup {page[t].rec.sid} ELSE ended
  /\ UNCHANGED <<mem, sess, store, chk, active, loading, left, events, starts, made,
                 mishaps>>

\* requestLimitStop.
LimitStop(t) ==
  /\ page[t].on /\ page[t].stop = "no"
  /\ Spend("limit")
  /\ page' = [page EXCEPT ![t].stop = "draining", ![t].limit = TRUE]
  /\ UNCHANGED <<mem, sess, store, chk, sstore, queue, jobs, active, loading, events,
                 starts, made, mishaps, ended>>

-----------------------------------------------------------------------------
(* Handlers of the service worker.                                          *)

\* START_RECORDING: refused while a session exists, else old copies are removed.
StartBegin(slot) ==
  /\ Running(slot, "start", "begin")
  /\ IF Session # NoSession
     THEN /\ mem' = Session
          /\ Done(slot)
          /\ UNCHANGED <<store, chk>>
     ELSE /\ store' = NoRec
          /\ chk' = [chk EXCEPT ![active] = NoRec]
          /\ Next1(slot, [jobs[slot] EXCEPT !.tab = active, !.step = "save"])
          /\ UNCHANGED mem
  /\ UNCHANGED <<sess, page, sstore, queue, active, loading, left, events, starts, made,
                 mishaps, ended>>

StartSave(slot) ==
  /\ Running(slot, "start", "save")
  /\ starts' = starts + 1
  /\ SaveActiveRecording([tab |-> jobs[slot].tab, sid |-> starts + 1, tabs |-> {jobs[slot].tab}])
  /\ Next1(slot, [jobs[slot] EXCEPT !.step = "inject"])
  /\ UNCHANGED <<store, chk, page, sstore, queue, active, loading, left, events, made,
                 mishaps, ended>>

\* The content script starts (a page that records already goes on with its recording) and
\* captures the initial snapshot; if it cannot, or is unreachable, the session is dropped.
StartInject(slot) ==
  LET t == jobs[slot].tab
      p == page[t]
      r == [sid |-> starts, ev |-> <<>>, end |-> "open"] IN
  /\ Running(slot, "start", "inject")
  /\ \/ /\ p.open /\ p.on
        /\ UNCHANGED <<mem, sess, page, sstore, queue>>
     \/ /\ p.open /\ ~p.on
        /\ page' = [page EXCEPT ![t] = Restored(p, r)]
        /\ sstore' = PersistState(t, p.origin, r)
        /\ Post(Messages("checkpoint", t, r))
        /\ UNCHANGED <<mem, sess>>
     \/ /\ p.open /\ ~p.on
        /\ SaveActiveRecording(NoSession)
        /\ page' = [page EXCEPT ![t].last = [r EXCEPT !.end = "partial"]]
        /\ sstore' = [sstore EXCEPT ![t][p.origin] = NoRec]
        /\ Post(Messages("status", t, [r EXCEPT !.end = "partial"]))
     \/ /\ ~p.open
        /\ SaveActiveRecording(NoSession)
        /\ UNCHANGED <<page, sstore, queue>>
  /\ Done(slot)
  /\ UNCHANGED <<store, chk, active, loading, left, events, starts, made, mishaps, ended>>

\* RECORDING_CHECKPOINT: only from the session's tab; three stores, in this order.
CheckpointBegin(slot) ==
  /\ Running(slot, "checkpoint", "begin")
  /\ mem' = Session
  /\ IF Session # NoSession /\ Session.tab = jobs[slot].tab
     THEN /\ store' = jobs[slot].rec
          /\ Next1(slot, [jobs[slot] EXCEPT !.ses = Session, !.step = "save"])
     ELSE Done(slot) /\ UNCHANGED store
  /\ UNCHANGED <<sess, chk, page, sstore, queue, active, loading, left, events, starts,
                 made, mishaps, ended>>

CheckpointSave(slot) ==
  /\ Running(slot, "checkpoint", "save")
  /\ SaveActiveRecording(jobs[slot].ses)
  /\ Next1(slot, [jobs[slot] EXCEPT !.step = "local"])
  /\ UNCHANGED <<store, chk, page, sstore, queue, active, loading, left, events, starts,
                 made, mishaps, ended>>

CheckpointLocal(slot) ==
  /\ Running(slot, "checkpoint", "local")
  /\ chk' = [chk EXCEPT ![jobs[slot].ses.tab] = jobs[slot].rec]
  /\ Done(slot)
  /\ UNCHANGED <<mem, sess, store, page, sstore, queue, active, loading, left, events,
                 starts, made, mishaps, ended>>

\* RECORDING_STATUS "stopped": the recording is stored, then the session dropped.
StatusBegin(slot) ==
  /\ Running(slot, "status", "begin")
  /\ mem' = Session
  /\ IF Session # NoSession /\ Session.tab = jobs[slot].tab
     THEN store' = jobs[slot].rec /\ Next1(slot, [jobs[slot] EXCEPT !.step = "save"])
     ELSE Done(slot) /\ UNCHANGED store
  /\ UNCHANGED <<sess, chk, page, sstore, queue, active, loading, left, events, starts,
                 made, mishaps, ended>>

StatusSave(slot) ==
  /\ Running(slot, "status", "save")
  /\ SaveActiveRecording(NoSession)
  /\ Done(slot)
  /\ mishaps' = IF IsOpen(chk[jobs[slot].tab]) THEN mishaps \cup {"leftover"} ELSE mishaps
  /\ UNCHANGED <<store, chk, page, sstore, queue, active, loading, left, events, starts,
                 made, ended>>

\* RESUME_RECORDING: the stored copy for the session's tab, else the tab's checkpoint.
ResumeCopy(t) ==
  IF Session # NoSession /\ Session.tab = t
  THEN IF IsOpen(store) THEN store ELSE NoRec
  ELSE IF IsOpen(chk[t]) THEN chk[t] ELSE NoRec

\* The answer at the page.  A page that records merges only the session's copy, and only
\* when it was asked to get ready; a page that waits to stop goes on with its stop.
Resume(slot) ==
  LET j == jobs[slot]
      t == j.tab
      p == page[t]
      r == ResumeCopy(t)
      here == p.open /\ p.doc = j.doc
      remote == Session # NoSession /\ Session.tab = t /\ r # NoRec
      foreign == r # NoRec /\ ~remote /\ p.last # NoRec IN
  /\ Running(slot, "resume", "begin")
  /\ mem' = Session
  /\ IF here /\ ~p.on /\ r # NoRec /\ ~foreign
     THEN /\ page' = [page EXCEPT ![t] = [Restored(p, r) EXCEPT
                        !.stop = IF @ = "resuming" THEN "draining" ELSE @]]
          /\ Done(slot) /\ UNCHANGED <<sstore, queue, mishaps>>
     ELSE IF here /\ ~p.on /\ p.stop = "resuming"
     THEN /\ page' = [page EXCEPT ![t].stop = "no"]
          /\ jobs' = [s \in Slots |->
                        IF s = slot THEN NoJob
                        ELSE IF jobs[s].step = "draining" /\ jobs[s].tab = t
                        THEN [jobs[s] EXCEPT !.rec = LastRecording(t), !.step = "store"]
                        ELSE jobs[s]]
          /\ Post(IF foreign THEN Messages("clear", t, NoRec) ELSE <<>>)
          /\ UNCHANGED <<sstore, mishaps>>
     ELSE IF here /\ p.on /\ j.rec.end = "adopt" /\ remote /\ ~(Range(r.ev) \subseteq Range(p.rec.ev))
     THEN LET n == [p.rec EXCEPT !.ev = Merge(@, r.ev)] IN
          /\ page' = [page EXCEPT ![t].rec = n]
          /\ sstore' = PersistState(t, p.origin, n)
          /\ Post(Messages("checkpoint", t, n))
          /\ mishaps' = IF r.sid = n.sid /\ made[n.sid] \subseteq Range(n.ev)
                        THEN mishaps \ {"split"} ELSE mishaps
          /\ Done(slot)
     ELSE Done(slot) /\ UNCHANGED <<page, sstore, queue, mishaps>>
  /\ UNCHANGED <<sess, store, chk, active, loading, left, events, starts, made, ended>>

\* CLEAR_RECORDING_CHECKPOINT: the page was offered a checkpoint of another session.
Clear(slot) ==
  /\ Running(slot, "clear", "begin")
  /\ chk' = [chk EXCEPT ![jobs[slot].tab] = NoRec]
  /\ Done(slot)
  /\ UNCHANGED <<mem, sess, store, page, sstore, queue, active, loading, left, events,
                 starts, made, mishaps, ended>>

\* activateRecordingTab and tabs.onCreated up to the wait for the page: the tab joins.
Enroll(slot) ==
  LET j == jobs[slot]
      s == Session IN
  /\ Running(slot, "enroll", "begin")
  /\ IF s = NoSession THEN UNCHANGED <<mem, sess, loading>>
     ELSE /\ SaveActiveRecording([s EXCEPT !.tabs = @ \cup {j.tab}])
          /\ loading' = IF active = j.tab THEN loading \cup {j.tab} ELSE loading
  /\ Done(slot)
  /\ UNCHANGED <<store, chk, page, sstore, queue, active, left, events, starts, made,
                 mishaps, ended>>

\* The page of an activated tab has loaded, or the wait has failed.
TabLoaded(t) ==
  /\ t \in loading
  /\ loading' = loading \ {t}
  /\ Post(IF page[t].open THEN Messages("transfer", t, NoRec) ELSE <<>>)
  /\ UNCHANGED <<mem, sess, store, chk, page, sstore, jobs, active, left, events, starts,
                 made, mishaps, ended>>

-----------------------------------------------------------------------------
(* Stopping.                                                                *)

\* stopActiveRecording and REQUEST_STOP_RECORDING: whose content script is drained.  The
\* HUD is heard for the session's tab, or for a tab whose checkpoint shows an orphan.
\* Without a session the popup drains an orphan, returns the stored recording if it is
\* complete, or asks the active tab for whatever it has.
DrainTab(j) ==
  IF Session # NoSession
  THEN IF j.kind = "stop" \/ Session.tab = j.tab THEN {Session.tab} ELSE {}
  ELSE IF j.kind = "hud" THEN {t \in {j.tab} : IsOpen(chk[t])}
  ELSE IF IsOpen(chk[active]) \/ store.end # "complete" THEN {active} ELSE {}

StopBegin(slot) ==
  LET j == jobs[slot] IN
  /\ j.kind \in {"stop", "hud"} /\ j.step = "begin"
  /\ mem' = Session
  /\ IF \E t \in DrainTab(j) : page[t].open
     THEN LET t == CHOOSE t \in DrainTab(j) : TRUE IN
          /\ Next1(slot, [j EXCEPT !.tab = t, !.ses = Session, !.step = "draining"])
          /\ ContentStop(t)
     ELSE Done(slot) /\ UNCHANGED <<page, queue, mishaps>>
  /\ UNCHANGED <<sess, store, chk, sstore, active, loading, left, events, starts, made,
                 ended>>

\* The drain may take more than STOP_DRAIN_TIMEOUT_MS.
DrainTimeout(slot) ==
  jobs[slot].step = "draining"

\* A page waits for the chain that this handler holds.
HoldsResume(slot) ==
  slot = "chain" /\ page[jobs[slot].tab].stop = "resuming"

StopTimeout(slot) ==
  LET c == chk[jobs[slot].tab] IN
  /\ DrainTimeout(slot)
  /\ IF HoldsResume(slot) THEN UNCHANGED left ELSE Spend("slow")
  /\ IF c # NoRec
     THEN Next1(slot, [jobs[slot] EXCEPT !.rec = [c EXCEPT !.end = "partial"], !.step = "store"])
     ELSE Done(slot)
  /\ mishaps' = mishaps \cup {"timeout"}
  /\ UNCHANGED <<mem, sess, store, chk, page, sstore, queue, active, loading, events,
                 starts, made, ended>>

\* The answer is an empty recording of the first protocol: a session refuses it.
ProtocolMismatch(j) == j.ses # NoSession /\ j.rec.end = "empty"

StopStore(slot) ==
  /\ jobs[slot].step = "store" /\ jobs[slot].kind \in {"stop", "hud"}
  /\ IF ProtocolMismatch(jobs[slot]) THEN Done(slot) /\ UNCHANGED store
     ELSE /\ store' = jobs[slot].rec
          /\ Next1(slot, [jobs[slot] EXCEPT !.step = "clear"])
  /\ UNCHANGED <<mem, sess, chk, page, sstore, queue, active, loading, left, events, starts,
                 made, mishaps, ended>>

StopClear(slot) ==
  /\ jobs[slot].step = "clear" /\ jobs[slot].kind \in {"stop", "hud"}
  /\ chk' = [chk EXCEPT ![jobs[slot].tab] = NoRec]
  /\ Next1(slot, [jobs[slot] EXCEPT !.step = "upload"])
  /\ UNCHANGED <<mem, sess, store, page, sstore, queue, active, loading, left, events,
                 starts, made, mishaps, ended>>

\* A slip: the stop keeps the session.
EndSessionKept(j) == Session

\* After the upload the session ends; an orphan had none.
EndSession(j) == NoSession

StopFinish(slot) ==
  /\ jobs[slot].step = "upload"
  /\ SaveActiveRecording(EndSession(jobs[slot]))
  /\ Done(slot)
  /\ UNCHANGED <<store, chk, page, sstore, queue, active, loading, left, events, starts,
                 made, mishaps, ended>>

-----------------------------------------------------------------------------
(* Handoff to another tab.                                                  *)

\* ENSURE_RECORDING_READY: the session moves to the active tab first, if it must.
ReadyBegin(slot) ==
  /\ Running(slot, "ready", "begin")
  /\ mem' = Session
  /\ IF Session = NoSession THEN Done(slot)
     ELSE Next1(slot, [jobs[slot] EXCEPT !.tab = active, !.ses = Session,
                        !.step = IF Session.tab = active THEN "ensure" ELSE "export"])
  /\ UNCHANGED <<sess, store, chk, page, sstore, queue, active, loading, left, events,
                 starts, made, mishaps, ended>>

TransferBegin(slot) ==
  LET j == jobs[slot] IN
  /\ Running(slot, "transfer", "begin")
  /\ mem' = Session
  /\ IF Session = NoSession \/ Session.tab = j.tab \/ j.tab \notin Session.tabs THEN Done(slot)
     ELSE Next1(slot, [j EXCEPT !.ses = Session, !.step = "export"])
  /\ UNCHANGED <<sess, store, chk, page, sstore, queue, active, loading, left, events,
                 starts, made, mishaps, ended>>

\* A handoff that fails leaves the session as it was, with a message.
Fails(slot) ==
  IF jobs[slot].kind = "transfer" THEN SaveActiveRecording(jobs[slot].ses) ELSE UNCHANGED <<mem, sess>>

\* exportRecordingHandoff: the source must record; it goes on recording.
TransferExport(slot) ==
  LET p == page[jobs[slot].ses.tab] IN
  /\ jobs[slot].step = "export"
  /\ IF p.open /\ p.on
     THEN /\ Next1(slot, [jobs[slot] EXCEPT !.old = p.rec, !.step = "import"])
          /\ UNCHANGED <<mem, sess>>
     ELSE /\ Done(slot)
          /\ IF p.open THEN Fails(slot) ELSE UNCHANGED <<mem, sess>>
  /\ UNCHANGED <<store, chk, page, sstore, queue, active, loading, left, events, starts,
                 made, mishaps, ended>>

\* importRecordingHandoff: the target takes the recording over and records the transition.
TransferImport(slot) ==
  LET j == jobs[slot]
      t == j.tab
      p == page[t] IN
  /\ j.step = "import"
  /\ IF p.open
     THEN /\ Record(t, Restored(Discarded(p), j.old), TRUE, queue)
          /\ Next1(slot, [j EXCEPT !.rec = [j.old EXCEPT !.ev = Append(@, events + 1)],
                                   !.step = "put"])
     ELSE Done(slot) /\ UNCHANGED <<events, page, sstore, queue, made>>
  /\ UNCHANGED <<mem, sess, store, chk, active, loading, left, starts, mishaps, ended>>

TransferPut(slot) ==
  /\ jobs[slot].step = "put"
  /\ store' = jobs[slot].rec
  /\ Next1(slot, [jobs[slot] EXCEPT !.step = "own"])
  /\ UNCHANGED <<mem, sess, chk, page, sstore, queue, active, loading, left, events, starts,
                 made, mishaps, ended>>

TransferOwn(slot) ==
  /\ jobs[slot].step = "own"
  /\ SaveActiveRecording([jobs[slot].ses EXCEPT !.tab = jobs[slot].tab])
  /\ Next1(slot, [jobs[slot] EXCEPT !.step = "discard"])
  /\ UNCHANGED <<store, chk, page, sstore, queue, active, loading, left, events, starts,
                 made, mishaps, ended>>

SourceAfter(p) == Discarded(p)

\* discardRecordingHandoff at the source; if the source is gone everything is put back and
\* the target discards what it imported.
TransferDiscard(slot) ==
  LET j == jobs[slot]
      src == j.ses.tab IN
  /\ j.step = "discard"
  /\ IF page[src].open
     THEN /\ page' = [page EXCEPT ![src] = SourceAfter(@)]
          /\ sstore' = [sstore EXCEPT ![src][page[src].origin] = NoRec]
          /\ Next1(slot, [j EXCEPT !.step = "tidy"])
          /\ UNCHANGED <<store, mem, sess>>
     ELSE /\ store' = j.old
          /\ SaveActiveRecording(j.ses)
          /\ page' = [page EXCEPT ![j.tab] = Discarded(@)]
          /\ sstore' = [sstore EXCEPT ![j.tab][page[j.tab].origin] = NoRec]
          /\ Done(slot)
  /\ UNCHANGED <<chk, queue, active, loading, left, events, starts, made, mishaps, ended>>

TransferTidy(slot) ==
  LET j == jobs[slot] IN
  /\ j.step = "tidy"
  /\ chk' = [chk EXCEPT ![j.ses.tab] = NoRec]
  /\ IF j.kind = "ready" THEN Next1(slot, [j EXCEPT !.step = "ensure"]) ELSE Done(slot)
  /\ UNCHANGED <<mem, sess, store, page, sstore, queue, active, loading, left, events,
                 starts, made, mishaps, ended>>

\* The content script resumes if it must and asks for the session's copy to merge.
ReadyEnsure(slot) ==
  LET t == jobs[slot].tab
      r == sstore[t][page[t].origin] IN
  /\ jobs[slot].step = "ensure"
  /\ IF page[t].open
     THEN /\ Post(<<[Job("resume", t, NoRec) EXCEPT !.rec.end = "adopt"]>>)
          /\ IF ~page[t].on /\ IsOpen(r)
             THEN /\ page' = [page EXCEPT ![t] = Restored(@, r)]
                  /\ mishaps' = mishaps \cup ResumeMishaps(r)
             ELSE UNCHANGED <<page, mishaps>>
     ELSE UNCHANGED <<queue, page, mishaps>>
  /\ Done(slot)
  /\ UNCHANGED <<mem, sess, store, chk, sstore, active, loading, left, events, starts, made,
                 ended>>

-----------------------------------------------------------------------------
(* The user and the browser.                                                *)

\* Messages of the popup that have no answer yet.
PopupBusy ==
  \/ jobs["chain"].kind \in {"start", "stop"}
  \/ \E i \in 1..Len(queue) : queue[i].kind \in {"start", "stop"}

\* The popup's buttons, one request at a time (withBusy).
RequestStart ==
  /\ ~PopupBusy
  /\ Spend("start")
  /\ Post(Messages("start", active, NoRec))
  /\ UNCHANGED <<mem, sess, store, chk, page, sstore, jobs, active, loading, events, starts,
                 made, mishaps, ended>>

RequestStop ==
  /\ ~PopupBusy
  /\ Session # NoSession
  /\ Spend("stop")
  /\ Post(Messages("stop", active, NoRec))
  /\ UNCHANGED <<mem, sess, store, chk, page, sstore, jobs, active, loading, events, starts,
                 made, mishaps, ended>>

\* The HUD's button.
RequestHudStop(t) ==
  /\ page[t].on /\ active = t
  /\ Spend("hud")
  /\ StartSide(Job("hud", t, NoRec))
  /\ UNCHANGED <<mem, sess, store, chk, page, sstore, queue, active, loading, events,
                 starts, made, ended>>

RequestReady ==
  /\ Spend("ready")
  /\ StartSide(Job("ready", active, NoRec))
  /\ UNCHANGED <<mem, sess, store, chk, page, sstore, queue, active, loading, events,
                 starts, made, ended>>

\* tabs.onCreated and tabs.onActivated.  The number of a closed tab is not used again.
OpenTab(t) ==
  /\ ~page[t].open /\ page[t].doc = 0
  /\ Spend("tab")
  /\ page' = [page EXCEPT ![t] = NewDocument(t, Home)]
  /\ Post(<<Job("enroll", t, NoRec), [Job("resume", t, NoRec) EXCEPT !.doc = @ + 1]>>)
  /\ UNCHANGED <<mem, sess, store, chk, sstore, jobs, active, loading, events, starts, made,
                 mishaps, ended>>

ActivateTab(t) ==
  /\ page[t].open /\ active # t
  /\ Spend("tab")
  /\ active' = t
  /\ Post(Messages("enroll", t, NoRec))
  /\ UNCHANGED <<mem, sess, store, chk, page, sstore, jobs, loading, events, starts, made,
                 mishaps, ended>>

\* tabs.onRemoved clears the tab's checkpoint and nothing else.
CloseTab(t) ==
  /\ page[t].open
  /\ Spend("close")
  /\ \E u \in Tabs \ {t} :
       /\ page[u].open
       /\ active' = u
       /\ Post(IF active # u THEN Messages("enroll", u, NoRec) ELSE <<>>)
  /\ page' = [page EXCEPT ![t] = [NewDocument(t, Home) EXCEPT !.open = FALSE]]
  /\ sstore' = [sstore EXCEPT ![t] = [o \in Origins |-> NoRec]]
  /\ chk' = [chk EXCEPT ![t] = NoRec]
  /\ Abandon(t)
  /\ UNCHANGED <<mem, sess, store, loading, events, starts, made, mishaps, ended>>

\* The service worker dies: memory, handlers and waiting messages are gone.
Crash ==
  /\ Spend("crash")
  /\ mem' = NoSession
  /\ jobs' = [s \in Slots |-> NoJob]
  /\ queue' = <<>>
  /\ loading' = {}
  /\ page' = [t \in Tabs |-> [page[t] EXCEPT !.stop = IF @ = "resuming" THEN "no" ELSE @]]
  /\ mishaps' = IF queue = <<>> /\ jobs = [s \in Slots |-> NoJob] /\ loading = {}
                THEN mishaps ELSE mishaps \cup {"crash"}
  /\ UNCHANGED <<sess, store, chk, sstore, active, events, starts, made, ended>>

-----------------------------------------------------------------------------

MaxStarts == 2

Init ==
  /\ mem = NoSession /\ sess = NoSession /\ store = NoRec
  /\ chk = [t \in Tabs |-> NoRec]
  /\ page = [t \in Tabs |->
               [open |-> t = FirstTab, origin |-> Home, doc |-> 0, on |-> FALSE, rec |-> NoRec,
                last |-> NoRec, stop |-> "no", limit |-> FALSE]]
  /\ sstore = [t \in Tabs |-> [o \in Origins |-> NoRec]]
  /\ queue = <<>> /\ jobs = [s \in Slots |-> NoJob]
  /\ active = FirstTab /\ loading = {}
  /\ left \in Plans
  /\ events = 0 /\ starts = 0
  /\ made = [n \in 0..MaxStarts |-> {}]
  /\ ended = {} /\ mishaps = {}

Handler(slot) ==
  \/ StartBegin(slot) \/ StartSave(slot) \/ StartInject(slot)
  \/ CheckpointBegin(slot) \/ CheckpointSave(slot) \/ CheckpointLocal(slot)
  \/ StatusBegin(slot) \/ StatusSave(slot)
  \/ Resume(slot) \/ Clear(slot) \/ Enroll(slot)
  \/ StopBegin(slot) \/ StopStore(slot) \/ StopClear(slot) \/ StopFinish(slot)
  \/ ReadyBegin(slot) \/ ReadyEnsure(slot)
  \/ TransferBegin(slot) \/ TransferExport(slot) \/ TransferImport(slot) \/ TransferPut(slot)
  \/ TransferOwn(slot) \/ TransferDiscard(slot) \/ TransferTidy(slot)

ServiceWorker == TakeNext \/ \E slot \in Slots : Handler(slot)
Timers == (\E slot \in Slots : StopTimeout(slot)) \/ \E t \in Tabs : TabLoaded(t)
User ==
  \/ RequestStart \/ RequestStop \/ RequestReady \/ Crash
  \/ \E t \in Tabs : Act(t) \/ LimitStop(t) \/ RequestHudStop(t) \/ OpenTab(t) \/ ActivateTab(t)
                     \/ CloseTab(t) \/ \E o \in Origins : Navigate(t, o)

Next == ServiceWorker \/ Timers \/ User \/ \E t \in Tabs : FinalizeStop(t)

Spec == Init /\ [][Next]_vars

-----------------------------------------------------------------------------
(* Properties.                                                              *)

Recs == [sid : 0..MaxStarts, ev : Seq(Nat), end : {"none", "open", "complete", "partial", "empty"}]

\* The session, the four stores and the live copies hold what the code puts there; the
\* session in memory never differs from its stored copy, and a page that records has an
\* open recording.
TypeOK ==
  /\ mem \in {NoSession, sess}
  /\ sess.sid \in 0..MaxStarts /\ sess.tabs \subseteq Tabs
  /\ store \in Recs
  /\ \A t \in Tabs : chk[t] \in Recs /\ page[t].rec \in Recs /\ page[t].last \in Recs
  /\ \A t \in Tabs : page[t].on => IsOpen(page[t].rec)
  /\ \A t \in Tabs, o \in Origins : sstore[t][o] = NoRec \/ IsOpen(sstore[t][o])
  /\ left \in [PlanKeys -> Nat] /\ mishaps \subseteq Mishaps

\* A recording stored as complete has every event that was recorded for its session, over
\* navigations, handoffs, limit stops and a service worker that died with nothing to do
\* (drainAndFinalize, RECORDING_STATUS, transferActiveRecording).  Not covered: a document
\* that resumed an older copy from sessionStorage, a source that went on recording during
\* a handoff, a handler lost in a crash, and a HUD stop beside another handler.
CompleteHasEvents ==
  store.end = "complete" /\ mishaps = {} => made[store.sid] \subseteq Range(store.ev)

\* No copy holds an event twice or out of order, whatever copies were merged on the way
\* (adoptNewerBackgroundCheckpoint).
EventsInOrder ==
  \A r \in {store} \cup {page[t].rec : t \in Tabs} \cup {chk[t] : t \in Tabs} :
    \A i \in 1..Len(r.ev) - 1 : r.ev[i] < r.ev[i + 1]

Quiet == queue = <<>> /\ loading = {} /\ jobs = [s \in Slots |-> NoJob]

SessionOwnsRecorders ==
  \A t \in Tabs : page[t].on /\ page[t].stop = "no" =>
    t = Session.tab /\ page[t].rec.sid = Session.sid

\* With nothing left to handle, a page that records is the tab of the session and records
\* for this session: a handoff leaves no second recorder behind and a stop no orphan.
OneRecorder ==
  Quiet /\ mishaps \subseteq {"split", "late"} => SessionOwnsRecorders

\* A finished recording is never replaced by an unfinished copy of itself, unless a HUD
\* stop ran beside another handler, a handler was lost in a crash, or a limit stop left
\* the open checkpoint of the tab behind.
FinalIsFinal ==
  [][store.end = "complete" /\ store'.sid = store.sid
       /\ mishaps' \cap {"leftover", "raced", "crash"} = {}
       => store'.end = "complete"]_vars

\* The copies of a recording: types hold, a complete one has every event, in order
\* and once, and one page records.
RecordingIsKept ==
  /\ TypeOK
  /\ CompleteHasEvents
  /\ EventsInOrder
  /\ OneRecorder

=============================================================================
