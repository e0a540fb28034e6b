------------------------------ MODULE Capture ------------------------------
(***************************************************************************)
(* How one document of the extension records what its user does:           *)
(* extension/src/content.ts (the event handlers, the queue of events that  *)
(* wait for their snapshot, the stored snapshots and the stop), with the   *)
(* frame aggregator, the snapshot deltas, the mark overlay and the reader  *)
(* of a finished recording, expandSnapshotReferences.                      *)
(*                                                                         *)
(* A user action that may tear the document down (a link, a submission) is *)
(* recorded at once, with a snapshot of the top document.  Every other one *)
(* starts a snapshot that asks the background for the other frames and     *)
(* waits in a queue; a snapshot takes its number when it starts and is     *)
(* stored when its frames have come.  A stored snapshot is full, a         *)
(* reference to the last stored content, or a patch of the last full one.  *)
(***************************************************************************)
EXTENDS Naturals, Sequences, FiniteSets, SequencesExt

CONSTANTS Pages,          \* what the top document may look like
          Similar,        \* the pairs of pages a bounded patch can tell apart
          TooBig,         \* the pages past the limits of the serializer
          Fields,         \* text fields
          Elements,       \* elements the user may mark
          Forms,          \* default submit buttons: "typed", "typeless"
          Delays,         \* browser's delay from Enter to submit: see Within
          MaxEvents,      \* limits.maxActions
          MaxMarks,       \* options.maxMarks
          Habits,         \* bound: the sets of things that go on together
          MaxUserActs,    \* bound: actions of the user
          MaxPageChanges  \* bound: changes of the page

VARIABLES habit,     \* what goes on in this behaviour
          page,      \* the document as it is now
          changes,   \* how often it changed
          form,      \* the kind of the form's default button
          rc,        \* this.recording and what is kept to store into it
          flight,    \* captureSnapshot calls that wait for their frames
          queue,     \* eventQueue: the tasks that wait, oldest first
          typed,     \* inputTimeouts, in order: field and user action
          scrolled,  \* scrollTimeouts: the user action, or 0
          stage,     \* what stopAsync has come to
          drain,     \* tasks of the queue it still awaits
          limit,     \* limitStopRequested
          delay,     \* how late the browser's answer to Enter or a click is
          subm,      \* the submission the browser is carrying out
          marks,     \* recording.marks
          popover,   \* selectedElement and editingMarkId of the overlay
          acts,      \* user actions so far
          early,     \* user actions at the first stop
          excused    \* user actions whose snapshot could not be taken

captureVars == <<habit, page, changes, form, rc, flight, queue, typed, scrolled, stage,
                 drain, limit, delay, subm, marks, popover, acts, early, excused>>

Nothing == [seq |-> 0, content |-> <<>>]
NoSubmission == [id |-> 0, by |-> "none", left |-> <<>>]
Closed == [el |-> "none", editing |-> 0]

(* A snapshot's content is the page with what is known of its other frames. *)
\* Its action is the place of the event it goes with, from 1; 0 is none yet.
Whole(p) == <<p, "whole">>
Partial(p) == <<p, "partial">>

Serialises(p) == p \notin TooBig

---------------------------------------------------------------------------
(* Storing: the wrapped push of the snapshots and of the events. *)

HasDelta(base, content) ==
    /\ base # Nothing
    /\ base.content # content
    /\ \/ base.content[1] = content[1]
       \/ {base.content[1], content[1]} \in Similar

Stored(s, kind, to, data) ==
    [seq |-> s.seq, phase |-> s.phase, action |-> s.action, of |-> s.of,
     saw |-> s.content, kind |-> kind, to |-> to, data |-> data]

\* A slip: the patch is kept as one of the last stored content.
DeduplicateSnapshotChains(r, s) ==
    IF r.last # Nothing /\ r.last.content = s.content
    THEN [r EXCEPT !.snaps = Append(@, Stored(s, "ref", r.last.seq, <<>>))]
    ELSE IF HasDelta(r.base, s.content)
    THEN [r EXCEPT !.last = [seq |-> s.seq, content |-> s.content],
                   !.snaps = Append(@, Stored(s, "delta", r.last.seq,
                                              <<r.base.content, s.content>>))]
    ELSE [r EXCEPT !.last = [seq |-> s.seq, content |-> s.content],
                   !.base = [seq |-> s.seq, content |-> s.content],
                   !.snaps = Append(@, Stored(s, "full", s.seq, <<s.content>>))]

\* A patch is kept with the content it was computed against.
DeduplicateSnapshot(r, s) ==
    IF r.last # Nothing /\ r.last.content = s.content
    THEN [r EXCEPT !.snaps = Append(@, Stored(s, "ref", r.last.seq, <<>>))]
    ELSE IF HasDelta(r.base, s.content)
    THEN [r EXCEPT !.last = [seq |-> s.seq, content |-> s.content],
                   !.snaps = Append(@, Stored(s, "delta", r.base.seq,
                                              <<r.base.content, s.content>>))]
    ELSE [r EXCEPT !.last = [seq |-> s.seq, content |-> s.content],
                   !.base = [seq |-> s.seq, content |-> s.content],
                   !.snaps = Append(@, Stored(s, "full", s.seq, <<s.content>>))]

PushSnapshot(r, s) == [DeduplicateSnapshot(r, s) EXCEPT !.pushed = Append(@, s.seq)]

PushEvent(r, id) == [r EXCEPT !.events = Append(@, id)]

\* captureLocalSnapshot, linked to the event that is pushed with it.
LocalSnapshot(r, id) ==
    PushSnapshot([r EXCEPT !.next = @ + 1],
                 [seq |-> r.next, phase |-> "before-action", of |-> id,
                  action |-> Len(r.events) + 1, content |-> Whole(page)])

RecordEventSync(r, id) == PushEvent(LocalSnapshot(r, id), id)

\* flushInputTimeouts: every pending text, before what may navigate.
FlushInputTimeouts(r) ==
    FoldLeft(LAMBDA acc, t : RecordEventSync(acc, t.id), r, typed)

FlushScrollTimeouts(r) == IF scrolled = 0 THEN r ELSE RecordEventSync(r, scrolled)

\* requestLimitStop, from the push of an event; the stop is a microtask, so
\* nothing but queued tasks comes in between.
LimitReached(r) == limit \/ (stage = "none" /\ Len(r.events) >= MaxEvents)

StopIsDue == limit /\ stage = "none"

\* A task of its own: not between the events of one submission.
OwnTask == ~StopIsDue /\ subm = NoSubmission

---------------------------------------------------------------------------
(* Snapshots that wait for the other frames. *)

Capturing(id, phase) ==
    [seq |-> rc.next, phase |-> phase, of |-> id, action |-> 0, page |-> page]

\* captureSnapshot, up to its await.
StartCapture(id, phase) ==
    /\ flight' = flight \cup {Capturing(id, phase)}
    /\ rc' = [rc EXCEPT !.next = @ + 1]

Resolved(c, content) ==
    [seq |-> c.seq, phase |-> c.phase, of |-> c.of, action |-> 0, content |-> content]

---------------------------------------------------------------------------
CaptureInit ==
    /\ habit \in Habits
    /\ page = CHOOSE p \in Pages : Serialises(p)
    /\ changes = 0
    /\ form \in Forms /\ delay \in Delays
    /\ "enter" \notin habit => form = "typed" /\ delay = "quick"
    /\ rc = [events |-> <<>>, snaps |-> <<>>, pushed |-> <<>>, next |-> 1,
             last |-> Nothing, base |-> Nothing]
    /\ flight = {[seq |-> 0, phase |-> "initial", of |-> 0, action |-> 0, page |-> page]}
    /\ queue = <<[id |-> 0, seq |-> 0, kind |-> "initial"]>>
    /\ typed = <<>> /\ scrolled = 0
    /\ stage = "none" /\ drain = 0 /\ limit = FALSE
    /\ subm = NoSubmission
    /\ marks = <<>> /\ popover = Closed
    /\ acts = 0 /\ early = 0 /\ excused = {}

\* The page's scripts change it; they run between any two handlers.
PageChanges ==
    /\ stage # "done" /\ changes < MaxPageChanges /\ OwnTask /\ "change" \in habit
    /\ changes' = changes + 1
    /\ page' \in {p \in Pages \ {page} : p \in TooBig => "grow" \in habit}
    /\ UNCHANGED <<habit, form, delay, rc, flight, queue, typed, scrolled, stage, drain, limit,
                   subm, marks, popover, acts, early, excused>>

(* What the handlers share: recordingFlag, and no submission half done. *)
UserMay(kind) ==
    kind \in habit /\ stage # "done" /\ OwnTask /\ acts < MaxUserActs

Enqueue(id, kind) ==
    \/ /\ Serialises(page)
       /\ StartCapture(id, "before-action")
       /\ queue' = Append(queue, [id |-> id, seq |-> rc.next, kind |-> kind])
    \/ /\ ~Serialises(page)
       /\ queue' = Append(queue, [id |-> id, seq |-> 0, kind |-> kind])
       /\ UNCHANGED <<rc, flight>>

\* A flush on a page past the limits throws at the first text, whose timer is
\* cleared by then: only another flush will see it.
Disarmed == IF typed = <<>> THEN typed ELSE [typed EXCEPT ![1].armed = FALSE]

\* A click that stays on the page: the texts are flushed and the event waits for
\* its snapshot.
ClickStays(id) ==
    \/ /\ Serialises(page)
       /\ LET flushed == FlushInputTimeouts(rc) IN
          /\ rc' = [flushed EXCEPT !.next = @ + 1]
          /\ flight' = flight \cup {[Capturing(id, "before-action")
                                     EXCEPT !.seq = flushed.next]}
          /\ queue' = Append(queue, [id |-> id, seq |-> flushed.next, kind |-> "event"])
       /\ typed' = <<>> /\ limit' = LimitReached(rc')
       /\ UNCHANGED excused
    \/ /\ ~Serialises(page) /\ typed = <<>>
       /\ queue' = Append(queue, [id |-> id, seq |-> 0, kind |-> "event"])
       /\ UNCHANGED <<rc, flight, typed, limit, excused>>
    \/ /\ ~Serialises(page) /\ typed # <<>>
       /\ excused' = excused \cup {id} /\ typed' = Disarmed
       /\ UNCHANGED <<rc, flight, queue, limit>>

OnClick ==
    /\ UserMay("click") /\ acts' = acts + 1
    /\ ClickStays(acts + 1)
    /\ UNCHANGED <<habit, page, changes, form, delay, scrolled, stage, drain, subm, marks, popover,
                   early>>

\* handleChange of a select, handleKeydown away from a text field.
HandleChange ==
    /\ UserMay("select") /\ acts' = acts + 1
    /\ Enqueue(acts + 1, "event")
    /\ UNCHANGED <<habit, page, changes, form, delay, typed, scrolled, stage, drain, limit, subm,
                   marks, popover, early, excused>>

\* handleNavigate within the document (popstate, hashchange, the router).
OnNavigate ==
    /\ UserMay("navigate") /\ acts' = acts + 1
    /\ Enqueue(acts + 1, "navigate")
    /\ UNCHANGED <<habit, page, changes, form, delay, typed, scrolled, stage, drain, limit, subm,
                   marks, popover, early, excused>>

\* What a handler that records at once does; the serializer throws on a page
\* past its limits and the event is gone.
RecordNow(id) ==
    IF Serialises(page)
    THEN /\ rc' = RecordEventSync(FlushInputTimeouts(rc), id)
         /\ typed' = <<>>
         /\ limit' = LimitReached(rc')
         /\ UNCHANGED excused
    ELSE /\ excused' = excused \cup {id} /\ typed' = Disarmed
         /\ UNCHANGED <<rc, limit>>

\* handleClick on a link.
HandleLink ==
    /\ UserMay("link") /\ acts' = acts + 1
    /\ RecordNow(acts + 1)
    /\ UNCHANGED <<habit, page, changes, form, delay, flight, queue, scrolled, stage, drain, subm,
                   marks, popover, early>>

\* handleInput: each further key restarts the timer of the field.
HandleInput(f) ==
    /\ UserMay("type") /\ acts' = acts + 1
    /\ ~\E i \in DOMAIN typed : typed[i].field = f
    /\ typed' = Append(typed, [field |-> f, id |-> acts + 1, armed |-> TRUE])
    /\ UNCHANGED <<habit, page, changes, form, delay, rc, flight, queue, scrolled, stage, drain, limit,
                   subm, marks, popover, early, excused>>

InputTimer ==
    /\ typed # <<>> /\ OwnTask /\ stage # "done"
    /\ \E i \in DOMAIN typed :
          /\ typed[i].armed
          /\ Enqueue(typed[i].id, "event")
          /\ typed' = RemoveAt(typed, i)
    /\ UNCHANGED <<habit, page, changes, form, delay, scrolled, stage, drain, limit, subm, marks,
                   popover, acts, early, excused>>

HandleScroll ==
    /\ UserMay("scroll") /\ scrolled = 0
    /\ acts' = acts + 1 /\ scrolled' = acts + 1
    /\ UNCHANGED <<habit, page, changes, form, delay, rc, flight, queue, typed, stage, drain, limit,
                   subm, marks, popover, early, excused>>

ScrollTimer ==
    /\ scrolled # 0 /\ OwnTask /\ stage # "done"
    /\ Enqueue(scrolled, "event")
    /\ scrolled' = 0
    /\ UNCHANGED <<habit, page, changes, form, delay, typed, stage, drain, limit, subm, marks,
                   popover, acts, early, excused>>

---------------------------------------------------------------------------
(* Submissions: the browser answers Enter in a form by a click on the default *)
(* button and a submit event, a click on the button by a submit event.        *)

HandleEnter ==
    /\ UserMay("enter") /\ acts' = acts + 1
    /\ RecordNow(acts + 1)
    /\ subm' = [id |-> acts + 1, by |-> "enter", left |-> <<"click", "submit">>]
    /\ UNCHANGED <<habit, page, changes, form, delay, flight, queue, scrolled, stage, drain, marks,
                   popover, early>>

HandleSubmitClick ==
    /\ UserMay("submit") /\ acts' = acts + 1
    /\ RecordNow(acts + 1)
    /\ subm' = [id |-> acts + 1, by |-> "button", left |-> <<"submit">>]
    /\ UNCHANGED <<habit, page, changes, form, delay, flight, queue, scrolled, stage, drain, marks,
                   popover, early>>

\* The handlers compare Date.now() with the time of the Enter or of the click.
Within(ms) == delay = "quick" \/ (delay = "slow" /\ ms = 100)

\* isSyntheticSubmitterClickFromEnter; its query finds only a button with an
\* explicit type.
IsSyntheticClick == subm.by = "enter" /\ Within(100) /\ form = "typed"

\* handleSubmit's two early returns.
IsKnownSubmit == Within(50)

SubmissionAdvances == subm' = IF Len(subm.left) = 1 THEN NoSubmission
                              ELSE [subm EXCEPT !.left = Tail(@)]

BrowserSubmits ==
    /\ subm # NoSubmission /\ ~StopIsDue /\ stage # "done"
    /\ SubmissionAdvances
    /\ IF \/ Head(subm.left) = "click" /\ IsSyntheticClick
          \/ Head(subm.left) = "submit" /\ IsKnownSubmit
       THEN UNCHANGED <<rc, typed, limit, excused>>
       ELSE RecordNow(subm.id)
    /\ UNCHANGED <<habit, page, changes, form, delay, flight, queue, scrolled, stage, drain, marks,
                   popover, acts, early>>

---------------------------------------------------------------------------
(* Frames come, tasks run. *)

FinalizeStop(r) ==
    /\ stage' = "done" /\ drain' = 0
    /\ rc' = [r EXCEPT !.snaps = SortSeq(@, LAMBDA a, b : a.seq < b.seq)]
    /\ typed' = <<>> /\ scrolled' = 0 /\ subm' = NoSubmission /\ popover' = Closed
    /\ flight' = {} /\ queue' = <<>>
    /\ UNCHANGED limit

\* The end of captureSnapshot: it stores what it has; the final one ends the stop.
Store(c, content) ==
    LET r == PushSnapshot(rc, Resolved(c, content)) IN
    IF c.phase = "final"
    THEN FinalizeStop(r)
    ELSE /\ rc' = r
         /\ flight' = flight \ {c}
         /\ UNCHANGED <<queue, typed, scrolled, stage, drain, limit, subm, popover>>

\* requestAggregateFromBackground answers, with every frame or not.
AggregateAnswers ==
    /\ OwnTask
    /\ \E c \in flight : \E content \in {Whole(c.page), Partial(c.page)} :
          Store(c, content)
    /\ UNCHANGED <<habit, page, changes, form, delay, marks, acts, early, excused>>

\* A slip: without the timeout a capture waits for an answer.
AggregateTimesOutNever == FALSE /\ UNCHANGED captureVars

\* 'frame aggregation timeout': the local document is stored.
AggregateTimesOut ==
    /\ OwnTask
    /\ \E c \in flight : Store(c, Partial(c.page))
    /\ UNCHANGED <<habit, page, changes, form, delay, marks, acts, early, excused>>

InFlight(seq) == \E c \in flight : c.seq = seq

\* linkSnapshotToNextEvent: through to the stored copy, by its number.
Linked(r, seq) ==
    [r EXCEPT !.snaps = [i \in DOMAIN @ |->
        IF @[i].seq = seq /\ @[i].phase = "before-action"
        THEN [@[i] EXCEPT !.action = Len(r.events) + 1] ELSE @[i]]]

TaskDone ==
    /\ queue' = Tail(queue)
    /\ drain' = IF drain > 0 THEN drain - 1 ELSE 0

\* The head of the queue has its snapshot: the event is stored.
QueueTask ==
    /\ queue # <<>> /\ stage # "done"
    /\ LET t == Head(queue)
           failed == t.seq = 0 /\ t.kind # "initial" IN
       /\ ~InFlight(t.seq) \/ failed
       /\ rc' = IF t.kind = "initial" THEN rc
                ELSE IF failed THEN (IF t.kind = "navigate" THEN PushEvent(rc, t.id) ELSE rc)
                ELSE PushEvent(Linked(rc, t.seq), t.id)
       /\ excused' = IF failed /\ t.kind # "navigate" THEN excused \cup {t.id} ELSE excused
       /\ limit' = LimitReached(rc')
       /\ TaskDone
    /\ UNCHANGED <<habit, page, changes, form, delay, flight, typed, scrolled, stage, subm, marks,
                   popover, acts, early>>

\* 'navigate snapshot timed out': the event is stored without its snapshot.
NavigateTimesOut ==
    /\ queue # <<>> /\ stage # "done"
    /\ LET t == Head(queue) IN
       /\ t.kind = "navigate" /\ InFlight(t.seq)
       /\ rc' = PushEvent(rc, t.id)
       /\ limit' = LimitReached(rc')
       /\ TaskDone
    /\ UNCHANGED <<habit, page, changes, form, delay, flight, typed, scrolled, stage, subm, marks,
                   popover, acts, early, excused>>

---------------------------------------------------------------------------
(* stopAsync, for STOP_RECORDING or a limit. *)

\* The flush serializes the page: past the limits it throws, and the promise of
\* the stop is rejected with the recording still open.
StopBegin ==
    /\ stage \in {"none", "rejected"} /\ (limit \/ subm = NoSubmission)
    /\ early' = IF stage = "none" THEN acts ELSE early
    /\ IF Serialises(page) \/ (typed = <<>> /\ scrolled = 0)
       THEN /\ stage' = "draining"
            /\ rc' = FlushScrollTimeouts(FlushInputTimeouts(rc))
            /\ typed' = <<>> /\ scrolled' = 0
            /\ drain' = Len(queue)
       ELSE /\ stage' = "rejected"
            /\ typed' = Disarmed
            /\ UNCHANGED <<rc, scrolled, drain>>
    /\ UNCHANGED <<habit, page, changes, form, delay, flight, queue, limit, subm, marks, popover, acts,
                   excused>>

\* 'capture-error' when the page is past the limits now.
StopFinal ==
    /\ stage = "draining" /\ drain = 0
    /\ IF Serialises(page)
       THEN /\ stage' = "final"
            /\ StartCapture(0, "final")
            /\ UNCHANGED <<queue, typed, scrolled, drain, limit, subm, popover>>
       ELSE FinalizeStop(rc)
    /\ UNCHANGED <<habit, page, changes, form, delay, marks, acts, early, excused>>

---------------------------------------------------------------------------
(* The mark overlay; a click in marking mode is recorded like any other,     *)
(* for the recorder's listener was registered first.                         *)

OverlayMay == stage # "done" /\ OwnTask

\* openPopover: an element that has a mark is opened with it.
OpenPopover(e) ==
    /\ OverlayMay /\ UserMay("mark") /\ acts' = acts + 1
    /\ ClickStays(acts + 1)
    /\ popover' = [el |-> e,
                   editing |-> IF \E i \in DOMAIN marks : marks[i].el = e
                               THEN (CHOOSE m \in Range(marks) : m.el = e).id
                               ELSE 0]
    /\ UNCHANGED <<habit, page, changes, form, delay, scrolled, stage, drain, subm, marks, early>>

NewMarkId == 1 + FoldLeft(LAMBDA a, m : IF m.id > a THEN m.id ELSE a, 0, marks)

\* saveSelectedMark and addPageMark; past maxMarks it throws and stays open.
SaveMark ==
    /\ OverlayMay /\ popover # Closed
    /\ \/ /\ popover.editing # 0 /\ popover' = Closed
          /\ UNCHANGED marks
       \/ /\ popover.editing = 0 /\ Len(marks) < MaxMarks
          /\ marks' = Append(marks, [id |-> NewMarkId, el |-> popover.el])
          /\ popover' = Closed
    /\ UNCHANGED <<habit, page, changes, form, delay, rc, flight, queue, typed, scrolled, stage, drain,
                   limit, subm, acts, early, excused>>

RemoveMark ==
    /\ OverlayMay /\ popover # Closed
    /\ marks' = SelectSeq(marks, LAMBDA m : m.id # popover.editing)
    /\ popover' = Closed
    /\ UNCHANGED <<habit, page, changes, form, delay, rc, flight, queue, typed, scrolled, stage, drain,
                   limit, subm, acts, early, excused>>

---------------------------------------------------------------------------
CaptureProgress ==
    QueueTask \/ AggregateTimesOut \/ BrowserSubmits \/ StopFinal \/ (StopIsDue /\ StopBegin)

CaptureNext ==
    \/ PageChanges \/ OnClick \/ HandleChange \/ OnNavigate \/ HandleLink
    \/ \E f \in Fields : HandleInput(f)
    \/ InputTimer \/ HandleScroll \/ ScrollTimer
    \/ HandleEnter \/ HandleSubmitClick \/ BrowserSubmits
    \/ AggregateAnswers \/ AggregateTimesOut \/ QueueTask \/ NavigateTimesOut
    \/ StopBegin \/ StopFinal
    \/ \E e \in Elements : OpenPopover(e)
    \/ SaveMark \/ RemoveMark

CaptureSpec == CaptureInit /\ [][CaptureNext]_captureVars /\ WF_captureVars(CaptureProgress)

---------------------------------------------------------------------------
(* The reader of a recording. *)

NoContent == <<"none">>

\* expandSnapshotReferences: in the order of the array, each reference and each
\* patch needs content read before it.
ExpandSnapshotReferences(snaps) ==
    FoldLeft(LAMBDA acc, s :
        LET known == {c.content : c \in {d \in acc.content : d.seq = s.to}}
            found == IF s.kind = "full" THEN s.data[1]
                     ELSE IF known = {} THEN NoContent
                     ELSE LET c == CHOOSE k \in known : TRUE IN
                          IF s.kind = "ref" THEN c
                          ELSE IF c = s.data[1] THEN s.data[2] ELSE <<"garbled">> IN
        [ok |-> acc.ok /\ found # NoContent,
         content |-> IF s.kind = "ref" THEN acc.content
                     ELSE acc.content \cup {[seq |-> s.seq, content |-> found]},
         read |-> Append(acc.read, found)],
        [ok |-> TRUE, content |-> {}, read |-> <<>>], snaps)

---------------------------------------------------------------------------
(* Properties *)

\* Snapshots have numbers of their own, taken from the counter; the events are
\* user actions; no more marks than allowed, and one per element (content.ts).
CaptureTypeOK ==
    /\ page \in Pages
    /\ stage \in {"none", "draining", "final", "rejected", "done"}
    /\ \A i, j \in DOMAIN rc.snaps : i # j => rc.snaps[i].seq # rc.snaps[j].seq
    /\ \A i \in DOMAIN rc.snaps : rc.snaps[i].seq < rc.next
    /\ \A i \in DOMAIN rc.events : rc.events[i] \in 1..acts
    /\ Len(marks) <= MaxMarks
    /\ \A i, j \in DOMAIN marks : i # j => marks[i].el # marks[j].el

\* The action a snapshot is linked to is the one it was taken before, however
\* long its frames took and whatever was recorded meanwhile
\* (linkSnapshotToNextEvent, captureLocalSnapshot).
LinksNameTheirEvent ==
    \A i \in DOMAIN rc.snaps :
        LET s == rc.snaps[i] IN
        s.action # 0 => s.action \in DOMAIN rc.events /\ rc.events[s.action] = s.of

\* What the server and the generator read back of a recording is what the
\* recorder saw, snapshot by snapshot, unless the recording is refused
\* (deduplicateSnapshot against expandSnapshotReferences).
ReadAsSeen ==
    stage = "done" =>
        LET e == ExpandSnapshotReferences(rc.snaps) IN
        e.ok => \A i \in DOMAIN rc.snaps : e.read[i] = rc.snaps[i].saw

\* A recording whose snapshots were stored in the order of their numbers is
\* never refused (finalizeStop's sort leaves it as the baseline knew it).
InOrderIsReadable ==
    (stage = "done" /\ \A i \in 1..(Len(rc.pushed) - 1) : rc.pushed[i] < rc.pushed[i + 1])
        => ExpandSnapshotReferences(rc.snaps).ok

\* Every action made before the first stop is in the finished recording, unless
\* its snapshot could not be taken (stopAsync flushes and drains).
EarlierActionsKept ==
    stage = "done" =>
        \A id \in 1..early : id \in excused \/ \E k \in DOMAIN rc.events : rc.events[k] = id

\* No action is recorded twice: the browser's echoes of a submission are
\* recognised while they come in time and the button has its type written out
\* (handleClick, handleSubmit).
RecordedOnce ==
    (form = "typed" /\ delay = "quick") =>
        \A i, j \in DOMAIN rc.events : i # j => rc.events[i] # rc.events[j]

\* What a recording says of the page and the person: types hold, snapshots belong to
\* their actions and read back as seen, and each action is there, once.
CaptureIsFaithful ==
  /\ CaptureTypeOK
  /\ LinksNameTheirEvent
  /\ ReadAsSeen
  /\ InOrderIsReadable
  /\ EarlierActionsKept
  /\ RecordedOnce

=============================================================================
