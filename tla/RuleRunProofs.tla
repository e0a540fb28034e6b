--------------------------- MODULE RuleRunProofs ---------------------------
(***************************************************************************)
(* A rule run over several pages, for any rules, pages and bounds: the     *)
(* light state in sessionStorage, the context the host was told of and the *)
(* calls in progress agree at every moment, whichever page dies when and   *)
(* whatever messages die with it, so that no completed step is done again, *)
(* a success has the outputs of all pages, and nothing runs outside the    *)
(* domain of the rule.  And the handlers of the actions of a rule, for any *)
(* rules and number of attempts: whatever the page does and whichever      *)
(* attempts are given up, nothing stays pressed, and a rule that succeeds  *)
(* with none given up wrote and sent what its steps say.                   *)
(***************************************************************************)
EXTENDS RuleRun, Actions, InductionLemmas, SequenceTheorems

-----------------------------------------------------------------------------
(* The inductive invariant.                                                *)

\* Places: a frame of a path, a path of them, one that starts at the rule's steps.
Frames == [kind : {"top", "if", "loop", "switch", "group"}, sel : Int, idx : Int]
FrameOk(f) ==
  /\ f \in Frames /\ f.idx >= 0
  /\ f.kind = "if" => f.sel \in {0, 1}
  /\ f.kind = "loop" => f.sel >= 0
  /\ f.kind \in {"top", "group"} => f.sel = 0
PathOk(p) == p \in Seq(Frames) /\ \A k \in 1..Len(p) : FrameOk(p[k])
TopFirst(p) == p # <<>> => p[1].kind = "top" /\ p[1].sel = 0

\* The lists of steps of the rule, and the one a container runs.
Lists == {Top} \cup UNION {{Body[s][c] : c \in DOMAIN Body[s]} : s \in DOMAIN Body \cap StepsOf(rule)}
ChildList(s, sel) ==
  IF StepKind[s] = "switch" THEN CaseSteps(s, sel)
  ELSE Body[s][IF StepKind[s] = "if" THEN sel ELSE 0]

\* A path that leads through the rule: L are the lists it passes.
Leads(q, L) ==
  /\ L[1] = Top /\ q[1].kind = "top"
  /\ \A k \in 1..(Len(q) - 1) :
       /\ q[k].idx + 1 \in DOMAIN L[k]
       /\ StepKind[L[k][q[k].idx + 1]] = q[k + 1].kind /\ q[k + 1].kind \in Containers
       /\ L[k + 1] = ChildList(L[k][q[k].idx + 1], q[k + 1].sel)
Fits(q) == q # <<>> /\ PathOk(q) /\ \E L \in [1..Len(q) -> Lists] : Leads(q, L)

\* The calls in progress hang together.
Calls == [list : Lists, owner : {"rule"} \cup StepsOf(rule), kind : {"top", "if", "loop", "switch", "group"},
          sel : Int, pending : Seq(Frames), idx : Int]
CallOk(c) == c \in Calls /\ FrameOk(Frame(c.kind, c.sel, c.idx)) /\ PathOk(c.pending)
Hangs(a, b) ==
  /\ a.idx + 1 \in DOMAIN a.list /\ b.owner = a.list[a.idx + 1]
  /\ StepKind[b.owner] = b.kind /\ b.kind \in Containers
  /\ b.list = ChildList(b.owner, b.sel)
StackOk(st) ==
  /\ st \in Seq(Calls) /\ \A j \in 1..Len(st) : CallOk(st[j])
  /\ st # <<>> => st[1].list = Top /\ st[1].kind = "top"
  /\ \A j \in 1..(Len(st) - 1) : Hangs(st[j], st[j + 1])
PathOf(st) == [j \in 1..Len(st) |-> Frame(st[j].kind, st[j].sel, st[j].idx)]

\* The order in which places are reached; a place is not before those below it.
Sooner(a, b) == a.sel < b.sel \/ (a.sel = b.sel /\ a.idx < b.idx)
Below(p, q) ==
  \E n \in 1..Len(p) : /\ n <= Len(q) /\ Sooner(p[n], q[n])
                       /\ \A m \in 1..(n - 1) : p[m] = q[m]
AllBelow(q) == \A p \in completed : Below(p, q)

\* The first step not done, as sessionStorage has it.
Frontier == NextPendingPath(session.path)

\* The messages of checkpoints that are under way or with the host.
CheckpointMessages == [type : {"checkpoint"}, realm : Nat, path : Seq(Frames), ctx : SUBSET Paths]
CompleteMessages == [type : {"complete"}, realm : Nat, status : Statuses, ctx : SUBSET Paths]
Sent(w) == {w[i] : i \in 1..Len(w)}
Told == {m \in Sent(wire) \cup {host.checkpoint} : m.type = "checkpoint"}
Hosts ==
  [armed : BOOLEAN, settled : BOOLEAN, result : Statuses \cup {"none"}, data : SUBSET Paths,
   hops : 0..(HopLimit + 1), checkpoint : CheckpointMessages \cup {NoCheckpoint}, queue : Seq(Pages),
   resuming : BOOLEAN, abort : {"no", "grace", "over"}]
TopOutputs == {p \in outputs : Len(p) = 1}

Points == {"none", "beforeAll", "main", "leaf", "afterAll", "onError", "cleanup", "finish", "report", "ended"}
Outcomes == [status : Statuses, fatal : BOOLEAN]

\* The message of a checkpoint at p, and the step that writes one.
Note(p) == [type |-> "checkpoint", realm |-> navs, path |-> p, ctx |-> ctx']
Writes(p) == \E url, policy : OnCheckpoint(p, url, policy, ctx')

RealmTyped ==
  /\ rule \in Rules /\ lateHook \in {"no", "written", "rerun"}
  /\ pc \in Points
  /\ attempt \in Nat /\ aborted \in BOOLEAN /\ outcome \in Outcomes
  /\ page \in Pages /\ navs \in Nat
  /\ resumeAt # <<>> => Fits(resumeAt)
SessionTyped ==
  DOMAIN session = {"path", "url", "policy", "status"} /\ session.path \in Seq(Frames) /\ Fits(Frontier)
DataTyped ==
  /\ ctx \subseteq outputs /\ outputs \subseteq completed
  /\ \A p \in completed : PathOk(p) /\ p # <<>> /\ TopFirst(p)
  /\ \A m \in Sent(wire) \cup {host.checkpoint} : m.ctx \subseteq outputs
HostTyped ==
  /\ wire \in Seq(CheckpointMessages \cup CompleteMessages)
  /\ host \in Hosts
  /\ host.settled \/ host.hops <= HopLimit
  /\ \A m \in Told : TopFirst(m.path)
RunTyped == RealmTyped /\ SessionTyped /\ DataTyped /\ HostTyped

\* Where the executor is.
PlaceSound ==
  /\ StackOk(stack)
  /\ stack # <<>> <=> pc \in {"main", "leaf"}
  /\ pc = "leaf" => HasStep /\ StepKind[CurStep] = "leaf"
  /\ pc \in {"beforeAll", "main", "leaf"} => lateHook # "written"
  /\ host.resuming => ~Running
  /\ ~host.armed => /\ pc = "none" /\ wire = <<>> /\ session = NoSession /\ completed = {}
                    /\ host.checkpoint = NoCheckpoint /\ lateHook = "no" /\ ~host.resuming
                    /\ host.queue = <<>>

\* On the way to where it resumes the executor has the rest of the path with it.
Along(st) ==
  LET k == Len(st) IN
  /\ k < Len(resumeAt)
  /\ \A j \in 1..k : PathOf(st)[j] = resumeAt[j]
  /\ st[k].pending = SubSeq(resumeAt, k, Len(resumeAt))
  /\ \E L \in [1..Len(resumeAt) -> Lists] : Leads(resumeAt, L) /\ st[k].list = L[k]
Reached(st) == AllBelow(PathOf(st)) \/ (Along(st) /\ AllBelow(resumeAt))

\* No context is of a place after c, and of c only when this is not a leaf that leaves output.
Outputless(c) == c + 1 \in DOMAIN Top => StepKind[Top[c + 1]] \in Containers \/ Top[c + 1] \in Navigating
ToldUpTo(c) == \A m \in Told : m.path # <<>> => \/ m.path[1].idx < c
                                                \/ m.path[1].idx = c /\ Outputless(c)

\* What is done lies before where the run is, and before where it would resume.
DoneSound ==
  lateHook = "no" =>
    /\ session.status = "running" => AllBelow(Frontier) /\ ToldUpTo(Frontier[1].idx)
    /\ pc = "beforeAll" => /\ session.status = "running"
                           /\ IF resumeAt = <<>> THEN session.path = <<>> ELSE resumeAt = Frontier
    /\ pc \in {"main", "leaf"} => /\ Reached(stack)
                                  /\ ToldUpTo(stack[1].idx)
    /\ pc = "leaf" /\ CurStep \in Navigating => session.path = CurPath

\* Which outputs a context has.
ContextSound ==
  /\ pc # "none" /\ lateHook # "rerun" => TopOutputs \subseteq ctx
  /\ lateHook = "no" => \A m \in Told : \A p \in TopOutputs :
       p \in m.ctx \/ m.path = <<>> \/ m.path[1].idx < p[1].idx
  /\ \A m \in Sent(wire) : m.type = "complete" /\ m.status = "success" =>
       /\ pc \in {"none", "ended"} /\ session.status # "running"
       /\ lateHook # "rerun" => TopOutputs \subseteq m.ctx
  /\ host.result = "success" => host.settled /\ (lateHook # "rerun" => TopOutputs \subseteq host.data)

RunInv == RunTyped /\ PlaceSound /\ DoneSound /\ ContextSound /\ RunsOnlyInDomain

-----------------------------------------------------------------------------
(* The rule, its lists and the calls in progress.                          *)

\* What WellFormed says of the rule of a task.
LEMMA RuleShape ==
  ASSUME rule \in Rules
  PROVE  /\ Top \in Seq(StepsOf(rule))
         /\ \A s \in StepsOf(rule) : StepKind[s] \in Kinds
         /\ \A l \in Lists : l \in Seq(StepsOf(rule))
         /\ \A s \in StepsOf(rule) : StepKind[s] = "loop" => LoopCount[s] \in Nat
<1>1. WellFormed(rule)
  BY RuleRunAssumption
<1>2. Top \in Seq(StepsOf(rule))
  BY <1>1 DEF WellFormed, Top
<1>3. ASSUME NEW l \in Lists PROVE l \in Seq(StepsOf(rule))
  BY <1>1, <1>2 DEF WellFormed, Lists, Body
<1>4. \A s \in StepsOf(rule) : StepKind[s] \in Kinds
  BY RuleRunAssumption DEF StepsOf
<1>5. \A s \in StepsOf(rule) : StepKind[s] = "loop" => LoopCount[s] \in Nat
  BY <1>1 DEF WellFormed, LoopCount
<1> QED BY <1>2, <1>3, <1>4, <1>5

\* The list a container runs is a list of steps of the rule, for any selector a path may have.
LEMMA ChildIsList ==
  ASSUME rule \in Rules, NEW s \in StepsOf(rule), StepKind[s] \in Containers, NEW sel,
         StepKind[s] = "if" => sel \in {0, 1}
  PROVE  ChildList(s, sel) \in Lists
<1>1. WellFormed(rule)
  BY RuleRunAssumption
<1>2. s \in DOMAIN Body /\ Selectors(s, DOMAIN Body[s])
  BY <1>1 DEF WellFormed, Body, StepsOf
<1>3. \A c \in DOMAIN Body[s] : Body[s][c] \in Lists
  BY <1>2 DEF Lists
<1>4. CASE StepKind[s] = "switch"
  BY <1>2, <1>3, <1>4 DEF Selectors, ChildList, CaseSteps
<1>5. CASE StepKind[s] = "if"
  BY <1>2, <1>3, <1>5 DEF Selectors, ChildList
<1>6. CASE StepKind[s] \notin {"if", "switch"}
  BY <1>2, <1>3, <1>6 DEF Selectors, ChildList
<1> QED BY <1>4, <1>5, <1>6

\* The rule of a task stays, and with it its lists,
LEMMA ListsSame ==
  ASSUME rule' = rule
  PROVE  /\ Top' = Top /\ Body' = Body /\ LoopCount' = LoopCount /\ Hooks' = Hooks
         /\ Lists' = Lists /\ Calls' = Calls
         /\ \A s, sel : ChildList(s, sel)' = ChildList(s, sel)
<1>1. Top' = Top /\ Body' = Body /\ LoopCount' = LoopCount /\ Hooks' = Hooks
  BY DEF Top, Body, LoopCount, Hooks
<1>2. Lists' = Lists
  BY <1>1 DEF Lists
<1>3. Calls' = Calls
  BY <1>2 DEF Calls
<1>4. \A s, sel : ChildList(s, sel)' = ChildList(s, sel)
  BY <1>1 DEF ChildList, CaseSteps
<1> QED BY <1>1, <1>2, <1>3, <1>4

\* the places they have and the calls they allow.
LEMMA RuleSame ==
  ASSUME rule' = rule
  PROVE  /\ \A q, L : Leads(q, L)' = Leads(q, L)
         /\ \A q : Fits(q)' = Fits(q)
         /\ \A st : StackOk(st)' = StackOk(st)
         /\ \A c : Outputless(c)' = Outputless(c)
<1>1. \A q, L : Leads(q, L)' = Leads(q, L)
  BY ListsSame, ZenonT(60) DEF Leads
<1>2. \A q : Fits(q)' = Fits(q)
  BY <1>1, ListsSame DEF Fits
<1>3. \A c : CallOk(c)' = CallOk(c)
  BY ListsSame DEF CallOk
<1>4. \A a, b : Hangs(a, b)' = Hangs(a, b)
  BY ListsSame DEF Hangs
<1>5. \A st : StackOk(st)' = StackOk(st)
  BY <1>3, <1>4, ListsSame DEF StackOk
<1>6. \A c : Outputless(c)' = Outputless(c)
  BY ListsSame DEF Outputless
<1> QED BY <1>1, <1>2, <1>5, <1>6

-----------------------------------------------------------------------------
(* Paths and their order.                                                  *)

\* The path of the calls in progress, frame by frame.
LEMMA PathOfFields ==
  ASSUME NEW st, StackOk(st)
  PROVE  /\ st \in Seq(Calls) /\ Len(st) \in Nat
         /\ PathOf(st) \in Seq(Frames) /\ Len(PathOf(st)) = Len(st) /\ DOMAIN PathOf(st) = 1..Len(st)
         /\ \A j \in 1..Len(st) : /\ PathOf(st)[j] = Frame(st[j].kind, st[j].sel, st[j].idx)
                                  /\ FrameOk(PathOf(st)[j])
                                  /\ st[j] \in Calls
         /\ st # <<>> => st[1].list = Top /\ PathOf(st)[1].kind = "top"
<1>1. st \in Seq(Calls) /\ Len(st) \in Nat /\ \A j \in 1..Len(st) : CallOk(st[j])
  BY DEF StackOk
<1>2. \A j \in 1..Len(st) : /\ PathOf(st)[j] = Frame(st[j].kind, st[j].sel, st[j].idx)
                            /\ FrameOk(PathOf(st)[j]) /\ st[j] \in Calls
  BY <1>1 DEF PathOf, CallOk
<1>3. \A j \in 1..Len(st) : PathOf(st)[j] \in Frames
  BY <1>2 DEF FrameOk
<1>4. PathOf(st) \in Seq(Frames) /\ Len(PathOf(st)) = Len(st) /\ DOMAIN PathOf(st) = 1..Len(st)
  <2>1. PathOf(st) = [j \in 1..Len(st) |-> Frame(st[j].kind, st[j].sel, st[j].idx)]
    BY DEF PathOf
  <2>2. \A j \in 1..Len(st) : Frame(st[j].kind, st[j].sel, st[j].idx) \in Frames
    BY <1>2, <1>3
  <2> QED BY <1>1, <2>1, <2>2
<1>5. ASSUME st # <<>> PROVE st[1].list = Top /\ PathOf(st)[1].kind = "top"
  <2>1. 1 \in 1..Len(st)
    BY <1>1, <1>5
  <2>2. st[1].list = Top /\ st[1].kind = "top"
    BY <1>5 DEF StackOk
  <2>3. PathOf(st)[1] = Frame(st[1].kind, st[1].sel, st[1].idx)
    BY <1>2, <2>1
  <2> QED BY <2>2, <2>3 DEF Frame
<1> QED BY <1>1, <1>2, <1>4, <1>5

\* The calls in progress are at a place of the rule.
LEMMA StackFits ==
  ASSUME rule \in Rules, NEW st, StackOk(st), st # <<>>
  PROVE  /\ Fits(PathOf(st)) /\ PathOf(st) # <<>> /\ TopFirst(PathOf(st))
<1> DEFINE L == [j \in 1..Len(st) |-> st[j].list]
           q == PathOf(st)
<1>1. /\ st \in Seq(Calls) /\ Len(st) \in Nat /\ q \in Seq(Frames) /\ Len(q) = Len(st)
      /\ \A j \in 1..Len(st) : /\ q[j] = Frame(st[j].kind, st[j].sel, st[j].idx) /\ FrameOk(q[j]) /\ st[j] \in Calls
      /\ st[1].list = Top /\ q[1].kind = "top" /\ Len(st) > 0
  BY PathOfFields
<1>2. q # <<>> /\ PathOk(q)
  BY <1>1 DEF PathOk
<1>3. L \in [1..Len(q) -> Lists]
  BY <1>1 DEF Calls
<1>4. ASSUME NEW k \in 1..(Len(q) - 1)
      PROVE  /\ q[k].idx + 1 \in DOMAIN L[k]
             /\ StepKind[L[k][q[k].idx + 1]] = q[k + 1].kind /\ q[k + 1].kind \in Containers
             /\ L[k + 1] = ChildList(L[k][q[k].idx + 1], q[k + 1].sel)
  <2>1. k \in 1..Len(st) /\ k + 1 \in 1..Len(st) /\ k \in 1..(Len(st) - 1)
    BY <1>1
  <2>2. Hangs(st[k], st[k + 1])
    BY <2>1 DEF StackOk
  <2>3. q[k].idx = st[k].idx /\ q[k + 1].kind = st[k + 1].kind /\ q[k + 1].sel = st[k + 1].sel
    <3>1. q[k] = Frame(st[k].kind, st[k].sel, st[k].idx)
      BY <1>1, <2>1
    <3>2. q[k + 1] = Frame(st[k + 1].kind, st[k + 1].sel, st[k + 1].idx)
      BY <1>1, <2>1
    <3> QED BY <3>1, <3>2 DEF Frame
  <2>4. L[k] = st[k].list /\ L[k + 1] = st[k + 1].list
    BY <2>1
  <2> QED BY <2>2, <2>3, <2>4 DEF Hangs
<1>5. Leads(q, L)
  <2>1. L[1] = Top /\ q[1].kind = "top"
    BY <1>1
  <2> HIDE DEF L, q
  <2> QED BY <1>4, <2>1 DEF Leads
<1>6. TopFirst(q)
  BY <1>1 DEF TopFirst, FrameOk
<1> QED BY <1>2, <1>3, <1>5, <1>6 DEF Fits

\* The same path with another last index.
LEMMA LastMoved ==
  ASSUME NEW q \in Seq(Frames), q # <<>>, NEW d \in Int
  PROVE  /\ [q EXCEPT ![Len(q)].idx = @ + d] \in Seq(Frames)
         /\ Len([q EXCEPT ![Len(q)].idx = @ + d]) = Len(q) /\ Len(q) \in Nat \ {0}
         /\ \A k \in 1..(Len(q) - 1) : [q EXCEPT ![Len(q)].idx = @ + d][k] = q[k]
         /\ [q EXCEPT ![Len(q)].idx = @ + d][Len(q)] = Frame(q[Len(q)].kind, q[Len(q)].sel, q[Len(q)].idx + d)
         /\ q[Len(q)] \in Frames
<1>1. Len(q) \in Nat \ {0} /\ DOMAIN q = 1..Len(q) /\ Len(q) \in 1..Len(q) /\ q[Len(q)] \in Frames
  OBVIOUS
<1> DEFINE f == [q[Len(q)] EXCEPT !.idx = @ + d]
           r == [q EXCEPT ![Len(q)].idx = @ + d]
<1>2. f = Frame(q[Len(q)].kind, q[Len(q)].sel, q[Len(q)].idx + d) /\ f \in Frames
  BY <1>1 DEF Frames, Frame
<1>3. r = [k \in 1..Len(q) |-> IF k = Len(q) THEN f ELSE q[k]]
  BY <1>1
<1> HIDE DEF f
<1>4. r \in Seq(Frames) /\ Len(r) = Len(q)
  <2>1. \A k \in 1..Len(q) : q[k] \in Frames
    OBVIOUS
  <2> QED BY <1>1, <1>2, <1>3, <2>1
<1>5. r[Len(q)] = f /\ \A k \in 1..(Len(q) - 1) : r[k] = q[k]
  BY <1>1, <1>3
<1> QED BY <1>1, <1>2, <1>4, <1>5

\* nextPendingPath moves the last frame of a path on by one,
LEMMA NextFields ==
  ASSUME NEW q \in Seq(Frames)
  PROVE  /\ NextPendingPath(q) \in Seq(Frames) /\ NextPendingPath(q) # <<>>
         /\ q = <<>> => NextPendingPath(q) = <<Frame("top", 0, 0)>>
         /\ q # <<>> => /\ Len(NextPendingPath(q)) = Len(q) /\ Len(q) \in Nat \ {0}
                        /\ \A k \in 1..(Len(q) - 1) : NextPendingPath(q)[k] = q[k]
                        /\ NextPendingPath(q)[Len(q)] = Frame(q[Len(q)].kind, q[Len(q)].sel, q[Len(q)].idx + 1)
                        /\ q[Len(q)] \in Frames
<1>1. CASE q = <<>>
  BY <1>1 DEF NextPendingPath, Frames, Frame
<1>2. CASE q # <<>>
  <2>1. NextPendingPath(q) = [q EXCEPT ![Len(q)].idx = @ + 1]
    BY <1>2 DEF NextPendingPath
  <2>2. 1 \in Int
    OBVIOUS
  <2>3. /\ [q EXCEPT ![Len(q)].idx = @ + 1] \in Seq(Frames)
        /\ Len([q EXCEPT ![Len(q)].idx = @ + 1]) = Len(q) /\ Len(q) \in Nat \ {0}
        /\ \A k \in 1..(Len(q) - 1) : [q EXCEPT ![Len(q)].idx = @ + 1][k] = q[k]
        /\ [q EXCEPT ![Len(q)].idx = @ + 1][Len(q)] = Frame(q[Len(q)].kind, q[Len(q)].sel, q[Len(q)].idx + 1)
        /\ q[Len(q)] \in Frames
    BY <1>2, <2>2, LastMoved
  <2>4. NextPendingPath(q) # <<>>
    BY <2>1, <2>3
  <2> QED BY <1>2, <2>1, <2>3, <2>4
<1> QED BY <1>1, <1>2

\* and prevPendingPath takes that back.
LEMMA PrevFields ==
  ASSUME NEW q \in Seq(Frames), q # <<>>
  PROVE  /\ PrevPendingPath(q) \in Seq(Frames) /\ PrevPendingPath(q) # <<>>
         /\ NextPendingPath(PrevPendingPath(q)) = q
<1> DEFINE p == [q EXCEPT ![Len(q)].idx = @ - 1]
<1>1. p = [q EXCEPT ![Len(q)].idx = @ + (-1)]
  <2>1. q[Len(q)] \in Frames /\ DOMAIN q = 1..Len(q)
    OBVIOUS
  <2>2. q[Len(q)].idx - 1 = q[Len(q)].idx + (-1)
    BY <2>1 DEF Frames
  <2> QED BY <2>2
<1>2. /\ p \in Seq(Frames) /\ Len(p) = Len(q) /\ Len(q) \in Nat \ {0}
      /\ \A k \in 1..(Len(q) - 1) : p[k] = q[k]
      /\ p[Len(q)] = Frame(q[Len(q)].kind, q[Len(q)].sel, q[Len(q)].idx - 1)
      /\ q[Len(q)] \in Frames
  BY <1>1, LastMoved, -1 \in Int DEF Frames
<1>3. PrevPendingPath(q) = p /\ p # <<>>
  BY <1>2 DEF PrevPendingPath
<1> HIDE DEF p
<1>4. /\ NextPendingPath(p) \in Seq(Frames) /\ Len(NextPendingPath(p)) = Len(q)
      /\ \A k \in 1..(Len(q) - 1) : NextPendingPath(p)[k] = p[k]
      /\ NextPendingPath(p)[Len(q)] = Frame(p[Len(q)].kind, p[Len(q)].sel, p[Len(q)].idx + 1)
  BY <1>2, <1>3, NextFields
<1>5. Frame(p[Len(q)].kind, p[Len(q)].sel, p[Len(q)].idx + 1) = q[Len(q)]
  BY <1>2 DEF Frame, Frames
<1>6. \A k \in 1..Len(q) : NextPendingPath(p)[k] = q[k]
  BY <1>2, <1>4, <1>5
<1> QED BY <1>2, <1>3, <1>4, <1>6, SeqEqual

\* The next step of a path that fits fits, and so does the first one.
LEMMA NextFits ==
  ASSUME NEW q \in Seq(Frames), q # <<>>, NEW r \in Seq(Frames), Len(r) = Len(q), Fits(q),
         \A k \in 1..(Len(q) - 1) : r[k] = q[k], NEW i \in Nat,
         r[Len(q)] = Frame(q[Len(q)].kind, q[Len(q)].sel, i)
  PROVE  Fits(r)
<1>1. PICK L \in [1..Len(q) -> Lists] : Leads(q, L)
  BY DEF Fits
<1>2. Len(q) \in Nat \ {0} /\ PathOk(q)
  BY DEF Fits
<1>3. ASSUME NEW k \in 1..Len(q) PROVE r[k].kind = q[k].kind /\ r[k].sel = q[k].sel /\ FrameOk(r[k])
  <2>1. FrameOk(q[k])
    BY <1>2 DEF PathOk
  <2>2. CASE k = Len(q)
    BY <2>1, <2>2 DEF Frame, FrameOk, Frames
  <2>3. CASE k # Len(q)
    <3>1. k \in 1..(Len(q) - 1)
      BY <1>2, <2>3
    <3> QED BY <2>1, <3>1
  <2> QED BY <2>2, <2>3
<1>4. Leads(r, L)
  <2>1. L[1] = Top /\ r[1].kind = "top"
    BY <1>1, <1>2, <1>3 DEF Leads
  <2>2. ASSUME NEW k \in 1..(Len(r) - 1)
        PROVE  /\ r[k].idx + 1 \in DOMAIN L[k]
               /\ StepKind[L[k][r[k].idx + 1]] = r[k + 1].kind /\ r[k + 1].kind \in Containers
               /\ L[k + 1] = ChildList(L[k][r[k].idx + 1], r[k + 1].sel)
    <3>1. r[k] = q[k] /\ r[k + 1].kind = q[k + 1].kind /\ r[k + 1].sel = q[k + 1].sel
      BY <1>2, <1>3
    <3> QED BY <1>1, <3>1 DEF Leads
  <2> QED BY <2>1, <2>2 DEF Leads
<1> QED BY <1>1, <1>2, <1>3, <1>4 DEF Fits, PathOk

\* A run without a resume path begins at the first step.
LEMMA FirstFits == Fits(<<Frame("top", 0, 0)>>)
<1> DEFINE q == <<Frame("top", 0, 0)>>
<1>1. q # <<>> /\ PathOk(q) /\ Len(q) = 1 /\ q[1].kind = "top"
  BY DEF PathOk, FrameOk, Frame, Frames
<1>2. <<Top>> \in [1..Len(q) -> Lists]
  BY <1>1 DEF Lists
<1>3. Leads(q, <<Top>>)
  BY <1>1 DEF Leads
<1> QED BY <1>1, <1>2, <1>3 DEF Fits

\* Places below one that is passed.
LEMMA BelowBump ==
  ASSUME NEW p, PathOk(p), NEW q, PathOk(q), NEW r, PathOk(r), NEW j \in 1..Len(q), j <= Len(r),
         \A m \in 1..(j - 1) : r[m] = q[m], Sooner(q[j], r[j]), Below(p, q) \/ p = q
  PROVE  Below(p, r)
<1>1. Len(q) \in Nat /\ Len(p) \in Nat /\ Len(r) \in Nat
  BY DEF PathOk
<1>2. CASE p = q
  BY <1>1, <1>2 DEF Below
<1>3. CASE Below(p, q)
  <2>1. PICK n \in 1..Len(p) : n <= Len(q) /\ Sooner(p[n], q[n]) /\ \A m \in 1..(n - 1) : p[m] = q[m]
    BY <1>3 DEF Below
  <2>2. CASE n < j
    BY <1>1, <2>1, <2>2 DEF Below
  <2>3. CASE n = j
    <3>1. p[n] \in Frames /\ q[n] \in Frames /\ r[n] \in Frames
      BY <1>1, <2>1, <2>3 DEF PathOk
    <3>2. Sooner(p[n], r[n])
      BY <2>1, <2>3, <3>1 DEF Sooner, Frames
    <3> QED BY <1>1, <2>1, <2>3, <3>2 DEF Below
  <2>4. CASE n > j
    <3>1. j \in 1..Len(p) /\ p[j] = q[j] /\ \A m \in 1..(j - 1) : p[m] = r[m]
      BY <1>1, <2>1, <2>4
    <3> QED BY <1>1, <3>1 DEF Below
  <2> QED BY <1>1, <2>1, <2>2, <2>3, <2>4
<1> QED BY <1>2, <1>3

\* What lies before a place lies before the places inside it.
LEMMA BelowExtend ==
  ASSUME NEW p, NEW q, PathOk(q), NEW r, PathOk(r), Len(q) <= Len(r),
         \A m \in 1..Len(q) : r[m] = q[m], PathOk(p), Below(p, q)
  PROVE  Below(p, r)
<1>1. Len(q) \in Nat /\ Len(p) \in Nat /\ Len(r) \in Nat
  BY DEF PathOk
<1>2. PICK n \in 1..Len(p) : n <= Len(q) /\ Sooner(p[n], q[n]) /\ \A m \in 1..(n - 1) : p[m] = q[m]
  BY DEF Below
<1> QED BY <1>1, <1>2 DEF Below

\* No place lies before itself.
LEMMA NotBelowItself ==
  ASSUME NEW p, PathOk(p) PROVE ~Below(p, p)
<1>1. \A n \in 1..Len(p) : p[n].sel \in Int /\ p[n].idx \in Int
  BY DEF PathOk, FrameOk, Frames
<1> QED BY <1>1 DEF Below, Sooner

-----------------------------------------------------------------------------
(* How the calls in progress change.                                       *)

\* A call hung below the last one.
LEMMA PushOk ==
  ASSUME NEW st, StackOk(st), st # <<>>, NEW c, CallOk(c), Hangs(st[Len(st)], c)
  PROVE  /\ StackOk(Append(st, c)) /\ Len(Append(st, c)) = Len(st) + 1
         /\ \A j \in 1..Len(st) : Append(st, c)[j] = st[j]
         /\ Append(st, c)[Len(st) + 1] = c
<1> DEFINE t == Append(st, c)
<1>1. /\ st \in Seq(Calls) /\ Len(st) \in Nat /\ c \in Calls
      /\ \A j \in 1..Len(st) : CallOk(st[j])
      /\ st[1].list = Top /\ st[1].kind = "top"
      /\ \A j \in 1..(Len(st) - 1) : Hangs(st[j], st[j + 1])
  BY DEF StackOk, CallOk
<1>2. Len(st) >= 1
  BY <1>1
<1>3. t \in Seq(Calls) /\ Len(t) = Len(st) + 1 /\ t[Len(st) + 1] = c /\ \A j \in 1..Len(st) : t[j] = st[j]
  BY <1>1
<1> HIDE DEF t
<1>4. ASSUME NEW j \in 1..Len(t) PROVE CallOk(t[j])
  <2>1. CASE j = Len(st) + 1
    BY <1>3, <2>1
  <2>2. CASE j # Len(st) + 1
    <3>1. j \in 1..Len(st)
      BY <1>1, <1>3, <2>2
    <3> QED BY <1>1, <1>3, <3>1
  <2> QED BY <2>1, <2>2
<1>5. t[1].list = Top /\ t[1].kind = "top"
  BY <1>1, <1>2, <1>3
<1>6. ASSUME NEW j \in 1..(Len(t) - 1) PROVE Hangs(t[j], t[j + 1])
  <2>1. CASE j = Len(st)
    BY <1>2, <1>3, <2>1
  <2>2. CASE j # Len(st)
    <3>1. j \in 1..(Len(st) - 1) /\ j \in 1..Len(st) /\ j + 1 \in 1..Len(st)
      BY <1>1, <1>3, <2>2
    <3> QED BY <1>1, <1>3, <3>1
  <2> QED BY <2>1, <2>2
<1>7. StackOk(t)
  BY <1>3, <1>4, <1>5, <1>6 DEF StackOk
<1> QED BY <1>3, <1>7 DEF t

\* What is left when inner calls are dropped.
LEMMA PrefixOk ==
  ASSUME NEW st, StackOk(st), NEW k \in 1..Len(st)
  PROVE  /\ StackOk(SubSeq(st, 1, k)) /\ Len(SubSeq(st, 1, k)) = k /\ SubSeq(st, 1, k) # <<>>
         /\ \A j \in 1..k : SubSeq(st, 1, k)[j] = st[j]
<1> DEFINE t == SubSeq(st, 1, k)
<1>1. /\ st \in Seq(Calls) /\ Len(st) \in Nat
      /\ \A j \in 1..Len(st) : CallOk(st[j])
      /\ st # <<>> => st[1].list = Top /\ st[1].kind = "top"
      /\ \A j \in 1..(Len(st) - 1) : Hangs(st[j], st[j + 1])
  BY DEF StackOk
<1>2. st # <<>>
  BY <1>1
<1>3. t \in Seq(Calls) /\ Len(t) = k /\ \A j \in 1..k : t[j] = st[j]
  BY <1>1
<1>4. t # <<>>
  BY <1>3
<1> HIDE DEF t
<1>5. \A j \in 1..Len(t) : CallOk(t[j])
  BY <1>1, <1>3
<1>6. t[1].list = Top /\ t[1].kind = "top"
  BY <1>1, <1>2, <1>3
<1>7. \A j \in 1..(Len(t) - 1) : Hangs(t[j], t[j + 1])
  <2>1. TAKE j \in 1..(Len(t) - 1)
  <2>2. j \in 1..(Len(st) - 1) /\ j \in 1..k /\ j + 1 \in 1..k
    BY <1>1, <1>3
  <2> QED BY <1>1, <1>3, <2>2
<1>8. StackOk(t)
  BY <1>3, <1>5, <1>6, <1>7 DEF StackOk
<1> QED BY <1>3, <1>4, <1>8 DEF t

\* A call with two other fields.
LEMMA CallChanged ==
  ASSUME NEW a \in Calls, NEW x, NEW y
  PROVE  [[a EXCEPT !.idx = x] EXCEPT !.pending = y]
           = [list |-> a.list, owner |-> a.owner, kind |-> a.kind, sel |-> a.sel, pending |-> y, idx |-> x]
<1>1. a = [list |-> a.list, owner |-> a.owner, kind |-> a.kind, sel |-> a.sel, pending |-> a.pending, idx |-> a.idx]
  BY DEF Calls
<1>2. [a EXCEPT !.idx = x]
        = [list |-> a.list, owner |-> a.owner, kind |-> a.kind, sel |-> a.sel, pending |-> a.pending, idx |-> x]
  BY <1>1
<1>3. ASSUME NEW l, NEW o, NEW k, NEW s, NEW p, NEW i
      PROVE  [[list |-> l, owner |-> o, kind |-> k, sel |-> s, pending |-> p, idx |-> i] EXCEPT !.pending = y]
               = [list |-> l, owner |-> o, kind |-> k, sel |-> s, pending |-> y, idx |-> i]
  OBVIOUS
<1>4. [[list |-> a.list, owner |-> a.owner, kind |-> a.kind, sel |-> a.sel, pending |-> a.pending, idx |-> x]
        EXCEPT !.pending = y]
        = [list |-> a.list, owner |-> a.owner, kind |-> a.kind, sel |-> a.sel, pending |-> y, idx |-> x]
  BY <1>3
<1> QED BY <1>2, <1>4

\* A call has its fields.
LEMMA CallMade ==
  ASSUME NEW l \in Lists, NEW o \in {"rule"} \cup StepsOf(rule), NEW k \in {"top", "if", "loop", "switch", "group"},
         NEW s \in Int, NEW p \in Seq(Frames), NEW i \in Int
  PROVE  [list |-> l, owner |-> o, kind |-> k, sel |-> s, pending |-> p, idx |-> i] \in Calls
BY DEF Calls

\* The cursor moves on.
LEMMA AdvanceOk ==
  ASSUME NEW st, StackOk(st), st # <<>>
  PROVE  /\ StackOk(Advance(st)) /\ Len(Advance(st)) = Len(st) /\ Advance(st) # <<>>
         /\ \A j \in 1..(Len(st) - 1) : Advance(st)[j] = st[j]
         /\ Advance(st)[Len(st)].idx = st[Len(st)].idx + 1
         /\ PathOf(Advance(st)) = NextPendingPath(PathOf(st))
         /\ Len(st) \in Nat \ {0}
<1> DEFINE n == Len(st)
           a == st[n]
           p == IF a.pending # <<>> /\ a.pending[1].idx = a.idx THEN <<>> ELSE a.pending
           b == [list |-> a.list, owner |-> a.owner, kind |-> a.kind, sel |-> a.sel, pending |-> p, idx |-> a.idx + 1]
           e == [a EXCEPT !.idx = @ + 1,
                          !.pending = IF @ # <<>> /\ @[1].idx = st[Len(st)].idx THEN <<>> ELSE @]
           t == Advance(st)
<1>1. /\ st \in Seq(Calls) /\ n \in Nat \ {0}
      /\ \A j \in 1..n : CallOk(st[j])
      /\ st[1].list = Top /\ st[1].kind = "top"
      /\ \A j \in 1..(n - 1) : Hangs(st[j], st[j + 1])
  BY DEF StackOk
<1>2. CallOk(a) /\ a \in Calls
  BY <1>1 DEF CallOk
<1>3. e = b
  BY <1>2, CallChanged
<1>5. t = [st EXCEPT ![n] = b]
  <2>1. t = [st EXCEPT ![n] = e]
    BY DEF Advance
  <2> QED BY <1>3, <2>1
<1>p. p = <<>> \/ p = a.pending
  OBVIOUS
<1>b. /\ b.list = a.list /\ b.owner = a.owner /\ b.kind = a.kind /\ b.sel = a.sel /\ b.idx = a.idx + 1
      /\ b.pending = p
  OBVIOUS
<1> HIDE DEF p
<1>4. CallOk(b) /\ b \in Calls
  <2>1. PathOk(p) /\ p \in Seq(Frames)
    <3>1. PathOk(<<>>)
      BY DEF PathOk
    <3>2. PathOk(a.pending)
      BY <1>2 DEF CallOk
    <3>3. PathOk(p)
      BY <1>p, <3>1, <3>2
    <3> QED BY <3>3 DEF PathOk
  <2>2. b \in Calls
    <3>1. /\ a.list \in Lists /\ a.owner \in {"rule"} \cup StepsOf(rule) /\ a.sel \in Int /\ a.idx + 1 \in Int
          /\ a.kind \in {"top", "if", "loop", "switch", "group"}
      BY <1>2 DEF Calls
    <3> QED BY <2>1, <3>1, CallMade
  <2>3. FrameOk(Frame(b.kind, b.sel, b.idx))
    BY <1>2, <1>b DEF CallOk, FrameOk, Frame, Frames, Calls
  <2> QED BY <1>b, <2>1, <2>2, <2>3 DEF CallOk
<1> HIDE DEF b
<1>6. t \in Seq(Calls) /\ Len(t) = n /\ t[n] = b /\ \A j \in 1..(n - 1) : t[j] = st[j]
  BY <1>1, <1>4, <1>5
<1>7. t # <<>>
  BY <1>1, <1>6
<1> HIDE DEF t
<1>8. \A j \in 1..Len(t) : CallOk(t[j]) /\ t[j].list = st[j].list /\ t[j].kind = st[j].kind
                           /\ t[j].owner = st[j].owner /\ t[j].sel = st[j].sel
  <2>1. TAKE j \in 1..Len(t)
  <2>2. j = n \/ j \in 1..(n - 1)
    BY <1>1, <1>6
  <2> QED BY <1>1, <1>4, <1>6, <1>b, <2>2
<1>9. \A j \in 1..(Len(t) - 1) : Hangs(t[j], t[j + 1])
  <2>1. TAKE j \in 1..(Len(t) - 1)
  <2>2. j \in 1..(n - 1) /\ j + 1 \in 1..Len(t) /\ t[j] = st[j]
    BY <1>1, <1>6
  <2> QED BY <1>1, <1>8, <2>2 DEF Hangs
<1>10. StackOk(t)
  <2>1. 1 \in 1..Len(t)
    BY <1>1, <1>6
  <2> QED BY <1>1, <1>6, <1>8, <1>9, <2>1 DEF StackOk
<1>11. PathOf(t) = NextPendingPath(PathOf(st))
  <2>1. /\ PathOf(st) \in Seq(Frames) /\ Len(PathOf(st)) = n
        /\ \A j \in 1..n : PathOf(st)[j] = Frame(st[j].kind, st[j].sel, st[j].idx)
    BY PathOfFields
  <2>2. /\ PathOf(t) \in Seq(Frames) /\ Len(PathOf(t)) = n
        /\ \A j \in 1..n : PathOf(t)[j] = Frame(t[j].kind, t[j].sel, t[j].idx)
    BY <1>6, <1>10, PathOfFields
  <2>3. PathOf(st) # <<>>
    BY <1>1, <2>1
  <2>4. /\ NextPendingPath(PathOf(st)) \in Seq(Frames) /\ Len(NextPendingPath(PathOf(st))) = n
        /\ \A k \in 1..(n - 1) : NextPendingPath(PathOf(st))[k] = PathOf(st)[k]
        /\ NextPendingPath(PathOf(st))[n]
             = Frame(PathOf(st)[n].kind, PathOf(st)[n].sel, PathOf(st)[n].idx + 1)
    BY <2>1, <2>3, NextFields
  <2>5. ASSUME NEW k \in 1..n PROVE PathOf(t)[k] = NextPendingPath(PathOf(st))[k]
    <3>1. CASE k = n
      <4>1. n \in 1..n
        BY <1>1
      <4>2. PathOf(st)[n] = Frame(a.kind, a.sel, a.idx)
        BY <2>1, <4>1
      <4>3. PathOf(st)[n].kind = a.kind /\ PathOf(st)[n].sel = a.sel /\ PathOf(st)[n].idx = a.idx
        BY <4>2 DEF Frame
      <4>4. PathOf(t)[n] = Frame(b.kind, b.sel, b.idx)
        BY <1>6, <2>2, <4>1
      <4> QED BY <1>b, <2>4, <3>1, <4>3, <4>4
    <3>2. CASE k # n
      <4>1. k \in 1..(n - 1)
        BY <1>1, <3>2
      <4> QED BY <1>6, <2>1, <2>2, <2>4, <4>1
    <3> QED BY <3>1, <3>2
  <2> QED BY <2>2, <2>4, <2>5, SeqEqual
<1> QED BY <1>1, <1>6, <1>7, <1>b, <1>10, <1>11 DEF t

\* A call that runSteps begins.
LEMMA BeginOk ==
  ASSUME NEW list \in Lists, NEW owner \in {"rule"} \cup StepsOf(rule), NEW kind, NEW sel, NEW resume,
         FrameOk(Frame(kind, sel, 0)), PathOk(resume)
  PROVE  /\ CallOk(RunStepsFrom(list, owner, kind, sel, resume))
         /\ RunStepsFrom(list, owner, kind, sel, resume).list = list
         /\ RunStepsFrom(list, owner, kind, sel, resume).owner = owner
         /\ RunStepsFrom(list, owner, kind, sel, resume).kind = kind
         /\ RunStepsFrom(list, owner, kind, sel, resume).sel = sel
         /\ RunStepsFrom(list, owner, kind, sel, resume).pending = resume
         /\ resume # <<>> => RunStepsFrom(list, owner, kind, sel, resume).idx = resume[1].idx
         /\ resume = <<>> => RunStepsFrom(list, owner, kind, sel, resume).idx = 0
<1> DEFINE c == RunStepsFrom(list, owner, kind, sel, resume)
<1>1. /\ c = [list |-> list, owner |-> owner, kind |-> kind, sel |-> sel, pending |-> resume, idx |-> c.idx]
      /\ c.idx = IF resume # <<>> /\ resume[1].idx > 0 THEN resume[1].idx ELSE 0
  BY DEF RunStepsFrom
<1>2. ASSUME resume # <<>> PROVE resume[1].idx \in Nat
  <2>1. resume \in Seq(Frames) /\ 1 \in 1..Len(resume)
    BY <1>2 DEF PathOk
  <2>2. FrameOk(resume[1])
    BY <2>1 DEF PathOk
  <2> QED BY <2>2 DEF FrameOk, Frames
<1>3. /\ c.idx \in Nat
      /\ resume # <<>> => c.idx = resume[1].idx
      /\ resume = <<>> => c.idx = 0
  BY <1>1, <1>2
<1>4. kind \in {"top", "if", "loop", "switch", "group"} /\ sel \in Int
  BY DEF FrameOk, Frame, Frames
<1> HIDE DEF c
<1>5. /\ c.list = list /\ c.owner = owner /\ c.kind = kind /\ c.sel = sel /\ c.pending = resume
  BY <1>1
<1>6. c \in Calls
  BY <1>1, <1>3, <1>4 DEF Calls, PathOk
<1>7. FrameOk(Frame(kind, sel, c.idx))
  BY <1>3, <1>4 DEF FrameOk, Frame, Frames
<1>8. CallOk(c)
  BY <1>5, <1>6, <1>7 DEF CallOk
<1> QED BY <1>3, <1>5, <1>8 DEF c

-----------------------------------------------------------------------------
(* A run on its way to where it resumes.                                   *)

\* The step at the cursor.
LEMMA AtStep ==
  ASSUME rule \in Rules, StackOk(stack), HasStep
  PROVE  /\ stack # <<>> /\ Len(stack) \in Nat \ {0} /\ Cur = stack[Len(stack)] /\ CallOk(Cur)
         /\ Cur.idx \in Nat /\ Cur.idx + 1 \in DOMAIN Cur.list
         /\ CurStep \in StepsOf(rule) /\ CurStep = Cur.list[Cur.idx + 1] /\ StepKind[CurStep] \in Kinds
         /\ CurPath = PathOf(stack)
<1>1. stack \in Seq(Calls) /\ stack # <<>> /\ \A j \in 1..Len(stack) : CallOk(stack[j])
  BY DEF StackOk, HasStep
<1>2. Len(stack) \in Nat \ {0} /\ Cur = stack[Len(stack)] /\ CallOk(Cur)
  BY <1>1 DEF Cur
<1>3. Cur \in Calls /\ Cur.idx \in Nat
  BY <1>2 DEF CallOk, FrameOk, Frame, Calls
<1>4. Cur.list \in Seq(StepsOf(rule))
  BY <1>3, RuleShape DEF Calls
<1>5. Cur.idx + 1 \in DOMAIN Cur.list
  BY <1>3, <1>4 DEF HasStep
<1>6. CurStep \in StepsOf(rule) /\ CurStep = Cur.list[Cur.idx + 1]
  BY <1>4, <1>5 DEF CurStep
<1>7. CurPath = PathOf(stack)
  BY DEF CurPath, PathOf
<1> QED BY <1>1, <1>2, <1>3, <1>5, <1>6, <1>7, RuleShape

\* The frames handed to a container are frames of a path.
LEMMA DispatchOk ==
  ASSUME CallOk(Cur)
  PROVE  PathOk(DispatchResume)
<1>1. Cur.pending \in Seq(Frames) /\ \A k \in 1..Len(Cur.pending) : FrameOk(Cur.pending[k])
  BY DEF CallOk, PathOk
<1>2. CASE DispatchResume = Cur.pending
  BY <1>1, <1>2 DEF PathOk
<1>3. CASE DispatchResume # Cur.pending
  <2>1. DispatchResume = Tail(Cur.pending) /\ Len(Cur.pending) > 1
    BY <1>3 DEF DispatchResume
  <2>2. /\ Tail(Cur.pending) \in Seq(Frames) /\ Len(Tail(Cur.pending)) = Len(Cur.pending) - 1
        /\ \A k \in 1..(Len(Cur.pending) - 1) : Tail(Cur.pending)[k] = Cur.pending[k + 1]
    BY <1>1, <2>1
  <2>3. \A k \in 1..Len(Tail(Cur.pending)) : FrameOk(Tail(Cur.pending)[k])
    BY <1>1, <2>2
  <2> QED BY <2>1, <2>2, <2>3 DEF PathOk
<1> QED BY <1>2, <1>3

\* On the way to where it resumes, the executor stands at a container the path leads through.
LEMMA AlongStep ==
  ASSUME rule \in Rules, StackOk(stack), HasStep, Along(stack), PathOk(resumeAt)
  PROVE  /\ Len(stack) + 1 \in 1..Len(resumeAt)
         /\ StepKind[CurStep] = resumeAt[Len(stack) + 1].kind /\ StepKind[CurStep] \in Containers
         /\ DispatchResume = SubSeq(resumeAt, Len(stack) + 1, Len(resumeAt))
         /\ DispatchResume # <<>> /\ DispatchResume[1] = resumeAt[Len(stack) + 1]
<1> DEFINE k == Len(stack)
           n == Len(resumeAt)
<1>1. k \in Nat \ {0} /\ Cur = stack[k] /\ CurStep = Cur.list[Cur.idx + 1]
  BY AtStep
<1>2. resumeAt \in Seq(Frames) /\ n \in Nat /\ k < n
  BY DEF PathOk, Along
<1>3. /\ PathOf(stack)[k] = resumeAt[k] /\ Cur.pending = SubSeq(resumeAt, k, n)
  BY <1>1 DEF Along
<1>4. PICK L \in [1..n -> Lists] : Leads(resumeAt, L) /\ Cur.list = L[k]
  BY <1>1 DEF Along
<1>5. Cur.idx = resumeAt[k].idx
  <2>1. PathOf(stack)[k] = Frame(Cur.kind, Cur.sel, Cur.idx)
    BY <1>1, PathOfFields
  <2> QED BY <1>3, <2>1 DEF Frame
<1>6. StepKind[CurStep] = resumeAt[k + 1].kind /\ StepKind[CurStep] \in Containers
  BY <1>1, <1>2, <1>4, <1>5 DEF Leads
<1>7. /\ Cur.pending \in Seq(Frames) /\ Len(Cur.pending) = n - k + 1
      /\ \A j \in 1..(n - k + 1) : Cur.pending[j] = resumeAt[k + j - 1]
  BY <1>1, <1>2, <1>3
<1>8. Cur.pending # <<>> /\ Cur.pending[1] = resumeAt[k] /\ Len(Cur.pending) > 1
  BY <1>1, <1>2, <1>7
<1>9. DispatchResume = Tail(Cur.pending)
  BY <1>5, <1>8 DEF DispatchResume, IsResumeTarget
<1>10. /\ Tail(Cur.pending) \in Seq(Frames) /\ Len(Tail(Cur.pending)) = n - k
       /\ \A j \in 1..(n - k) : Tail(Cur.pending)[j] = resumeAt[k + j]
  <2>1. /\ Tail(Cur.pending) \in Seq(Frames) /\ Len(Tail(Cur.pending)) = Len(Cur.pending) - 1
        /\ \A j \in 1..(Len(Cur.pending) - 1) : Tail(Cur.pending)[j] = Cur.pending[j + 1]
    BY <1>7, <1>8
  <2>2. ASSUME NEW j \in 1..(n - k) PROVE Tail(Cur.pending)[j] = resumeAt[k + j]
    <3>1. j \in 1..(Len(Cur.pending) - 1) /\ j + 1 \in 1..(n - k + 1) /\ k + (j + 1) - 1 = k + j
      BY <1>1, <1>2, <1>7
    <3> QED BY <1>7, <2>1, <3>1
  <2>3. Len(Tail(Cur.pending)) = n - k
    BY <1>1, <1>2, <1>7, <2>1
  <2> QED BY <2>1, <2>2, <2>3
<1>11. /\ SubSeq(resumeAt, k + 1, n) \in Seq(Frames) /\ Len(SubSeq(resumeAt, k + 1, n)) = n - k
       /\ \A j \in 1..(n - k) : SubSeq(resumeAt, k + 1, n)[j] = resumeAt[k + j]
  BY <1>1, <1>2
<1>12. Tail(Cur.pending) = SubSeq(resumeAt, k + 1, n)
  BY <1>10, <1>11, SeqEqual
<1>13. 1 \in 1..(n - k) /\ k + 1 \in 1..n
  BY <1>1, <1>2
<1>14. SubSeq(resumeAt, k + 1, n) # <<>> /\ SubSeq(resumeAt, k + 1, n)[1] = resumeAt[k + 1]
  <2> DEFINE u == SubSeq(resumeAt, k + 1, n)
  <2>1. Len(u) = n - k /\ \A j \in 1..(n - k) : u[j] = resumeAt[k + j]
    BY <1>11
  <2> HIDE DEF u
  <2>2. u # <<>> /\ u[1] = resumeAt[k + 1]
    BY <1>13, <2>1
  <2> QED BY <2>2 DEF u
<1> QED BY <1>6, <1>9, <1>12, <1>13, <1>14

\* A leaf, a signal or the end of a list is only met when all that is done lies before it.
LEMMA ReachedHere ==
  ASSUME rule \in Rules, StackOk(stack), HasStep, Reached(stack), resumeAt # <<>> => Fits(resumeAt),
         StepKind[CurStep] \notin Containers
  PROVE  AllBelow(PathOf(stack))
<1>1. SUFFICES ASSUME Along(stack) PROVE FALSE
  BY DEF Reached
<1>2. PathOk(resumeAt)
  <2>1. Len(resumeAt) > Len(stack) /\ Len(stack) \in Nat \ {0}
    BY <1>1, AtStep DEF Along
  <2>2. resumeAt # <<>>
    BY <2>1
  <2> QED BY <2>2 DEF Fits
<1> QED BY <1>1, <1>2, AlongStep

\* Entering a container: a resumed run takes the way the path names.
LEMMA ReachedEnter ==
  ASSUME rule \in Rules, DataTyped, StackOk(stack), HasStep, Reached(stack),
         resumeAt # <<>> => Fits(resumeAt), NEW c, CallOk(c), Hangs(Cur, c),
         DispatchResume # <<>> /\ DispatchResume[1].kind = c.kind =>
           c.sel = DispatchResume[1].sel /\ c.idx = DispatchResume[1].idx /\ c.pending = DispatchResume
  PROVE  /\ StackOk(Append(stack, c)) /\ Append(stack, c) # <<>> /\ Append(stack, c)[1] = stack[1]
         /\ Reached(Append(stack, c))
<1> DEFINE t == Append(stack, c)
           k == Len(stack)
           n == Len(resumeAt)
<1>1. stack # <<>> /\ k \in Nat \ {0} /\ Cur = stack[k]
  BY AtStep
<1>2. StackOk(t) /\ Len(t) = k + 1 /\ (\A j \in 1..k : t[j] = stack[j]) /\ t[k + 1] = c
  BY <1>1, PushOk
<1>3. t # <<>> /\ t[1] = stack[1]
  BY <1>1, <1>2
<1> HIDE DEF t
<1>4. /\ PathOf(stack) \in Seq(Frames) /\ Len(PathOf(stack)) = k /\ PathOk(PathOf(stack))
      /\ \A j \in 1..k : PathOf(stack)[j] = Frame(stack[j].kind, stack[j].sel, stack[j].idx)
  BY PathOfFields DEF PathOk
<1>5. /\ PathOf(t) \in Seq(Frames) /\ Len(PathOf(t)) = k + 1 /\ PathOk(PathOf(t))
      /\ \A j \in 1..(k + 1) : PathOf(t)[j] = Frame(t[j].kind, t[j].sel, t[j].idx)
  BY <1>2, PathOfFields DEF PathOk
<1>6. \A j \in 1..k : PathOf(t)[j] = PathOf(stack)[j]
  BY <1>1, <1>2, <1>4, <1>5
<1>7. PathOf(t)[k + 1] = Frame(c.kind, c.sel, c.idx)
  BY <1>1, <1>2, <1>5
<1>8. CASE AllBelow(PathOf(stack))
  <2>1. ASSUME NEW p \in completed PROVE Below(p, PathOf(t))
    <3>1. PathOk(p) /\ Below(p, PathOf(stack))
      BY <1>8 DEF AllBelow, DataTyped
    <3>2. Len(PathOf(stack)) <= Len(PathOf(t)) /\ \A m \in 1..Len(PathOf(stack)) : PathOf(t)[m] = PathOf(stack)[m]
      BY <1>1, <1>4, <1>5, <1>6
    <3> QED BY <1>4, <1>5, <3>1, <3>2, BelowExtend
  <2> QED BY <1>2, <1>3, <2>1 DEF Reached, AllBelow, t
<1>9. CASE Along(stack) /\ AllBelow(resumeAt)
  <2>1. PathOk(resumeAt) /\ n \in Nat /\ k < n
    <3>1. Len(resumeAt) > k
      BY <1>9 DEF Along
    <3>2. resumeAt # <<>>
      BY <1>1, <3>1
    <3> QED BY <3>1, <3>2 DEF Fits, PathOk
  <2>2. /\ StepKind[CurStep] = resumeAt[k + 1].kind
        /\ DispatchResume = SubSeq(resumeAt, k + 1, n)
        /\ DispatchResume # <<>> /\ DispatchResume[1] = resumeAt[k + 1]
    BY <1>9, <2>1, AlongStep
  <2>3. c.owner = CurStep /\ StepKind[CurStep] = c.kind /\ c.list = ChildList(CurStep, c.sel)
    BY AtStep DEF Hangs
  <2>4. c.sel = resumeAt[k + 1].sel /\ c.idx = resumeAt[k + 1].idx /\ c.kind = resumeAt[k + 1].kind
        /\ c.pending = SubSeq(resumeAt, k + 1, n)
    BY <2>2, <2>3
  <2>5. resumeAt \in Seq(Frames) /\ resumeAt[k + 1] \in Frames
    BY <1>1, <2>1 DEF PathOk
  <2>6. PathOf(t)[k + 1] = resumeAt[k + 1]
    BY <1>7, <2>4, <2>5 DEF Frame, Frames
  <2>7. \A j \in 1..(k + 1) : PathOf(t)[j] = resumeAt[j]
    <3>1. TAKE j \in 1..(k + 1)
    <3>2. CASE j = k + 1
      BY <2>6, <3>2
    <3>3. CASE j # k + 1
      <4>1. j \in 1..k
        BY <1>1, <3>3
      <4> QED BY <1>6, <1>9, <4>1 DEF Along
    <3> QED BY <3>2, <3>3
  <2>8. CASE k + 1 = n
    <3>1. PathOf(t) = resumeAt
      BY <1>5, <2>5, <2>7, <2>8, SeqEqual
    <3> QED BY <1>2, <1>3, <1>9, <3>1 DEF Reached, t
  <2>9. CASE k + 1 # n
    <3>1. PICK L \in [1..n -> Lists] : Leads(resumeAt, L) /\ Cur.list = L[k]
      BY <1>1, <1>9 DEF Along
    <3>2. t[k + 1].list = L[k + 1]
      <4>1. Cur.idx = resumeAt[k].idx
        <5>1. PathOf(stack)[k] = resumeAt[k] /\ PathOf(stack)[k] = Frame(Cur.kind, Cur.sel, Cur.idx)
          BY <1>1, <1>4, <1>9 DEF Along
        <5> QED BY <5>1 DEF Frame
      <4>2. L[k + 1] = ChildList(L[k][resumeAt[k].idx + 1], resumeAt[k + 1].sel)
        BY <1>1, <2>1, <3>1 DEF Leads
      <4>3. CurStep = L[k][resumeAt[k].idx + 1]
        BY <3>1, <4>1, AtStep
      <4> QED BY <1>2, <2>3, <2>4, <4>2, <4>3
    <3>3. Along(t)
      <4>1. k + 1 < n
        BY <1>1, <2>1, <2>9
      <4> QED BY <1>2, <2>4, <2>7, <3>1, <3>2, <4>1 DEF Along
    <3> QED BY <1>2, <1>3, <1>9, <3>3 DEF Reached, t
  <2> QED BY <2>8, <2>9
<1> QED BY <1>8, <1>9 DEF Reached

\* A later place in a call in progress: what is done, the place the run was at included, lies before it.
LEMMA ReachedBump ==
  ASSUME DataTyped, StackOk(stack), Reached(stack), NEW t, StackOk(t), t # <<>>,
         Len(t) <= Len(stack), resumeAt # <<>> => Fits(resumeAt),
         \A m \in 1..(Len(t) - 1) : PathOf(t)[m] = PathOf(stack)[m],
         Sooner(PathOf(stack)[Len(t)], PathOf(t)[Len(t)])
  PROVE  AllBelow(PathOf(t)) /\ Below(PathOf(stack), PathOf(t))
<1> DEFINE j == Len(t)
           q == PathOf(stack)
           r == PathOf(t)
<1>1. Len(stack) \in Nat /\ Len(q) = Len(stack) /\ PathOk(q)
  BY PathOfFields DEF PathOk
<1>2. j \in Nat \ {0} /\ Len(r) = j /\ PathOk(r)
  BY PathOfFields DEF PathOk
<1>3. j \in 1..Len(q) /\ j <= Len(r)
  BY <1>1, <1>2
<1> HIDE DEF q, r
<1>4. Below(q, r)
  BY <1>1, <1>2, <1>3, BelowBump DEF q, r
<1>5. ASSUME NEW p \in completed PROVE Below(p, r)
  <2>1. PathOk(p)
    BY DEF DataTyped
  <2>2. CASE AllBelow(q)
    <3>1. Below(p, q)
      BY <2>2 DEF AllBelow
    <3> QED BY <1>1, <1>2, <1>3, <2>1, <3>1, BelowBump DEF q, r
  <2>3. CASE Along(stack) /\ AllBelow(resumeAt)
    <3>1. Len(stack) < Len(resumeAt) /\ \A m \in 1..Len(stack) : q[m] = resumeAt[m]
      BY <2>3 DEF Along, q
    <3>2. PathOk(resumeAt)
      <4>1. resumeAt # <<>>
        BY <1>1, <3>1
      <4> QED BY <4>1 DEF Fits
    <3>3. Below(p, resumeAt)
      BY <2>3 DEF AllBelow
    <3>4. Len(resumeAt) \in Nat
      BY <3>2 DEF PathOk
    <3>5. j \in 1..Len(resumeAt) /\ j \in 1..Len(stack) /\ \A m \in 1..(j - 1) : m \in 1..Len(stack)
      BY <1>1, <1>2, <1>3, <3>1, <3>4
    <3>6. Sooner(resumeAt[j], r[j]) /\ \A m \in 1..(j - 1) : r[m] = resumeAt[m]
      BY <3>1, <3>5 DEF q, r
    <3> QED BY <1>2, <1>3, <2>1, <3>2, <3>3, <3>5, <3>6, BelowBump
  <2> QED BY <2>2, <2>3 DEF Reached, q
<1> QED BY <1>4, <1>5 DEF AllBelow, q, r

\* The steps of the rule in whose containers a run is leave no output themselves.
LEMMA ContainerTop ==
  ASSUME NEW st, StackOk(st), st # <<>>, Len(st) # 1
  PROVE  Outputless(st[1].idx)
<1>1. Len(st) \in Nat /\ 1 \in 1..(Len(st) - 1)
  <2>1. st \in Seq(Calls)
    BY DEF StackOk
  <2> DEFINE n == Len(st)
  <2>2. n \in Nat /\ n # 0 /\ n # 1
    BY <2>1
  <2> HIDE DEF n
  <2>3. n \in Nat /\ 1 \in 1..(n - 1)
    BY <2>2
  <2> QED BY <2>3 DEF n
<1>2. Hangs(st[1], st[1 + 1]) /\ st[1].list = Top
  <2>1. \A j \in 1..(Len(st) - 1) : Hangs(st[j], st[j + 1])
    BY DEF StackOk
  <2>2. st[1].list = Top
    BY DEF StackOk
  <2> QED BY <1>1, <2>1, <2>2
<1>3. st[1].idx + 1 \in DOMAIN Top /\ StepKind[Top[st[1].idx + 1]] \in Containers
  BY <1>2 DEF Hangs
<1> QED BY <1>3 DEF Outputless

\* The cursor of a call in progress moves on.
LEMMA ReachedNext ==
  ASSUME DataTyped, StackOk(stack), Reached(stack), resumeAt # <<>> => Fits(resumeAt),
         NEW st, StackOk(st), st # <<>>, Len(st) <= Len(stack), \A j \in 1..Len(st) : st[j] = stack[j]
  PROVE  /\ StackOk(Advance(st)) /\ Advance(st) # <<>> /\ PathOf(Advance(st)) = NextPendingPath(PathOf(st))
         /\ AllBelow(PathOf(Advance(st))) /\ Below(PathOf(stack), PathOf(Advance(st)))
         /\ st[1] = stack[1] /\ stack[1].idx \in Nat
         /\ Len(st) = 1 => Advance(st)[1].idx = stack[1].idx + 1
         /\ Len(st) # 1 => Advance(st)[1].idx = stack[1].idx /\ Outputless(stack[1].idx)
<1> DEFINE t == Advance(st)
           j == Len(st)
<1>1. /\ StackOk(t) /\ Len(t) = j /\ t # <<>> /\ j \in Nat \ {0}
      /\ \A m \in 1..(j - 1) : t[m] = st[m]
      /\ t[j].idx = st[j].idx + 1 /\ PathOf(t) = NextPendingPath(PathOf(st))
  BY AdvanceOk
<1> HIDE DEF t
<1>2. /\ Len(stack) \in Nat /\ Len(PathOf(stack)) = Len(stack)
      /\ \A m \in 1..Len(stack) : /\ PathOf(stack)[m] = Frame(stack[m].kind, stack[m].sel, stack[m].idx)
                                  /\ FrameOk(PathOf(stack)[m])
  BY PathOfFields
<1>3. /\ PathOf(st) \in Seq(Frames) /\ Len(PathOf(st)) = j
      /\ \A m \in 1..j : PathOf(st)[m] = Frame(st[m].kind, st[m].sel, st[m].idx)
  BY PathOfFields
<1>4. \A m \in 1..j : PathOf(st)[m] = PathOf(stack)[m] /\ FrameOk(PathOf(st)[m])
  BY <1>1, <1>2, <1>3
<1>5. /\ \A m \in 1..(j - 1) : PathOf(t)[m] = PathOf(stack)[m]
      /\ Sooner(PathOf(stack)[j], PathOf(t)[j])
  <2>1. PathOf(st) # <<>>
    BY <1>1, <1>3
  <2>2. /\ \A m \in 1..(j - 1) : NextPendingPath(PathOf(st))[m] = PathOf(st)[m]
        /\ NextPendingPath(PathOf(st))[j] = Frame(PathOf(st)[j].kind, PathOf(st)[j].sel, PathOf(st)[j].idx + 1)
        /\ PathOf(st)[j] \in Frames
    BY <1>3, <2>1, NextFields
  <2>3. PathOf(st)[j] = PathOf(stack)[j] /\ PathOf(t)[j] = NextPendingPath(PathOf(st))[j]
    BY <1>1, <1>4
  <2>4. Sooner(PathOf(st)[j], PathOf(t)[j])
    BY <2>2, <2>3 DEF Sooner, Frame, Frames
  <2> QED BY <1>1, <1>4, <2>2, <2>3, <2>4
<1>6. AllBelow(PathOf(t)) /\ Below(PathOf(stack), PathOf(t))
  BY <1>1, <1>5, ReachedBump
<1>7. st[1] = stack[1] /\ 1 \in 1..Len(stack) /\ 1 \in 1..j
  <2>1. 1 \in 1..Len(stack) /\ 1 \in 1..j
    BY <1>1, <1>2
  <2> QED BY <2>1
<1>8. stack[1].idx \in Nat
  <2>1. PathOf(stack)[1] = Frame(stack[1].kind, stack[1].sel, stack[1].idx) /\ FrameOk(PathOf(stack)[1])
    BY <1>2, <1>7
  <2>2. PathOf(stack)[1].idx = stack[1].idx
    BY <2>1 DEF Frame
  <2>3. PathOf(stack)[1].idx \in Nat
    BY <2>1 DEF FrameOk, Frames
  <2> QED BY <2>2, <2>3
<1>9. Len(st) = 1 => t[1].idx = stack[1].idx + 1
  BY <1>1, <1>7
<1>10. ASSUME Len(st) # 1 PROVE t[1].idx = stack[1].idx /\ Outputless(stack[1].idx)
  <2>1. 1 \in 1..(j - 1)
    BY <1>1, <1>10
  <2> QED BY <1>1, <1>7, <1>10, <2>1, ContainerTop
<1> QED BY <1>1, <1>6, <1>7, <1>8, <1>9, <1>10 DEF t

-----------------------------------------------------------------------------
(* What a step of the executor leaves as it is.                            *)

\* The first frame of the path of the next step.
LEMMA NextFirst ==
  ASSUME NEW q \in Seq(Frames)
  PROVE  /\ q = <<>> => NextPendingPath(q)[1] = Frame("top", 0, 0)
         /\ Len(q) = 1 => NextPendingPath(q)[1] = Frame(q[1].kind, q[1].sel, q[1].idx + 1)
         /\ q # <<>> /\ Len(q) # 1 => NextPendingPath(q)[1] = q[1]
<1>1. CASE q = <<>>
  <2>1. Len(q) = 0
    BY <1>1
  <2>2. NextPendingPath(q) = <<Frame("top", 0, 0)>>
    BY <1>1, NextFields
  <2> QED BY <1>1, <2>1, <2>2
<1>2. CASE q # <<>>
  <2>1. /\ Len(q) \in Nat \ {0}
        /\ \A k \in 1..(Len(q) - 1) : NextPendingPath(q)[k] = q[k]
        /\ NextPendingPath(q)[Len(q)] = Frame(q[Len(q)].kind, q[Len(q)].sel, q[Len(q)].idx + 1)
    BY <1>2, NextFields
  <2>2. CASE Len(q) = 1
    BY <1>2, <2>1, <2>2
  <2>3. CASE Len(q) # 1
    <3> DEFINE n == Len(q)
    <3>1. 1 \in 1..(n - 1)
      <4>1. n \in Nat \ {0} /\ n # 1
        BY <2>1, <2>3
      <4> HIDE DEF n
      <4> QED BY <4>1
    <3> QED BY <1>2, <2>1, <2>3, <3>1
  <2> QED BY <2>2, <2>3
<1> QED BY <1>1, <1>2

\* What is on the wire after a call.
LEMMA SentMore ==
  ASSUME NEW S, NEW w \in Seq(S), NEW m
  PROVE  Sent(Append(w, m)) = Sent(w) \cup {m}
<1>1. /\ Len(Append(w, m)) = Len(w) + 1 /\ Append(w, m)[Len(w) + 1] = m /\ Len(w) \in Nat
      /\ \A i \in 1..Len(w) : Append(w, m)[i] = w[i]
  OBVIOUS
<1> DEFINE v == Append(w, m)
<1> HIDE DEF v
<1>2. Sent(v) \subseteq Sent(w) \cup {m}
  BY <1>1 DEF Sent, v
<1>3. Sent(w) \cup {m} \subseteq Sent(v)
  <2>1. ASSUME NEW x \in Sent(w) PROVE x \in Sent(v)
    <3>1. PICK i \in 1..Len(w) : x = w[i]
      BY DEF Sent
    <3>2. i \in 1..Len(v) /\ v[i] = x
      BY <1>1, <3>1 DEF v
    <3> QED BY <3>2 DEF Sent
  <2>2. m \in Sent(v)
    <3>1. Len(w) + 1 \in 1..Len(v) /\ v[Len(w) + 1] = m
      BY <1>1 DEF v
    <3> QED BY <3>1 DEF Sent
  <2> QED BY <2>1, <2>2
<1> QED BY <1>2, <1>3 DEF v

\* A checkpoint is written: the light state and a message on the wire.
LEMMA Written ==
  ASSUME HostTyped, NEW p, Writes(p), host' = host
  PROVE  /\ session'.path = p /\ session'.status = "running"
         /\ DOMAIN session' = {"path", "url", "policy", "status"}
         /\ wire' = Append(wire, Note(p))
         /\ Sent(wire') = Sent(wire) \cup {Note(p)} /\ Told' = Told \cup {Note(p)}
         /\ Note(p).path = p /\ Note(p).ctx = ctx' /\ Note(p).type = "checkpoint"
<1>1. PICK url, policy : OnCheckpoint(p, url, policy, ctx')
  BY DEF Writes
<1>2. /\ session' = [path |-> p, url |-> url, policy |-> policy, status |-> "running"]
      /\ wire' = Append(wire, Note(p))
  BY <1>1 DEF OnCheckpoint, SaveState, Note
<1>3. Sent(wire') = Sent(wire) \cup {Note(p)}
  BY <1>2, SentMore DEF HostTyped
<1>4. Note(p).path = p /\ Note(p).ctx = ctx' /\ Note(p).type = "checkpoint"
  BY DEF Note
<1>5. Told' = Told \cup {Note(p)}
  <2>1. Told' = {m \in Sent(wire') \cup {host'.checkpoint} : m.type = "checkpoint"}
    BY DEF Told
  <2>2. Told = {m \in Sent(wire) \cup {host.checkpoint} : m.type = "checkpoint"}
    BY DEF Told
  <2> QED BY <1>3, <1>4, <2>1, <2>2
<1> QED BY <1>2, <1>3, <1>4, <1>5

\* No message and no checkpoint: the host is told nothing.
LEMMA ToldSame ==
  ASSUME host' = host, wire' = wire
  PROVE  Told' = Told /\ Sent(wire') = Sent(wire)
BY DEF Told

\* The types of a step of the executor.
LEMMA TypedStep ==
  ASSUME RunTyped, rule' = rule, page' = page, navs' = navs, host' = host, aborted' = aborted, resumeAt' = resumeAt,
         lateHook' \in {"no", "written", "rerun"}, pc' \in Points, attempt' \in Nat, outcome' \in Outcomes,
         outputs \subseteq outputs', ctx' \subseteq outputs', outputs' \subseteq completed',
         \A p \in completed' : PathOk(p) /\ p # <<>> /\ TopFirst(p),
         \/ session' = session /\ wire' = wire
         \/ \E p : Writes(p) /\ p \in Seq(Frames) /\ TopFirst(p) /\ Fits(NextPendingPath(p))
  PROVE  RunTyped'
<1>1. RealmTyped'
  BY RuleSame DEF RunTyped, RealmTyped, Points, Outcomes, Statuses
<1>2. SessionTyped'
  <2>1. CASE session' = session
    BY <2>1, RuleSame DEF RunTyped, SessionTyped, Frontier
  <2>2. CASE \E p : Writes(p) /\ p \in Seq(Frames) /\ TopFirst(p) /\ Fits(NextPendingPath(p))
    <3>1. PICK p : Writes(p) /\ p \in Seq(Frames) /\ Fits(NextPendingPath(p))
      BY <2>2
    <3>2. session'.path = p /\ DOMAIN session' = {"path", "url", "policy", "status"}
      BY <3>1, Written DEF RunTyped
    <3> QED BY <3>1, <3>2, RuleSame DEF SessionTyped, Frontier
  <2> QED BY <2>1, <2>2
<1>3. DataTyped' /\ HostTyped'
  <2>1. CASE wire' = wire
    <3>1. Told' = Told /\ Sent(wire') = Sent(wire)
      BY <2>1, ToldSame
    <3>2. DataTyped'
      BY <3>1 DEF RunTyped, DataTyped
    <3>3. HostTyped'
      BY <2>1, <3>1 DEF RunTyped, HostTyped
    <3> QED BY <3>2, <3>3
  <2>2. CASE \E p : Writes(p) /\ p \in Seq(Frames) /\ TopFirst(p) /\ Fits(NextPendingPath(p))
    <3>1. PICK p : Writes(p) /\ p \in Seq(Frames) /\ TopFirst(p)
      BY <2>2
    <3>2. /\ wire' = Append(wire, Note(p)) /\ Sent(wire') = Sent(wire) \cup {Note(p)}
          /\ Told' = Told \cup {Note(p)} /\ Note(p).path = p /\ Note(p).ctx = ctx'
      BY <3>1, Written DEF RunTyped
    <3>3. DataTyped'
      BY <3>2 DEF RunTyped, DataTyped
    <3>4. ctx' \subseteq Paths
      BY DEF PathOk, Paths, Frames
    <3>5. Note(p) \in CheckpointMessages
      BY <3>1, <3>4 DEF Note, CheckpointMessages, RunTyped, RealmTyped
    <3>6. wire' \in Seq(CheckpointMessages \cup CompleteMessages)
      BY <3>2, <3>5 DEF RunTyped, HostTyped
    <3>7. HostTyped'
      BY <3>1, <3>2, <3>6 DEF RunTyped, HostTyped
    <3> QED BY <3>3, <3>7
  <2> QED BY <2>1, <2>2
<1> QED BY <1>1, <1>2, <1>3 DEF RunTyped

\* The place of a step of the executor.
LEMMA PlaceStep ==
  ASSUME PlaceSound, Running, rule' = rule, host' = host, StackOk(stack'),
         stack' # <<>> <=> pc' \in {"main", "leaf"},
         pc' = "leaf" => stack' = stack /\ HasStep /\ StepKind[CurStep] = "leaf",
         pc' \in {"beforeAll", "main", "leaf"} => lateHook' # "written"
  PROVE  PlaceSound'
<1>1. host.armed /\ ~host.resuming
  BY DEF PlaceSound, Running
<1>2. StackOk(stack)'
  BY ListsSame DEF StackOk, CallOk, Hangs
<1>3. pc' = "leaf" => HasStep' /\ StepKind[CurStep'] = "leaf"
  BY DEF HasStep, CurStep, Cur
<1> QED BY <1>1, <1>2, <1>3 DEF PlaceSound

\* The context of a step of the executor that leaves no output.
LEMMA ContextStep ==
  ASSUME HostTyped, ContextSound, Running, ~host.settled, host' = host, outputs' = outputs, ctx' = ctx,
         lateHook' = lateHook \/ (lateHook = "no" /\ lateHook' = "written"),
         wire' = wire \/ \E p : Writes(p)
  PROVE  ContextSound'
<1>1. TopOutputs' = TopOutputs
  BY DEF TopOutputs
<1>2. lateHook # "rerun" => TopOutputs \subseteq ctx
  BY DEF ContextSound, Running
<1>3. host.result # "success"
  BY DEF ContextSound
<1>4. \A m \in Sent(wire) : ~(m.type = "complete" /\ m.status = "success")
  BY DEF ContextSound, Running
<1>5. CASE wire' = wire
  <2>1. Told' = Told /\ Sent(wire') = Sent(wire)
    BY <1>5, ToldSame
  <2> QED BY <1>1, <1>2, <1>3, <1>4, <2>1 DEF ContextSound
<1>6. CASE \E p : Writes(p)
  <2>1. PICK p : Writes(p)
    BY <1>6
  <2>2. /\ Sent(wire') = Sent(wire) \cup {Note(p)} /\ Told' = Told \cup {Note(p)}
        /\ Note(p).ctx = ctx /\ Note(p).type = "checkpoint"
    BY <2>1, Written
  <2>3. \A m \in Sent(wire') : ~(m.type = "complete" /\ m.status = "success")
    BY <1>4, <2>2
  <2>4. lateHook' = "no" => \A m \in Told' : \A q \in TopOutputs :
          q \in m.ctx \/ m.path = <<>> \/ m.path[1].idx < q[1].idx
    BY <1>2, <2>2 DEF ContextSound
  <2> QED BY <1>1, <1>2, <1>3, <2>3, <2>4 DEF ContextSound
<1> QED BY <1>5, <1>6

\* What is done stays before where the run would resume, when the run leaves its steps.
LEMMA DoneLeave ==
  ASSUME DoneSound, rule' = rule, lateHook' = lateHook \/ lateHook' # "no", session' = session, completed' = completed,
         Told' \subseteq Told, pc' \notin {"beforeAll", "main", "leaf"}
  PROVE  DoneSound'
<1>1. Frontier' = Frontier
  BY DEF Frontier
<1>2. \A q : AllBelow(q)' = AllBelow(q)
  BY DEF AllBelow
<1>3. \A c : ToldUpTo(c) => ToldUpTo(c)'
  BY RuleSame DEF ToldUpTo
<1> QED BY <1>1, <1>2, <1>3 DEF DoneSound

\* The same when nothing of the run changes.
LEMMA DoneStill ==
  ASSUME DoneSound, UNCHANGED <<rule, lateHook, session, completed, pc, stack, resumeAt>>, Told' \subseteq Told
  PROVE  DoneSound'
<1>1. Frontier' = Frontier /\ CurStep' = CurStep /\ CurPath' = CurPath
  BY DEF Frontier, CurStep, Cur, CurPath
<1>2. \A q : AllBelow(q)' = AllBelow(q)
  BY DEF AllBelow
<1>3. \A c : ToldUpTo(c) => ToldUpTo(c)'
  BY RuleSame DEF ToldUpTo
<1>4. Reached(stack) => Reached(stack)'
  BY RuleSame, ListsSame DEF Reached, AllBelow, Along, PathOf
<1> QED BY <1>1, <1>2, <1>3, <1>4 DEF DoneSound

\* The same when the run stays in its steps and writes nothing.
LEMMA DoneMove ==
  ASSUME DoneSound, UNCHANGED <<rule, lateHook, session, completed, resumeAt, host, wire>>,
         pc \in {"main", "leaf"}, pc' = "main", lateHook = "no" => Reached(stack'), stack'[1].idx = stack[1].idx
  PROVE  DoneSound'
<1>1. Frontier' = Frontier /\ Told' = Told
  BY ToldSame DEF Frontier
<1>2. \A q : AllBelow(q)' = AllBelow(q)
  BY DEF AllBelow
<1>3. \A c : ToldUpTo(c) => ToldUpTo(c)'
  BY <1>1, RuleSame DEF ToldUpTo
<1>4. lateHook = "no" => Reached(stack)'
  BY RuleSame, ListsSame DEF Reached, AllBelow, Along, PathOf
<1> QED BY <1>1, <1>2, <1>3, <1>4 DEF DoneSound

-----------------------------------------------------------------------------
(* Steps of the executor.                                                  *)

\* What holds while the executor is in the steps.
LEMMA MainFacts ==
  ASSUME RunInv, pc \in {"main", "leaf"}
  PROVE  /\ rule \in Rules /\ StackOk(stack) /\ stack # <<>> /\ Running /\ lateHook # "written"
         /\ resumeAt # <<>> => Fits(resumeAt)
         /\ RunTyped /\ DataTyped /\ HostTyped /\ PlaceSound /\ DoneSound /\ ContextSound /\ RunsOnlyInDomain
         /\ lateHook \in {"no", "written", "rerun"} /\ outcome \in Outcomes /\ attempt \in Nat
         /\ ctx \subseteq outputs /\ outputs \subseteq completed
         /\ \A p \in completed : PathOk(p) /\ p # <<>> /\ TopFirst(p)
         /\ lateHook = "no" => Reached(stack) /\ ToldUpTo(stack[1].idx)
         /\ stack[1].idx \in Nat /\ PathOf(stack)[1].idx = stack[1].idx
         /\ PathOf(stack) \in Seq(Frames) /\ PathOk(PathOf(stack)) /\ PathOf(stack) # <<>> /\ TopFirst(PathOf(stack))
         /\ Len(PathOf(stack)) = Len(stack) /\ CurPath = PathOf(stack)
<1>1. /\ RunTyped /\ DataTyped /\ HostTyped /\ PlaceSound /\ DoneSound /\ ContextSound /\ RunsOnlyInDomain
      /\ RealmTyped
  BY DEF RunInv, RunTyped
<1>2. StackOk(stack) /\ stack # <<>> /\ Running /\ lateHook # "written"
  BY <1>1 DEF PlaceSound, Running
<1>3. /\ rule \in Rules /\ (resumeAt # <<>> => Fits(resumeAt)) /\ lateHook \in {"no", "written", "rerun"}
      /\ outcome \in Outcomes /\ attempt \in Nat
  BY <1>1 DEF RealmTyped
<1>4. /\ ctx \subseteq outputs /\ outputs \subseteq completed
      /\ \A p \in completed : PathOk(p) /\ p # <<>> /\ TopFirst(p)
  BY <1>1 DEF DataTyped
<1>5. lateHook = "no" => Reached(stack) /\ ToldUpTo(stack[1].idx)
  BY <1>1 DEF DoneSound
<1>6. /\ PathOf(stack) \in Seq(Frames) /\ Len(PathOf(stack)) = Len(stack)
      /\ \A j \in 1..Len(stack) : /\ PathOf(stack)[j] = Frame(stack[j].kind, stack[j].sel, stack[j].idx)
                                  /\ FrameOk(PathOf(stack)[j])
  BY <1>2, PathOfFields
<1>7. 1 \in 1..Len(stack)
  <2>1. stack \in Seq(Calls)
    BY <1>2 DEF StackOk
  <2> QED BY <1>2, <2>1
<1>8. stack[1].idx \in Nat /\ PathOf(stack)[1].idx = stack[1].idx
  <2>1. PathOf(stack)[1] = Frame(stack[1].kind, stack[1].sel, stack[1].idx) /\ FrameOk(PathOf(stack)[1])
    BY <1>6, <1>7
  <2>2. PathOf(stack)[1].idx = stack[1].idx
    BY <2>1 DEF Frame
  <2>3. PathOf(stack)[1].idx \in Nat
    BY <2>1 DEF FrameOk, Frames
  <2> QED BY <2>2, <2>3
<1>9. PathOk(PathOf(stack)) /\ PathOf(stack) # <<>> /\ TopFirst(PathOf(stack))
  BY <1>2, <1>3, StackFits DEF Fits
<1>10. CurPath = PathOf(stack)
  BY DEF CurPath, PathOf
<1> QED BY <1>1, <1>2, <1>3, <1>4, <1>5, <1>6, <1>8, <1>9, <1>10

\* What the host was told of is a place.
LEMMA ToldTyped ==
  ASSUME HostTyped, NEW m \in Told
  PROVE  m \in CheckpointMessages /\ m.path \in Seq(Frames) /\ (m.path # <<>> => m.path[1].idx \in Int)
<1>1. m \in CheckpointMessages
  <2>1. m.type = "checkpoint" /\ (m \in Sent(wire) \/ m = host.checkpoint)
    BY DEF Told
  <2>2. CASE m \in Sent(wire)
    <3>1. m \in CheckpointMessages \cup CompleteMessages
      BY <2>2 DEF Sent, HostTyped
    <3> QED BY <2>1, <3>1 DEF CompleteMessages
  <2>3. CASE m = host.checkpoint
    BY <2>1, <2>3 DEF HostTyped, Hosts, NoCheckpoint
  <2> QED BY <2>1, <2>2, <2>3
<1>2. m.path \in Seq(Frames)
  BY <1>1 DEF CheckpointMessages
<1>3. ASSUME m.path # <<>> PROVE m.path[1].idx \in Int
  <2>1. m.path[1] \in Frames
    BY <1>2, <1>3
  <2> QED BY <2>1 DEF Frames
<1> QED BY <1>1, <1>2, <1>3

\* One more message, of the place where the run is.
LEMMA ToldMore ==
  ASSUME HostTyped, NEW c \in Nat, ToldUpTo(c), NEW m, m.path # <<>>, m.path[1].idx = c,
         NEW d, d = c + 1 \/ (d = c /\ Outputless(c))
  PROVE  \A n \in Told \cup {m} : n.path # <<>> => n.path[1].idx < d \/ (n.path[1].idx = d /\ Outputless(d))
<1>1. ASSUME NEW n \in Told, n.path # <<>> PROVE n.path[1].idx < d \/ (n.path[1].idx = d /\ Outputless(d))
  <2>1. n.path[1].idx \in Int
    BY <1>1, ToldTyped
  <2>2. n.path[1].idx < c \/ n.path[1].idx = c
    BY <1>1 DEF ToldUpTo
  <2> QED BY <2>1, <2>2
<1>2. m.path[1].idx < d \/ (m.path[1].idx = d /\ Outputless(d))
  OBVIOUS
<1> QED BY <1>1, <1>2

\* The outcomes a failure, an exit and an abort leave.
LEMMA OutcomesOk ==
  ASSUME outcome \in Outcomes
  PROVE  /\ MarkFatalError \in Outcomes /\ ApplyAbort(outcome) \in Outcomes
         /\ \A s \in Statuses : ApplyExit(outcome, s) \in Outcomes
BY DEF Outcomes, Statuses, MarkFatalError, ApplyAbort, ApplyExit

\* The main steps are over.
LEMMA Ends ==
  ASSUME RunInv, pc \in {"main", "leaf"}, ~host.settled, NEW o \in Outcomes, EndMain(o),
         UNCHANGED <<ctx, aborted, resumeAt, page, session, wire, host, navs, history>>
  PROVE  RunInv'
<1>1. /\ outcome' = o /\ pc' = "afterAll" /\ stack' = <<>> /\ attempt' = 0
      /\ rule' = rule /\ lateHook' = lateHook /\ outputs' = outputs /\ completed' = completed
  BY DEF EndMain, history
<1>2. RunTyped'
  BY <1>1, MainFacts, TypedStep DEF Points
<1>3. StackOk(<<>>)
  BY DEF StackOk
<1>4. PlaceSound'
  BY <1>1, <1>3, MainFacts, PlaceStep
<1>5. DoneSound'
  BY <1>1, MainFacts, ToldSame, DoneLeave
<1>6. ContextSound'
  BY <1>1, MainFacts, ContextStep
<1>7. RunsOnlyInDomain'
  BY MainFacts DEF RunsOnlyInDomain
<1> QED BY <1>2, <1>4, <1>5, <1>6, <1>7 DEF RunInv

\* Another call is the last one and nothing is written.
LEMMA Moves ==
  ASSUME RunInv, pc = "main", ~host.settled, StackOk(stack'), stack' # <<>>, stack'[1].idx = stack[1].idx,
         lateHook = "no" => Reached(stack'),
         UNCHANGED <<pc, attempt, outcome, ctx, aborted, resumeAt, page, session, wire, host, navs, history>>
  PROVE  RunInv'
<1>1. rule' = rule /\ lateHook' = lateHook /\ outputs' = outputs /\ completed' = completed
  BY DEF history
<1>2. RunTyped'
  BY <1>1, MainFacts, TypedStep DEF Points
<1>3. PlaceSound'
  BY <1>1, MainFacts, PlaceStep
<1>4. DoneSound'
  BY <1>1, MainFacts, DoneMove
<1>5. ContextSound'
  BY <1>1, MainFacts, ContextStep
<1>6. RunsOnlyInDomain'
  BY MainFacts DEF RunsOnlyInDomain, Running
<1> QED BY <1>2, <1>3, <1>4, <1>5, <1>6 DEF RunInv

\* A container is entered.
LEMMA Enters ==
  ASSUME RunInv, InMain, HasStep, NEW c, CallOk(c), Hangs(Cur, c),
         DispatchResume # <<>> /\ DispatchResume[1].kind = c.kind =>
           c.sel = DispatchResume[1].sel /\ c.idx = DispatchResume[1].idx /\ c.pending = DispatchResume,
         stack' = Append(stack, c),
         UNCHANGED <<pc, attempt, outcome, ctx, aborted, resumeAt, page, session, wire, host, navs, history>>
  PROVE  RunInv'
<1>1. pc = "main" /\ ~host.settled
  BY DEF InMain, Alive
<1>2. Cur = stack[Len(stack)]
  BY DEF Cur
<1>3. StackOk(stack') /\ stack' # <<>> /\ stack'[1] = stack[1]
  <2>1. StackOk(Append(stack, c)) /\ Len(Append(stack, c)) = Len(stack) + 1 /\ \A j \in 1..Len(stack) : Append(stack, c)[j] = stack[j]
    BY <1>1, <1>2, MainFacts, PushOk
  <2>2. 1 \in 1..Len(stack) /\ Len(stack) \in Nat
    <3>1. stack \in Seq(Calls) /\ stack # <<>>
      BY <1>1, MainFacts DEF StackOk
    <3> QED BY <3>1
  <2>3. Append(stack, c) # <<>>
    BY <2>1, <2>2
  <2> QED BY <2>1, <2>2, <2>3
<1>4. lateHook = "no" => Reached(stack')
  BY <1>1, MainFacts, ReachedEnter
<1> QED BY <1>1, <1>3, <1>4, Moves

\* What is done lies before the next step of a call in progress.
LEMMA DoneNext ==
  ASSUME RunInv, pc \in {"main", "leaf"},
         NEW st, StackOk(st), st # <<>>, Len(st) <= Len(stack), \A j \in 1..Len(st) : st[j] = stack[j],
         stack' = Advance(st), Writes(PathOf(st)), pc' = "main", UNCHANGED <<rule, lateHook, resumeAt, host>>,
         completed' = completed \/ completed' = completed \cup {PathOf(stack)}
  PROVE  DoneSound'
<1> DEFINE q == PathOf(Advance(st))
           d == Advance(st)[1].idx
<1>1. SUFFICES ASSUME lateHook = "no"
      PROVE  /\ AllBelow(Frontier)' /\ ToldUpTo(Frontier[1].idx)'
             /\ Reached(stack)' /\ ToldUpTo(stack[1].idx)'
  BY DEF DoneSound
<1>2. Reached(stack) /\ ToldUpTo(stack[1].idx)
  BY <1>1, MainFacts
<1>3. /\ StackOk(Advance(st)) /\ Advance(st) # <<>> /\ q = NextPendingPath(PathOf(st))
      /\ AllBelow(q) /\ Below(PathOf(stack), q) /\ st[1] = stack[1] /\ stack[1].idx \in Nat
      /\ Len(st) = 1 => d = stack[1].idx + 1
      /\ Len(st) # 1 => d = stack[1].idx /\ Outputless(stack[1].idx)
  BY <1>2, MainFacts, ReachedNext
<1>4. /\ session'.path = PathOf(st) /\ Told' = Told \cup {Note(PathOf(st))} /\ Note(PathOf(st)).path = PathOf(st)
  BY MainFacts, Written
<1>5. Frontier' = q
  BY <1>3, <1>4 DEF Frontier
<1>6. \A p \in completed' : Below(p, q)
  BY <1>3 DEF AllBelow
<1>7. q[1].idx = d
  <2>1. Advance(st) \in Seq(Calls)
    BY <1>3 DEF StackOk
  <2>2. 1 \in 1..Len(Advance(st))
    BY <1>3, <2>1
  <2>3. q[1] = Frame(Advance(st)[1].kind, Advance(st)[1].sel, d)
    BY <1>3, <2>2, PathOfFields
  <2> QED BY <2>3 DEF Frame
<1>8. PathOf(st) # <<>> /\ PathOf(st)[1].idx = stack[1].idx
  <2>1. st \in Seq(Calls)
    BY DEF StackOk
  <2>2. 1 \in 1..Len(st)
    BY <2>1
  <2>3. PathOf(st)[1] = Frame(st[1].kind, st[1].sel, st[1].idx)
    BY <2>2, PathOfFields
  <2>4. PathOf(st) # <<>>
    BY MainFacts, StackFits
  <2> QED BY <1>3, <2>3, <2>4 DEF Frame
<1> HIDE DEF q, d
<1>9. \A n \in Told \cup {Note(PathOf(st))} :
        n.path # <<>> => n.path[1].idx < d \/ (n.path[1].idx = d /\ Outputless(d))
  <2> DEFINE m == Note(PathOf(st))
             c == stack[1].idx
  <2>1. m.path # <<>> /\ m.path[1].idx = c
    BY <1>4, <1>8
  <2>2. d = c + 1 \/ (d = c /\ Outputless(c))
    BY <1>3 DEF d
  <2>3. HostTyped /\ c \in Nat /\ ToldUpTo(c)
    BY <1>2, <1>3, MainFacts
  <2> HIDE DEF m, c
  <2>4. \A n \in Told \cup {m} : n.path # <<>> => n.path[1].idx < d \/ (n.path[1].idx = d /\ Outputless(d))
    BY <2>1, <2>2, <2>3, ToldMore
  <2> QED BY <2>4 DEF m
<1>10. \A n \in Told' : n.path # <<>> => n.path[1].idx < d \/ (n.path[1].idx = d /\ Outputless(d)')
  BY <1>4, <1>9, RuleSame
<1>11. stack'[1].idx = d /\ PathOf(stack') = q
  BY DEF d, q
<1>12. ToldUpTo(stack[1].idx)' /\ ToldUpTo(Frontier[1].idx)'
  BY <1>5, <1>7, <1>10, <1>11 DEF ToldUpTo
<1>13. AllBelow(Frontier)'
  BY <1>5, <1>6 DEF AllBelow
<1>14. Reached(stack)'
  BY <1>6, <1>11 DEF Reached, AllBelow
<1> QED BY <1>12, <1>13, <1>14

\* Types and place when a call moves on to its next step.
LEMMA NextTypedPlace ==
  ASSUME RunInv, pc \in {"main", "leaf"}, ~host.settled,
         NEW st, StackOk(st), st # <<>>, stack' = Advance(st), Writes(PathOf(st)), pc' = "main",
         UNCHANGED <<rule, lateHook, resumeAt, host, page, navs, aborted>>,
         attempt' \in Nat, outcome' \in Outcomes, outputs \subseteq outputs', ctx' \subseteq outputs', outputs' \subseteq completed',
         completed' = completed \/ completed' = completed \cup {PathOf(stack)}
  PROVE  RunTyped' /\ PlaceSound' /\ RunsOnlyInDomain'
<1>1. \A p \in completed' : PathOk(p) /\ p # <<>> /\ TopFirst(p)
  BY MainFacts
<1>2. StackOk(Advance(st)) /\ Advance(st) # <<>> /\ PathOf(Advance(st)) = NextPendingPath(PathOf(st))
  BY AdvanceOk
<1>3. PathOf(st) \in Seq(Frames) /\ TopFirst(PathOf(st)) /\ Fits(NextPendingPath(PathOf(st)))
  BY <1>2, MainFacts, PathOfFields, StackFits
<1>4. RunTyped'
  BY <1>1, <1>3, MainFacts, TypedStep DEF Points
<1>5. PlaceSound'
  BY <1>2, MainFacts, PlaceStep
<1>6. RunsOnlyInDomain'
  BY MainFacts DEF RunsOnlyInDomain
<1> QED BY <1>4, <1>5, <1>6

\* A step is done without output.
LEMMA Completes ==
  ASSUME RunInv, pc \in {"main", "leaf"}, ~host.settled,
         NEW st, StackOk(st), st # <<>>, Len(st) <= Len(stack), \A j \in 1..Len(st) : st[j] = stack[j],
         stack' = Advance(st), Writes(PathOf(st)), pc' = "main",
         UNCHANGED <<rule, lateHook, resumeAt, host, page, navs, aborted, outputs, ctx>>,
         attempt' \in Nat, outcome' \in Outcomes,
         completed' = completed \/ completed' = completed \cup {PathOf(stack)}
  PROVE  RunInv'
<1>1. ctx' \subseteq outputs' /\ outputs' \subseteq completed'
  BY MainFacts
<1>2. RunTyped' /\ PlaceSound' /\ RunsOnlyInDomain'
  BY <1>1, NextTypedPlace
<1>3. DoneSound'
  BY DoneNext
<1>4. ContextSound'
  BY MainFacts, ContextStep
<1> QED BY <1>2, <1>3, <1>4 DEF RunInv

-----------------------------------------------------------------------------
(* Entering and leaving containers.                                        *)

\* An abort before a step ends the main steps,
LEMMA AbortedKeeps ==
  ASSUME RunInv, StepAborted
  PROVE  RunInv'
<1>1. pc = "main" /\ ~host.settled /\ EndMain(ApplyAbort(outcome))
  BY DEF StepAborted, InMain, Alive
<1>2. ApplyAbort(outcome) \in Outcomes
  BY <1>1, MainFacts, OutcomesOk
<1> QED BY <1>1, <1>2, Ends DEF StepAborted

\* and so does an exit.
LEMMA ExitKeeps ==
  ASSUME RunInv, Exit
  PROVE  RunInv'
<1>1. pc = "main" /\ ~host.settled
  BY DEF Exit, InMain, Alive
<1>2. PICK s \in Statuses : EndMain(ApplyExit(outcome, s))
  BY DEF Exit
<1>3. ApplyExit(outcome, s) \in Outcomes
  BY <1>1, MainFacts, OutcomesOk
<1> QED BY <1>1, <1>2, <1>3, Ends DEF Exit

\* A container is entered at the place a path names, or where the page decides.
LEMMA EnterKeeps ==
  ASSUME RunInv, InMain, HasStep, NEW kind, StepKind[CurStep] = kind, kind \in Containers,
         NEW sel, FrameOk(Frame(kind, sel, 0)), NEW resume, resume = DispatchResume \/ resume = <<>>,
         DispatchResume # <<>> /\ DispatchResume[1].kind = kind =>
           resume = DispatchResume /\ sel = DispatchResume[1].sel,
         stack' = Append(stack, RunStepsFrom(ChildList(CurStep, sel), CurStep, kind, sel, resume)),
         UNCHANGED <<pc, attempt, outcome, ctx, aborted, resumeAt, page, session, wire, host, navs, history>>
  PROVE  RunInv'
<1> DEFINE c == RunStepsFrom(ChildList(CurStep, sel), CurStep, kind, sel, resume)
<1>1. pc = "main"
  BY DEF InMain
<1>2. /\ CurStep \in StepsOf(rule) /\ CallOk(Cur) /\ Cur.idx + 1 \in DOMAIN Cur.list /\ CurStep = Cur.list[Cur.idx + 1]
  BY <1>1, MainFacts, AtStep
<1>3. ChildList(CurStep, sel) \in Lists
  <2>1. kind = "if" => sel \in {0, 1}
    BY DEF FrameOk, Frame
  <2> QED BY <1>1, <1>2, <2>1, MainFacts, ChildIsList
<1>4. PathOk(resume)
  <2>1. PathOk(<<>>)
    BY DEF PathOk
  <2> QED BY <1>2, <2>1, DispatchOk
<1>5. /\ CallOk(c) /\ c.list = ChildList(CurStep, sel) /\ c.owner = CurStep /\ c.kind = kind /\ c.sel = sel
      /\ c.pending = resume /\ (resume # <<>> => c.idx = resume[1].idx)
  <2> DEFINE list == ChildList(CurStep, sel)
             own == CurStep
  <2>1. list \in Lists /\ own \in {"rule"} \cup StepsOf(rule)
    BY <1>2, <1>3
  <2> HIDE DEF list, own
  <2>2. /\ CallOk(RunStepsFrom(list, own, kind, sel, resume))
        /\ RunStepsFrom(list, own, kind, sel, resume).list = list
        /\ RunStepsFrom(list, own, kind, sel, resume).owner = own
        /\ RunStepsFrom(list, own, kind, sel, resume).kind = kind
        /\ RunStepsFrom(list, own, kind, sel, resume).sel = sel
        /\ RunStepsFrom(list, own, kind, sel, resume).pending = resume
        /\ resume # <<>> => RunStepsFrom(list, own, kind, sel, resume).idx = resume[1].idx
    BY <1>4, <2>1, BeginOk
  <2> QED BY <2>2 DEF list, own
<1> HIDE DEF c
<1>6. Hangs(Cur, c)
  BY <1>2, <1>5 DEF Hangs
<1>7. DispatchResume # <<>> /\ DispatchResume[1].kind = c.kind =>
        c.sel = DispatchResume[1].sel /\ c.idx = DispatchResume[1].idx /\ c.pending = DispatchResume
  BY <1>5
<1>8. stack' = Append(stack, c)
  BY DEF c
<1> QED BY <1>5, <1>6, <1>7, <1>8, Enters

\* The frames the path has for the container.
LEMMA DispatchFrame ==
  ASSUME RunInv, InMain, HasStep, DispatchResume # <<>>
  PROVE  FrameOk(DispatchResume[1]) /\ DispatchResume[1] \in Frames
<1>1. PathOk(DispatchResume)
  BY MainFacts, AtStep, DispatchOk DEF InMain
<1>2. 1 \in 1..Len(DispatchResume)
  BY <1>1 DEF PathOk
<1> QED BY <1>1, <1>2 DEF PathOk, FrameOk

\* if: a branch, the one the path names when it names one.
LEMMA IfKeeps ==
  ASSUME RunInv, EnterIf
  PROVE  RunInv'
<1>1. InMain /\ HasStep /\ StepKind[CurStep] = "if"
  BY DEF EnterIf
<1> DEFINE r == DispatchResume
<1>2. PICK branch \in IF r # <<>> /\ r[1].kind = "if" THEN {r[1].sel} ELSE {0, 1} :
        stack' = Append(stack, RunStepsFrom(Body[CurStep][branch], CurStep, "if", branch, r))
  BY DEF EnterIf
<1>3. /\ r # <<>> /\ r[1].kind = "if" => branch = r[1].sel
      /\ branch \in {0, 1}
  BY <1>1, <1>2, DispatchFrame DEF FrameOk
<1>4. FrameOk(Frame("if", branch, 0))
  BY <1>3 DEF FrameOk, Frame, Frames
<1>5. Body[CurStep][branch] = ChildList(CurStep, branch)
  BY <1>1 DEF ChildList
<1>6. stack' = Append(stack, RunStepsFrom(ChildList(CurStep, branch), CurStep, "if", branch, r))
  BY <1>2, <1>5
<1>7. UNCHANGED <<pc, attempt, outcome, ctx, aborted, resumeAt, page, session, wire, host, navs, history>>
  BY DEF EnterIf
<1>8. "if" \in Containers
  BY DEF Containers
<1> QED BY <1>1, <1>3, <1>4, <1>6, <1>7, <1>8, EnterKeeps

\* switch: a case or the default, the one the path names when it names one.
LEMMA SwitchKeeps ==
  ASSUME RunInv, EnterSwitch
  PROVE  RunInv'
<1>1. InMain /\ HasStep /\ StepKind[CurStep] = "switch"
  BY DEF EnterSwitch
<1> DEFINE r == DispatchResume
<1>2. PICK c \in IF r # <<>> /\ r[1].kind = "switch" THEN {r[1].sel} ELSE DOMAIN Body[CurStep] :
        stack' = Append(stack, RunStepsFrom(CaseSteps(CurStep, c), CurStep, "switch", c, r))
  BY DEF EnterSwitch
<1>3. /\ r # <<>> /\ r[1].kind = "switch" => c = r[1].sel
      /\ c \in Int
  <2>1. CASE r # <<>> /\ r[1].kind = "switch"
    BY <1>1, <1>2, <2>1, DispatchFrame DEF Frames
  <2>2. CASE ~(r # <<>> /\ r[1].kind = "switch")
    <3>1. CurStep \in StepsOf(rule) /\ WellFormed(rule)
      BY <1>1, MainFacts, AtStep, RuleRunAssumption DEF InMain
    <3>2. Selectors(CurStep, DOMAIN Body[CurStep])
      BY <1>1, <3>1 DEF WellFormed, Body, StepsOf, Containers
    <3> QED BY <1>1, <1>2, <2>2, <3>2 DEF Selectors
  <2> QED BY <2>1, <2>2
<1>4. FrameOk(Frame("switch", c, 0))
  BY <1>3 DEF FrameOk, Frame, Frames
<1>5. CaseSteps(CurStep, c) = ChildList(CurStep, c)
  BY <1>1 DEF ChildList
<1>6. stack' = Append(stack, RunStepsFrom(ChildList(CurStep, c), CurStep, "switch", c, r))
  BY <1>2, <1>5
<1>7. UNCHANGED <<pc, attempt, outcome, ctx, aborted, resumeAt, page, session, wire, host, navs, history>>
  BY DEF EnterSwitch
<1>8. "switch" \in Containers
  BY DEF Containers
<1> QED BY <1>1, <1>3, <1>4, <1>6, <1>7, <1>8, EnterKeeps

\* group: its only list.
LEMMA GroupKeeps ==
  ASSUME RunInv, EnterGroup
  PROVE  RunInv'
<1>1. InMain /\ HasStep /\ StepKind[CurStep] = "group"
  BY DEF EnterGroup
<1> DEFINE r == DispatchResume
<1>2. r # <<>> /\ r[1].kind = "group" => r[1].sel = 0
  BY <1>1, DispatchFrame DEF FrameOk
<1>4. FrameOk(Frame("group", 0, 0))
  BY DEF FrameOk, Frame, Frames
<1>5. Body[CurStep][0] = ChildList(CurStep, 0)
  BY <1>1 DEF ChildList
<1>6. stack' = Append(stack, RunStepsFrom(ChildList(CurStep, 0), CurStep, "group", 0, r))
  BY <1>5 DEF EnterGroup
<1>7. UNCHANGED <<pc, attempt, outcome, ctx, aborted, resumeAt, page, session, wire, host, navs, history>>
  BY DEF EnterGroup
<1>8. "group" \in Containers
  BY DEF Containers
<1> QED BY <1>1, <1>2, <1>4, <1>6, <1>7, <1>8, EnterKeeps

\* loop: an iteration, the one the path names when it names one, or none at all.
LEMMA LoopKeeps ==
  ASSUME RunInv, EnterLoop
  PROVE  RunInv'
<1>1. InMain /\ HasStep /\ StepKind[CurStep] = "loop" /\ pc = "main" /\ ~host.settled
  BY DEF EnterLoop, InMain, Alive
<1> DEFINE r == DispatchResume
           i == IF r # <<>> /\ r[1].kind = "loop" THEN r[1].sel ELSE 0
           p == IF r # <<>> /\ r[1].kind = "loop" /\ r[1].sel = i THEN r ELSE <<>>
<1>2. UNCHANGED <<pc, attempt, outcome, ctx, aborted, resumeAt, page, host, navs, history>>
  BY DEF EnterLoop
<1>3. CASE stack' = Append(stack, Iteration(CurStep, i, r)) /\ UNCHANGED <<session, wire>>
  <2>1. FrameOk(Frame("loop", i, 0))
    <3>1. i \in Int /\ i >= 0
      BY <1>1, DispatchFrame DEF FrameOk, Frames
    <3> HIDE DEF i
    <3> QED BY <3>1 DEF FrameOk, Frame, Frames
  <2>2. /\ p = r \/ p = <<>>
        /\ r # <<>> /\ r[1].kind = "loop" => p = r /\ i = r[1].sel
    OBVIOUS
  <2>3. stack' = Append(stack, RunStepsFrom(ChildList(CurStep, i), CurStep, "loop", i, p))
    <3>1. Body[CurStep][0] = ChildList(CurStep, i)
      BY <1>1 DEF ChildList
    <3> QED BY <1>3, <3>1 DEF Iteration
  <2>4. "loop" \in Containers
    BY DEF Containers
  <2> HIDE DEF i, p, r
  <2> QED BY <1>1, <1>2, <1>3, <2>1, <2>2, <2>3, <2>4, EnterKeeps DEF r
<1>4. CASE stack' = Advance(stack) /\ CheckpointAfter(CurPath, ctx)
  <2>1. Writes(PathOf(stack))
    BY <1>1, <1>2, <1>4, MainFacts DEF CheckpointAfter, Writes
  <2>2. pc' = "main" /\ completed' = completed /\ UNCHANGED <<rule, lateHook, resumeAt, host, page, navs, aborted, outputs, ctx>>
        /\ attempt' \in Nat /\ outcome' \in Outcomes
    BY <1>1, <1>2, MainFacts DEF history
  <2>3. StackOk(stack) /\ stack # <<>> /\ Len(stack) <= Len(stack)
    BY <1>1, MainFacts DEF StackOk
  <2> QED BY <1>1, <1>4, <2>1, <2>2, <2>3, Completes
<1> QED BY <1>3, <1>4 DEF EnterLoop

\* The container whose calls are left is done.
LEMMA ContainerKeeps ==
  ASSUME RunInv, InMain, NEW k \in 1..Len(stack), ContainerDone(SubSeq(stack, 1, k)),
         UNCHANGED <<pc, attempt, outcome, ctx, aborted, resumeAt, page, host, navs, history>>
  PROVE  RunInv'
<1> DEFINE st == SubSeq(stack, 1, k)
<1>1. pc = "main" /\ ~host.settled
  BY DEF InMain, Alive
<1>2. StackOk(st) /\ Len(st) = k /\ st # <<>> /\ \A j \in 1..k : st[j] = stack[j]
  BY <1>1, MainFacts, PrefixOk
<1>3. stack' = Advance(st) /\ Writes(PathOf(st))
  <2>1. ContainerDone(st)
    OBVIOUS
  <2> HIDE DEF st
  <2>2. /\ stack' = Advance(st)
        /\ CheckpointAfter([j \in 1..Len(st) |-> Frame(st[j].kind, st[j].sel, st[j].idx)], ctx)
    BY <2>1 DEF ContainerDone
  <2>3. CheckpointAfter(PathOf(st), ctx')
    BY <2>2 DEF PathOf
  <2> QED BY <2>2, <2>3 DEF CheckpointAfter, Writes
<1>4. k <= Len(stack)
  <2>1. Len(stack) \in Nat
    BY <1>1, MainFacts DEF StackOk
  <2> QED BY <2>1
<1> HIDE DEF st
<1>5. pc' = "main" /\ completed' = completed /\ UNCHANGED <<rule, lateHook, resumeAt, host, page, navs, aborted, outputs, ctx>>
      /\ attempt' \in Nat /\ outcome' \in Outcomes
  BY <1>1, MainFacts DEF history
<1> QED BY <1>1, <1>2, <1>3, <1>4, <1>5, Completes

\* An iteration is over.
LEMMA IterationKeeps ==
  ASSUME RunInv, InMain, NEW k \in 1..Len(stack), stack[k].kind = "loop", NextIteration(SubSeq(stack, 1, k)),
         UNCHANGED <<ctx, aborted, resumeAt, page, host, navs, history>>
  PROVE  RunInv'
<1> DEFINE st == SubSeq(stack, 1, k)
           f == stack[k]
           o == SubSeq(stack, 1, k - 1)
           c == Iteration(f.owner, f.sel + 1, <<>>)
<1>1. pc = "main" /\ ~host.settled /\ Len(stack) \in Nat
  BY MainFacts DEF InMain, Alive, StackOk
<1>2. StackOk(st) /\ Len(st) = k /\ st # <<>> /\ \A j \in 1..k : st[j] = stack[j]
  BY <1>1, MainFacts, PrefixOk
<1>3. k - 1 \in 1..Len(stack) /\ k - 1 \in 1..(Len(stack) - 1) /\ k \in Nat
  <2>1. stack[1].kind = "top"
    BY <1>1, MainFacts DEF StackOk
  <2>2. k # 1
    BY <2>1
  <2> QED BY <1>1, <2>2
<1>4. st[Len(st)] = f /\ SubSeq(st, 1, Len(st) - 1) = o
  <2>1. st[k] = f
    BY <1>2
  <2>2. stack \in Seq(Calls)
    BY <1>1, MainFacts DEF StackOk
  <2>3. SubSeq(st, 1, k - 1) = o
    <3>1. st \in Seq(Calls)
      BY <1>2 DEF StackOk
    <3>2. /\ SubSeq(st, 1, k - 1) \in Seq(Calls) /\ Len(SubSeq(st, 1, k - 1)) = k - 1
          /\ \A j \in 1..(k - 1) : SubSeq(st, 1, k - 1)[j] = st[j]
      <4> HIDE DEF st
      <4> QED BY <1>2, <1>3, <3>1
    <3>3. /\ o \in Seq(Calls) /\ Len(o) = k - 1 /\ \A j \in 1..(k - 1) : o[j] = stack[j]
      BY <1>1, <1>3, <2>2
    <3>4. \A j \in 1..(k - 1) : st[j] = stack[j]
      BY <1>2, <1>3
    <3> HIDE DEF st, o
    <3> QED BY <3>2, <3>3, <3>4, SeqEqual
  <2> QED BY <1>2, <2>1, <2>3
<1>5. StackOk(o) /\ Len(o) = k - 1 /\ o # <<>> /\ \A j \in 1..(k - 1) : o[j] = stack[j]
  BY <1>1, <1>3, MainFacts, PrefixOk
<1>6. rule' = rule /\ lateHook' = lateHook /\ outputs' = outputs /\ completed' = completed
  BY DEF history
<1>7. \/ /\ aborted /\ EndMain(ApplyAbort(outcome)) /\ UNCHANGED <<session, wire>>
      \/ /\ stack' = Append(o, c) /\ UNCHANGED <<pc, attempt, outcome, session, wire>>
      \/ ContainerDone(o) /\ UNCHANGED <<pc, attempt, outcome>>
  <2>1. NextIteration(st)
    OBVIOUS
  <2> HIDE DEF st, f, o
  <2> QED BY <1>4, <2>1 DEF NextIteration
<1>8. CASE aborted /\ EndMain(ApplyAbort(outcome)) /\ UNCHANGED <<session, wire>>
  <2>1. ApplyAbort(outcome) \in Outcomes
    BY <1>1, MainFacts, OutcomesOk
  <2> QED BY <1>1, <1>8, <2>1, Ends
<1>9. CASE ContainerDone(o) /\ UNCHANGED <<pc, attempt, outcome>>
  BY <1>3, <1>9, ContainerKeeps
<1>10. CASE stack' = Append(o, c) /\ UNCHANGED <<pc, attempt, outcome, session, wire>>
  <2>1. CallOk(f) /\ Hangs(stack[k - 1], f) /\ f \in Calls
    <3>1. /\ \A j \in 1..Len(stack) : CallOk(stack[j])
          /\ \A j \in 1..(Len(stack) - 1) : Hangs(stack[j], stack[j + 1])
      BY <1>1, MainFacts DEF StackOk
    <3>2. (k - 1) + 1 = k
      BY <1>3
    <3>3. Hangs(stack[k - 1], stack[(k - 1) + 1])
      BY <1>3, <3>1
    <3> QED BY <3>1, <3>2, <3>3 DEF CallOk
  <2>2. /\ f.owner \in StepsOf(rule) /\ StepKind[f.owner] = "loop" /\ f.sel \in Int /\ f.sel >= 0
    <3>1. CallOk(stack[k - 1]) /\ stack[k - 1] \in Calls
      BY <1>1, <1>3, MainFacts DEF StackOk, CallOk
    <3>2. stack[k - 1].list \in Seq(StepsOf(rule))
      BY <1>1, <3>1, MainFacts, RuleShape DEF Calls
    <3> QED BY <2>1, <3>2 DEF Hangs, CallOk, FrameOk, Frame, Calls
  <2>3. c = RunStepsFrom(ChildList(f.owner, f.sel + 1), f.owner, "loop", f.sel + 1, <<>>)
    BY <2>2 DEF Iteration, ChildList
  <2>4. ChildList(f.owner, f.sel + 1) \in Lists
    BY <1>1, <2>2, MainFacts, ChildIsList DEF Containers
  <2>5. FrameOk(Frame("loop", f.sel + 1, 0)) /\ PathOk(<<>>)
    BY <2>2 DEF FrameOk, Frame, Frames, PathOk
  <2>6. /\ CallOk(c) /\ c.list = ChildList(f.owner, f.sel + 1) /\ c.owner = f.owner /\ c.kind = "loop" /\ c.sel = f.sel + 1
    <3> DEFINE list == ChildList(f.owner, f.sel + 1)
               own == f.owner
               sel == f.sel + 1
    <3>1. list \in Lists /\ own \in {"rule"} \cup StepsOf(rule) /\ FrameOk(Frame("loop", sel, 0)) /\ PathOk(<<>>)
      BY <2>2, <2>4, <2>5
    <3>2. c = RunStepsFrom(list, own, "loop", sel, <<>>)
      BY <2>3
    <3> HIDE DEF list, own, sel, c
    <3>3. /\ CallOk(RunStepsFrom(list, own, "loop", sel, <<>>))
          /\ RunStepsFrom(list, own, "loop", sel, <<>>).list = list
          /\ RunStepsFrom(list, own, "loop", sel, <<>>).owner = own
          /\ RunStepsFrom(list, own, "loop", sel, <<>>).kind = "loop"
          /\ RunStepsFrom(list, own, "loop", sel, <<>>).sel = sel
      BY <3>1, BeginOk
    <3> QED BY <3>2, <3>3 DEF list, own, sel
  <2> HIDE DEF c
  <2>7. Hangs(o[Len(o)], c)
    <3>1. o[Len(o)] = stack[k - 1]
      BY <1>3, <1>5
    <3> QED BY <2>1, <2>6, <3>1 DEF Hangs, Containers
  <2> HIDE DEF o
  <2>8. /\ StackOk(Append(o, c)) /\ Len(Append(o, c)) = k /\ Append(o, c)[k] = c
        /\ \A j \in 1..(k - 1) : Append(o, c)[j] = stack[j]
    <3>1. /\ StackOk(Append(o, c)) /\ Len(Append(o, c)) = Len(o) + 1 /\ Append(o, c)[Len(o) + 1] = c
          /\ \A j \in 1..Len(o) : Append(o, c)[j] = o[j]
      BY <1>5, <2>6, <2>7, PushOk
    <3>2. Len(o) + 1 = k
      BY <1>3, <1>5
    <3> QED BY <1>5, <3>1, <3>2
  <2>9. stack' # <<>> /\ stack'[1] = stack[1] /\ StackOk(stack') /\ Len(stack') = k
    <3>1. 1 \in 1..(k - 1)
      BY <1>3
    <3>2. Append(o, c) # <<>>
      BY <1>3, <2>8
    <3> QED BY <1>10, <2>8, <3>1, <3>2
  <2>10. ASSUME lateHook = "no" PROVE Reached(stack')
    <3> DEFINE t == Append(o, c)
    <3>1. /\ \A m \in 1..Len(stack) : PathOf(stack)[m] = Frame(stack[m].kind, stack[m].sel, stack[m].idx)
          /\ \A m \in 1..Len(t) : PathOf(t)[m] = Frame(t[m].kind, t[m].sel, t[m].idx)
      BY <1>1, <2>8, MainFacts, PathOfFields
    <3>2. \A m \in 1..(k - 1) : PathOf(t)[m] = PathOf(stack)[m]
      <4>1. \A m \in 1..(k - 1) : m \in 1..Len(stack) /\ m \in 1..Len(t) /\ t[m] = stack[m]
        BY <1>1, <1>3, <2>8
      <4> HIDE DEF t
      <4> QED BY <3>1, <4>1
    <3>3. Sooner(PathOf(stack)[k], PathOf(t)[k])
      <4>1. PathOf(stack)[k] = Frame(f.kind, f.sel, f.idx)
        BY <3>1
      <4>2. PathOf(t)[k] = Frame(c.kind, c.sel, c.idx)
        BY <1>3, <2>8, <3>1
      <4>3. PathOf(stack)[k].sel = f.sel /\ PathOf(t)[k].sel = f.sel + 1
        BY <2>6, <4>1, <4>2 DEF Frame
      <4> QED BY <2>2, <4>3 DEF Sooner
    <3>4. t # <<>> /\ Len(t) = k /\ k <= Len(stack) /\ StackOk(t)
      BY <1>1, <1>10, <2>8, <2>9
    <3> HIDE DEF t
    <3>5. AllBelow(PathOf(t))
      BY <1>1, <2>10, <3>2, <3>3, <3>4, MainFacts, ReachedBump
    <3> QED BY <1>10, <3>5 DEF Reached, t
  <2>11. UNCHANGED <<pc, attempt, outcome, ctx, aborted, resumeAt, page, session, wire, host, navs, history>>
    BY <1>10
  <2> QED BY <1>1, <2>9, <2>10, <2>11, Moves
<1> QED BY <1>7, <1>8, <1>9, <1>10

\* The end of a list: of the rule, of an iteration, of another container.
LEMMA StepsEndKeeps ==
  ASSUME RunInv, StepsEnd
  PROVE  RunInv'
<1>1. InMain /\ pc = "main" /\ ~host.settled /\ stack # <<>> /\ stack \in Seq(Calls) /\ Len(stack) \in Nat \ {0}
  <2>1. InMain /\ pc = "main" /\ ~host.settled
    BY DEF StepsEnd, InMain, Alive
  <2>2. stack \in Seq(Calls) /\ stack # <<>>
    BY <2>1, MainFacts DEF StackOk
  <2>3. Len(stack) \in Nat \ {0}
    BY <2>2
  <2> QED BY <2>1, <2>2, <2>3
<1>2. UNCHANGED <<ctx, aborted, resumeAt, page, host, navs, history>>
  BY DEF StepsEnd
<1>3. CASE Len(stack) = 1
  <2>1. EndMain(outcome) /\ UNCHANGED <<session, wire>>
    BY <1>3 DEF StepsEnd
  <2> QED BY <1>1, <1>2, <2>1, MainFacts, Ends
<1>4. CASE Len(stack) # 1 /\ Cur.kind = "loop"
  <2>1. NextIteration(stack)
    BY <1>4 DEF StepsEnd
  <2>2. SubSeq(stack, 1, Len(stack)) = stack
    BY <1>1
  <2>3. stack[Len(stack)].kind = "loop" /\ Len(stack) \in 1..Len(stack)
    BY <1>1, <1>4 DEF Cur
  <2> QED BY <1>1, <1>2, <2>1, <2>2, <2>3, IterationKeeps
<1>5. CASE Len(stack) # 1 /\ Cur.kind # "loop"
  <2>1. ContainerDone(SubSeq(stack, 1, Len(stack) - 1)) /\ UNCHANGED <<pc, attempt, outcome>>
    BY <1>5 DEF StepsEnd, Outer
  <2>2. Len(stack) - 1 \in 1..Len(stack)
    <3> DEFINE n == Len(stack)
    <3>1. n \in Nat \ {0} /\ n # 1
      BY <1>1, <1>5
    <3> HIDE DEF n
    <3>2. n - 1 \in 1..n
      BY <3>1
    <3> QED BY <3>2 DEF n
  <2> QED BY <1>1, <1>2, <2>1, <2>2, ContainerKeeps
<1> QED BY <1>3, <1>4, <1>5

\* A set of positions has a last one.
LEMMA LastOne ==
  ASSUME NEW n \in Nat, NEW S, S \subseteq 1..n, S # {}
  PROVE  \E k \in S : \A l \in S : l <= k
<1> DEFINE T == {i \in Nat : n - i \in S}
<1>1. T \subseteq Nat /\ T # {}
  <2>1. PICK k \in S : TRUE
    OBVIOUS
  <2>2. n - k \in Nat /\ n - (n - k) = k
    BY <2>1
  <2> QED BY <2>1, <2>2
<1>2. PICK i \in T : \A j \in T : i <= j
  BY <1>1, LeastNatural
<1>3. \A l \in S : n - l \in Nat /\ n - (n - l) = l
  OBVIOUS
<1>4. \A l \in S : n - l \in T
  BY <1>3
<1> QED BY <1>2, <1>4

\* break and continue leave the calls inside the innermost loop.
LEMMA SignalKeeps ==
  ASSUME RunInv, Signal
  PROVE  RunInv'
<1> DEFINE loops == {j \in 1..Len(stack) : stack[j].kind = "loop"}
           m == CHOOSE k \in loops : \A l \in loops : l <= k
<1>1. InMain /\ pc = "main" /\ ~host.settled /\ Len(stack) \in Nat /\ stack[1].kind = "top"
  <2>1. InMain /\ pc = "main" /\ ~host.settled
    BY DEF Signal, InMain, Alive
  <2> QED BY <2>1, MainFacts DEF StackOk
<1>2. UNCHANGED <<ctx, aborted, resumeAt, page, host, navs, history>>
  BY DEF Signal
<1>3. CASE loops = {}
  <2>1. EndMain(MarkFatalError) /\ UNCHANGED <<session, wire>>
    BY <1>3 DEF Signal
  <2>2. MarkFatalError \in Outcomes
    BY <1>1, MainFacts, OutcomesOk
  <2> QED BY <1>1, <1>2, <2>1, <2>2, Ends
<1>4. CASE loops # {}
  <2>1. m \in loops
    <3>1. loops \subseteq 1..Len(stack)
      OBVIOUS
    <3> HIDE DEF loops
    <3>2. \E k \in loops : \A l \in loops : l <= k
      BY <1>1, <1>4, <3>1, LastOne
    <3> QED BY <3>2
  <2>2. m \in 1..Len(stack) /\ stack[m].kind = "loop" /\ m # 1
    <3> HIDE DEF m
    <3> QED BY <1>1, <2>1
  <2>3. IF StepKind[CurStep] = "continue" THEN NextIteration(SubSeq(stack, 1, m))
        ELSE ContainerDone(SubSeq(stack, 1, m - 1)) /\ UNCHANGED <<pc, attempt, outcome>>
    BY <1>4 DEF Signal
  <2> HIDE DEF m
  <2>4. CASE StepKind[CurStep] = "continue"
    BY <1>1, <1>2, <2>2, <2>3, <2>4, IterationKeeps
  <2>5. CASE StepKind[CurStep] # "continue"
    <3>1. m - 1 \in 1..Len(stack)
      BY <1>1, <2>2
    <3> QED BY <1>1, <1>2, <2>3, <2>5, <3>1, ContainerKeeps
  <2> QED BY <2>4, <2>5
<1> QED BY <1>3, <1>4

-----------------------------------------------------------------------------
(* Leaves.                                                                 *)

\* The run at a leaf: nothing of it is on the way, and it may leave output of its own.
LEMMA LeafFacts ==
  ASSUME RunInv, pc \in {"main", "leaf"}, HasStep, StepKind[CurStep] = "leaf"
  PROVE  /\ lateHook = "no" => AllBelow(PathOf(stack))
         /\ Len(stack) \in Nat \ {0}
         /\ CurStep \in Navigating \/ Len(stack) # 1 => Outputless(stack[1].idx)
         /\ CurStep \notin Navigating /\ Len(stack) = 1 => ~Outputless(stack[1].idx)
<1>1. /\ Cur = stack[Len(stack)] /\ Len(stack) \in Nat \ {0} /\ CurStep = Cur.list[Cur.idx + 1]
      /\ Cur.idx + 1 \in DOMAIN Cur.list
  BY MainFacts, AtStep
<1>2. lateHook = "no" => AllBelow(PathOf(stack))
  BY MainFacts, ReachedHere DEF Containers
<1>3. ASSUME Len(stack) = 1 PROVE stack[1].idx + 1 \in DOMAIN Top /\ Top[stack[1].idx + 1] = CurStep
  BY <1>1, <1>3, MainFacts DEF StackOk
<1>4. ASSUME Len(stack) # 1 PROVE Outputless(stack[1].idx)
  BY <1>4, MainFacts, ContainerTop
<1> QED BY <1>1, <1>2, <1>3, <1>4 DEF Outputless, Containers

\* Where the executor is while a leaf runs.
LEMMA AtLeaf ==
  ASSUME RunInv, Alive, pc = "leaf"
  PROVE  /\ ~host.settled /\ HasStep /\ StepKind[CurStep] = "leaf" /\ StackOk(stack) /\ stack # <<>>
         /\ Len(stack) \in Nat \ {0} /\ CurPath = PathOf(stack)
BY MainFacts, AtStep DEF Alive, PlaceSound

\* A leaf is done and left nothing,
LEMMA LeafDoneKeeps ==
  ASSUME RunInv, Alive, pc = "leaf", LeafDone(ctx),
         UNCHANGED <<rule, lateHook, aborted, resumeAt, page, host, navs, outputs>>
  PROVE  RunInv'
<1>1. /\ ctx' = ctx /\ pc' = "main" /\ attempt' = 0 /\ stack' = Advance(stack) /\ outcome' = outcome
      /\ completed' = completed \cup {PathOf(stack)} /\ CheckpointAfter(PathOf(stack), ctx')
  BY AtLeaf DEF LeafDone
<1>2. Writes(PathOf(stack))
  BY <1>1 DEF CheckpointAfter, Writes
<1>3. Len(stack) <= Len(stack) /\ outcome' \in Outcomes
  BY <1>1, AtLeaf, MainFacts
<1> QED BY <1>1, <1>2, <1>3, AtLeaf, Completes

\* because its condition does not hold,
LEMMA SkippedKeeps ==
  ASSUME RunInv, LeafSkipped
  PROVE  RunInv'
BY LeafDoneKeeps DEF LeafSkipped

\* or it is done and left its output: no context the host knows of is of a later place.
LEMMA SucceedsKeeps ==
  ASSUME RunInv, LeafSucceeds
  PROVE  RunInv'
<1> DEFINE O == OutputOf(CurPath)
<1>1. Alive /\ pc = "leaf" /\ outputs' = outputs \cup O /\ LeafDone(ctx \cup O)
      /\ UNCHANGED <<rule, lateHook, aborted, resumeAt, page, host, navs>>
  BY DEF LeafSucceeds
<1>2. /\ ~host.settled /\ HasStep /\ StepKind[CurStep] = "leaf" /\ StackOk(stack) /\ stack # <<>>
      /\ Len(stack) \in Nat \ {0} /\ CurPath = PathOf(stack)
  BY <1>1, AtLeaf
<1>3. /\ ctx' = ctx \cup O /\ pc' = "main" /\ attempt' = 0 /\ stack' = Advance(stack) /\ outcome' = outcome
      /\ completed' = completed \cup {PathOf(stack)} /\ CheckpointAfter(PathOf(stack), ctx')
  BY <1>1, <1>2 DEF LeafDone
<1>4. Writes(PathOf(stack))
  BY <1>3 DEF CheckpointAfter, Writes
<1>5. O \subseteq {PathOf(stack)} /\ (O # {} => CurStep \notin Navigating)
  BY <1>2 DEF OutputOf
<1> HIDE DEF O
<1>6. outputs \subseteq outputs' /\ ctx' \subseteq outputs' /\ outputs' \subseteq completed' /\ outcome' \in Outcomes
  BY <1>1, <1>3, <1>5, MainFacts
<1>7. RunTyped' /\ PlaceSound' /\ RunsOnlyInDomain'
  BY <1>1, <1>2, <1>3, <1>4, <1>6, NextTypedPlace
<1>8. DoneSound'
  BY <1>1, <1>2, <1>3, <1>4, DoneNext
<1>9. ContextSound'
  <2>1. /\ Sent(wire') = Sent(wire) \cup {Note(PathOf(stack))} /\ Told' = Told \cup {Note(PathOf(stack))}
        /\ Note(PathOf(stack)).ctx = ctx' /\ Note(PathOf(stack)).type = "checkpoint"
    BY <1>1, <1>4, MainFacts, Written
  <2>2. TopOutputs' = TopOutputs \cup {p \in O : Len(p) = 1}
    BY <1>1 DEF TopOutputs
  <2>3. /\ lateHook # "rerun" => TopOutputs \subseteq ctx
        /\ host.result # "success"
        /\ \A m \in Sent(wire) : ~(m.type = "complete" /\ m.status = "success")
        /\ lateHook = "no" => \A m \in Told : \A p \in TopOutputs :
              p \in m.ctx \/ m.path = <<>> \/ m.path[1].idx < p[1].idx
    BY <1>1, <1>2, MainFacts DEF ContextSound
  <2>4. lateHook # "rerun" => TopOutputs' \subseteq ctx'
    BY <1>3, <2>2, <2>3
  <2>5. ASSUME lateHook = "no", NEW m \in Told, NEW p \in O, Len(p) = 1
        PROVE  m.path = <<>> \/ m.path[1].idx < p[1].idx
    <3>1. p = PathOf(stack) /\ CurStep \notin Navigating /\ Len(stack) = 1
      BY <1>1, <1>5, <2>5, MainFacts
    <3>2. ~Outputless(stack[1].idx) /\ p[1].idx = stack[1].idx
      BY <1>1, <1>2, <3>1, LeafFacts, MainFacts
    <3>3. ToldUpTo(stack[1].idx)
      BY <1>1, <2>5, MainFacts
    <3> QED BY <3>2, <3>3 DEF ToldUpTo
  <2>6. \A m \in Sent(wire') : ~(m.type = "complete" /\ m.status = "success")
    BY <2>1, <2>3
  <2>7. lateHook = "no" => \A m \in Told' : \A p \in TopOutputs' :
          p \in m.ctx \/ m.path = <<>> \/ m.path[1].idx < p[1].idx
    BY <2>1, <2>2, <2>3, <2>4, <2>5
  <2> QED BY <1>1, <2>3, <2>4, <2>6, <2>7 DEF ContextSound
<1> QED BY <1>7, <1>8, <1>9 DEF RunInv

\* A further attempt of a leaf.
LEMMA RetriesKeeps ==
  ASSUME RunInv, LeafRetries
  PROVE  RunInv'
<1>1. /\ Alive /\ pc = "leaf" /\ attempt' = attempt + 1 /\ ~host.settled /\ Running
      /\ UNCHANGED <<pc, stack, outcome, ctx, aborted, resumeAt, page, session, wire, host, navs>>
      /\ UNCHANGED <<rule, lateHook, outputs, completed>>
  BY DEF LeafRetries, history, Alive
<1>2. RunTyped'
  BY <1>1, MainFacts, TypedStep DEF Points
<1>3. PlaceSound'
  BY <1>1, AtLeaf, MainFacts, PlaceStep
<1>4. DoneSound'
  BY <1>1, MainFacts, ToldSame, DoneStill
<1>5. ContextSound'
  BY <1>1, MainFacts, ContextStep
<1>6. RunsOnlyInDomain'
  BY <1>1, MainFacts DEF RunsOnlyInDomain, Running
<1> QED BY <1>2, <1>3, <1>4, <1>5, <1>6 DEF RunInv

\* The failed navigation is the pending step again.
LEMMA RollBackKeeps ==
  ASSUME RunInv, Alive, pc = "leaf", EndMain(MarkFatalError), RollBack,
         UNCHANGED <<ctx, wire, completed, rule, lateHook, aborted, resumeAt, page, host, navs, outputs>>
  PROVE  RunInv'
<1>1. /\ ~host.settled /\ HasStep /\ StepKind[CurStep] = "leaf" /\ StackOk(stack) /\ stack # <<>>
      /\ CurPath = PathOf(stack)
  BY AtLeaf
<1>2. /\ outcome' = MarkFatalError /\ pc' = "afterAll" /\ stack' = <<>> /\ attempt' = 0
      /\ Told' = Told /\ Sent(wire') = Sent(wire)
  BY ToldSame DEF EndMain
<1>3. MarkFatalError \in Outcomes
  BY MainFacts, OutcomesOk
<1>4. PathOf(stack) \in Seq(Frames) /\ PathOf(stack) # <<>> /\ Fits(PathOf(stack))
  BY <1>1, MainFacts, StackFits
<1>5. CASE session' = session
  BY <1>1, <1>3, <1>5, Ends DEF history
<1>6. CASE session' = [session EXCEPT !.path = PrevPendingPath(PathOf(stack))]
  <2>1. DOMAIN session = {"path", "url", "policy", "status"}
    BY MainFacts DEF RunTyped, SessionTyped
  <2>2. /\ session'.path = PrevPendingPath(PathOf(stack)) /\ session'.status = session.status
        /\ DOMAIN session' = {"path", "url", "policy", "status"}
    BY <1>6, <2>1
  <2>3. /\ PrevPendingPath(PathOf(stack)) \in Seq(Frames)
        /\ NextPendingPath(PrevPendingPath(PathOf(stack))) = PathOf(stack)
    BY <1>4, PrevFields
  <2>4. Frontier' = PathOf(stack)
    BY <2>2, <2>3 DEF Frontier
  <2>5. RunTyped'
    <3>1. SessionTyped'
      BY <1>4, <2>2, <2>3, <2>4, RuleSame DEF SessionTyped
    <3>2. RealmTyped'
      BY <1>2, <1>3, MainFacts, RuleSame DEF RunTyped, RealmTyped, Points
    <3>3. DataTyped' /\ HostTyped'
      BY <1>2, MainFacts DEF DataTyped, HostTyped
    <3> QED BY <3>1, <3>2, <3>3 DEF RunTyped
  <2>6. PlaceSound'
    <3>1. StackOk(<<>>)
      BY DEF StackOk
    <3> QED BY <1>2, <3>1, MainFacts, PlaceStep
  <2>7. DoneSound'
    <3>1. ASSUME lateHook = "no" PROVE AllBelow(PathOf(stack)) /\ ToldUpTo(PathOf(stack)[1].idx)
      BY <1>1, <3>1, LeafFacts, MainFacts
    <3>2. AllBelow(PathOf(stack)) => AllBelow(Frontier)'
      BY <2>4 DEF AllBelow
    <3>3. ToldUpTo(PathOf(stack)[1].idx) => ToldUpTo(Frontier[1].idx)'
      BY <1>2, <2>4, RuleSame DEF ToldUpTo
    <3> QED BY <1>2, <3>1, <3>2, <3>3 DEF DoneSound
  <2>8. ContextSound'
    BY <1>1, MainFacts, ContextStep
  <2>9. RunsOnlyInDomain'
    BY MainFacts DEF RunsOnlyInDomain
  <2> QED BY <2>5, <2>6, <2>7, <2>8, <2>9 DEF RunInv
<1> QED BY <1>1, <1>5, <1>6 DEF RollBack

\* A leaf fails for good: the run goes on, or its main steps end.
LEMMA FailsKeeps ==
  ASSUME RunInv, LeafFails
  PROVE  RunInv'
<1>1. Alive /\ pc = "leaf" /\ UNCHANGED <<rule, lateHook, aborted, resumeAt, page, host, navs, outputs>>
  BY DEF LeafFails
<1>2. CASE LeafDone(ctx)
  BY <1>1, <1>2, LeafDoneKeeps
<1>3. CASE EndMain(MarkFatalError) /\ UNCHANGED <<ctx, session, wire, completed>>
  <2>1. MarkFatalError \in Outcomes
    BY <1>1, MainFacts, OutcomesOk
  <2>2. ~host.settled
    BY <1>1 DEF Alive
  <2> QED BY <1>1, <1>3, <2>1, <2>2, Ends DEF history
<1>4. CASE EndMain(MarkFatalError) /\ RollBack /\ UNCHANGED <<ctx, wire, completed>>
  BY <1>1, <1>4, RollBackKeeps
<1> QED BY <1>2, <1>3, <1>4 DEF LeafFails

\* A leaf is begun: one that may navigate is recorded first.
LEMMA StartKeeps ==
  ASSUME RunInv, StepStart
  PROVE  RunInv'
<1>1. /\ pc = "main" /\ ~host.settled /\ HasStep /\ StepKind[CurStep] = "leaf" /\ pc' = "leaf" /\ attempt' = 0
      /\ UNCHANGED <<stack, outcome, ctx, aborted, resumeAt, page, host, navs, rule, lateHook, outputs, completed>>
      /\ IF CurStep \in Navigating THEN CheckpointBefore(CurStep) ELSE UNCHANGED <<session, wire>>
  BY DEF StepStart, InMain, Alive, history
<1> DEFINE q == PathOf(stack)
<1>2. q \in Seq(Frames) /\ TopFirst(q) /\ CurPath = q /\ q # <<>> /\ q[1].idx = stack[1].idx
  BY <1>1, MainFacts
<1>3. ASSUME CurStep \in Navigating PROVE Writes(q)
  <2>1. CheckpointBefore(CurStep)
    BY <1>1, <1>3
  <2> QED BY <1>1, <1>2, <2>1 DEF CheckpointBefore, Writes
<1>4. /\ StackOk(Advance(stack)) /\ Advance(stack) # <<>> /\ PathOf(Advance(stack)) = NextPendingPath(q)
  BY <1>1, MainFacts, AdvanceOk
<1>5. Fits(NextPendingPath(q))
  BY <1>1, <1>4, MainFacts, StackFits
<1> HIDE DEF q
<1>6. RunTyped'
  BY <1>1, <1>2, <1>3, <1>5, MainFacts, TypedStep DEF Points
<1>7. PlaceSound'
  BY <1>1, MainFacts, PlaceStep
<1>8. ContextSound'
  BY <1>1, <1>3, MainFacts, ContextStep
<1>9. RunsOnlyInDomain'
  BY <1>1, MainFacts DEF RunsOnlyInDomain
<1>10. DoneSound'
  <2>1. SUFFICES ASSUME lateHook = "no" PROVE DoneSound'
    BY <1>1 DEF DoneSound
  <2>2. Reached(stack) /\ ToldUpTo(stack[1].idx) /\ stack[1].idx \in Nat
    BY <1>1, <2>1, MainFacts
  <2>3. Reached(stack)'
    BY <1>1, <2>2, RuleSame, ListsSame DEF Reached, AllBelow, Along, PathOf
  <2>4. CurStep' = CurStep /\ CurPath' = q
    BY <1>1, <1>2 DEF CurStep, Cur, CurPath
  <2>5. CASE CurStep \notin Navigating
    <3>1. Frontier' = Frontier /\ Told' = Told
      BY <1>1, <2>5, ToldSame DEF Frontier
    <3>2. \A p : AllBelow(p)' = AllBelow(p)
      BY <1>1 DEF AllBelow
    <3>3. \A c : ToldUpTo(c) => ToldUpTo(c)'
      BY <1>1, <3>1, RuleSame DEF ToldUpTo
    <3> QED BY <1>1, <2>1, <2>2, <2>3, <2>4, <2>5, <3>1, <3>2, <3>3, MainFacts DEF DoneSound
  <2>6. CASE CurStep \in Navigating
    <3>1. /\ session'.path = q /\ Told' = Told \cup {Note(q)} /\ Note(q).path = q
      BY <1>1, <1>3, <2>6, MainFacts, Written
    <3>2. Frontier' = NextPendingPath(q)
      BY <3>1 DEF Frontier
    <3>3. AllBelow(NextPendingPath(q)) /\ Outputless(stack[1].idx)
      <4>1. Len(stack) <= Len(stack)
        BY <1>1, MainFacts DEF StackOk
      <4>2. AllBelow(PathOf(Advance(stack)))
        BY <1>1, <2>2, <4>1, MainFacts, ReachedNext
      <4> QED BY <1>1, <1>4, <2>6, <4>2, LeafFacts
    <3>4. AllBelow(Frontier)'
      BY <1>1, <3>2, <3>3 DEF AllBelow
    <3>5. NextPendingPath(q)[1].idx = stack[1].idx + 1 \/ NextPendingPath(q)[1].idx = stack[1].idx
      <4>1. CASE Len(q) = 1
        <5>1. NextPendingPath(q)[1] = Frame(q[1].kind, q[1].sel, q[1].idx + 1)
          BY <1>2, <4>1, NextFirst
        <5> QED BY <1>2, <5>1 DEF Frame
      <4>2. CASE Len(q) # 1
        <5>1. NextPendingPath(q)[1] = q[1]
          BY <1>2, <4>2, NextFirst
        <5> QED BY <1>2, <5>1
      <4> QED BY <4>1, <4>2
    <3> DEFINE c == stack[1].idx
               d == NextPendingPath(q)[1].idx
               m == Note(q)
    <3>6. m.path # <<>> /\ m.path[1].idx = c /\ c \in Nat /\ ToldUpTo(c) /\ Outputless(c) /\ q[1].idx = c /\ (d = c + 1 \/ d = c)
      BY <1>2, <2>2, <3>1, <3>3, <3>5
    <3>h. HostTyped
      BY <1>1, MainFacts
    <3> HIDE DEF c, d, m
    <3>7. \A n \in Told \cup {m} : n.path # <<>> => n.path[1].idx < d \/ (n.path[1].idx = d /\ Outputless(d))
      BY <3>6, <3>h, ToldMore
    <3>8. \A n \in Told \cup {m} : n.path # <<>> => n.path[1].idx < c \/ (n.path[1].idx = c /\ Outputless(c))
      BY <3>6, <3>h, ToldMore
    <3>9. ToldUpTo(Frontier[1].idx)'
      BY <1>1, <3>1, <3>2, <3>7, RuleSame DEF ToldUpTo, d, m
    <3>10. ToldUpTo(stack[1].idx)'
      BY <1>1, <3>1, <3>8, RuleSame DEF ToldUpTo, c, m
    <3> QED BY <1>1, <2>3, <2>4, <3>1, <3>4, <3>9, <3>10 DEF DoneSound
  <2> QED BY <2>5, <2>6
<1> QED BY <1>6, <1>7, <1>8, <1>9, <1>10 DEF RunInv

-----------------------------------------------------------------------------
(* Hooks and the two ends of a run.                                        *)

\* The parts of the invariant.
LEMMA RunFacts ==
  ASSUME RunInv
  PROVE  /\ RunTyped /\ RealmTyped /\ SessionTyped /\ DataTyped /\ HostTyped /\ PlaceSound /\ DoneSound /\ ContextSound
         /\ RunsOnlyInDomain
         /\ rule \in Rules /\ (resumeAt # <<>> => Fits(resumeAt)) /\ lateHook \in {"no", "written", "rerun"}
         /\ outcome \in Outcomes /\ attempt \in Nat /\ ctx \subseteq outputs /\ outputs \subseteq completed
         /\ \A p \in completed : PathOk(p) /\ p # <<>> /\ TopFirst(p)
         /\ stack \in Seq(Calls) /\ (stack # <<>> <=> pc \in {"main", "leaf"}) /\ host \in Hosts
BY DEF RunInv, RunTyped, RealmTyped, DataTyped, HostTyped, PlaceSound, StackOk

\* The path a hook writes is one a run may start from.
LEMMA HookPath ==
  ASSUME resumeAt # <<>> => Fits(resumeAt)
  PROVE  resumeAt \in Seq(Frames) /\ TopFirst(resumeAt) /\ Fits(NextPendingPath(resumeAt))
<1>1. CASE resumeAt = <<>>
  <2>1. NextPendingPath(resumeAt) = <<Frame("top", 0, 0)>>
    BY <1>1 DEF NextPendingPath
  <2> QED BY <1>1, <2>1, FirstFits DEF TopFirst
<1>2. CASE resumeAt # <<>>
  <2>1. Fits(resumeAt) /\ PathOk(resumeAt) /\ resumeAt \in Seq(Frames)
    BY <1>2 DEF Fits, PathOk
  <2>2. TopFirst(resumeAt)
    <3>1. PICK L : Leads(resumeAt, L)
      BY <2>1 DEF Fits
    <3>2. resumeAt[1].kind = "top"
      BY <3>1 DEF Leads
    <3>3. 1 \in 1..Len(resumeAt)
      BY <1>2, <2>1
    <3> QED BY <2>1, <3>2, <3>3 DEF TopFirst, PathOk, FrameOk
  <2> DEFINE n == Len(resumeAt)
             i == resumeAt[n].idx + 1
  <2>3. /\ NextPendingPath(resumeAt) \in Seq(Frames) /\ Len(NextPendingPath(resumeAt)) = n /\ n \in Nat \ {0}
        /\ \A k \in 1..(n - 1) : NextPendingPath(resumeAt)[k] = resumeAt[k]
        /\ NextPendingPath(resumeAt)[n] = Frame(resumeAt[n].kind, resumeAt[n].sel, i)
    BY <1>2, <2>1, NextFields
  <2>4. i \in Nat
    <3>1. n \in 1..Len(resumeAt)
      BY <2>3
    <3>2. FrameOk(resumeAt[n])
      BY <2>1, <3>1 DEF PathOk
    <3> QED BY <3>2 DEF FrameOk, Frames
  <2> HIDE DEF i
  <2>5. Fits(NextPendingPath(resumeAt))
    BY <1>2, <2>1, <2>3, <2>4, NextFits
  <2> QED BY <2>1, <2>2, <2>5
<1> QED BY <1>1, <1>2

\* The result is made ready.
LEMMA FinishKeeps ==
  ASSUME RunInv, Finish
  PROVE  RunInv'
<1>1. /\ Alive /\ Running /\ ~host.settled /\ pc = "finish" /\ pc' = "report" /\ outcome' \in {outcome, MarkFatalError}
      /\ UNCHANGED <<stack, attempt, ctx, aborted, resumeAt, page, session, wire, host, navs, rule, lateHook, outputs, completed>>
  BY DEF Finish, Alive, history
<1>2. outcome' \in Outcomes
  BY <1>1, RunFacts, OutcomesOk
<1>3. RunTyped'
  BY <1>1, <1>2, RunFacts, TypedStep DEF Points
<1>4. PlaceSound'
  BY <1>1, RunFacts, PlaceStep DEF PlaceSound
<1>5. DoneSound'
  BY <1>1, RunFacts, ToldSame, DoneLeave
<1>6. ContextSound'
  BY <1>1, RunFacts, ContextStep
<1>7. RunsOnlyInDomain'
  BY <1>1, RunFacts DEF RunsOnlyInDomain
<1> QED BY <1>3, <1>4, <1>5, <1>6, <1>7 DEF RunInv

\* A hook at the end may write the path the run has started from.
LEMMA HookKeeps ==
  ASSUME RunInv, RunHook
  PROVE  RunInv'
<1>1. /\ Running /\ ~host.settled /\ pc \in {"afterAll", "onError", "cleanup"} /\ pc' = HookOrder[pc]
      /\ UNCHANGED <<rule, stack, attempt, ctx, aborted, resumeAt, page, host, navs, outputs, completed>>
  BY DEF RunHook, Alive
<1>2. pc' \in {"onError", "cleanup", "finish"} /\ stack = <<>> /\ StackOk(stack)
  BY <1>1, RunFacts DEF HookOrder, PlaceSound
<1>3. \/ UNCHANGED <<outcome, session, wire, lateHook>>
      \/ /\ outcome' = outcome \/ (\E s \in Statuses : outcome' = ApplyExit(outcome, s)) \/ outcome' = ApplyAbort(outcome)
         /\ CheckpointHook /\ lateHook' = IF lateHook = "no" THEN "written" ELSE lateHook
  BY DEF RunHook
<1>4. outcome' \in Outcomes /\ lateHook' \in {"no", "written", "rerun"}
      /\ (lateHook' = lateHook \/ (lateHook = "no" /\ lateHook' = "written"))
  BY <1>3, RunFacts, OutcomesOk
<1>5. \/ session' = session /\ wire' = wire /\ lateHook' = lateHook
      \/ Writes(resumeAt) /\ lateHook' # "no"
  BY <1>1, <1>3 DEF CheckpointHook, Writes
<1>6. RunTyped'
  BY <1>1, <1>2, <1>4, <1>5, RunFacts, HookPath, TypedStep DEF Points
<1>7. PlaceSound'
  BY <1>1, <1>2, RunFacts, PlaceStep
<1>8. DoneSound'
  BY <1>1, <1>2, <1>5, RunFacts, ToldSame, DoneLeave DEF DoneSound
<1>9. ContextSound'
  BY <1>1, <1>4, <1>5, RunFacts, ContextStep
<1>10. RunsOnlyInDomain'
  BY <1>1, RunFacts DEF RunsOnlyInDomain
<1> QED BY <1>6, <1>7, <1>8, <1>9, <1>10 DEF RunInv

\* The first call of a run, where the path has it start.
LEMMA FirstCall ==
  ASSUME rule \in Rules, resumeAt # <<>> => Fits(resumeAt)
  PROVE  LET st == <<RunStepsFrom(Top, "rule", "top", 0, resumeAt)>>
             q == IF resumeAt = <<>> THEN <<Frame("top", 0, 0)>> ELSE resumeAt
         IN StackOk(st) /\ st # <<>> /\ st[1].idx = q[1].idx /\ (AllBelow(q) => Reached(st))
<1> DEFINE c == RunStepsFrom(Top, "rule", "top", 0, resumeAt)
           st == <<c>>
           q == IF resumeAt = <<>> THEN <<Frame("top", 0, 0)>> ELSE resumeAt
<1>1. Top \in Lists /\ "rule" \in {"rule"} \cup StepsOf(rule) /\ FrameOk(Frame("top", 0, 0))
  BY DEF Lists, FrameOk, Frame, Frames
<1>2. PathOk(resumeAt)
  <2>1. CASE resumeAt = <<>>
    BY <2>1 DEF PathOk
  <2>2. CASE resumeAt # <<>>
    BY <2>2 DEF Fits
  <2> QED BY <2>1, <2>2
<1>3. /\ CallOk(c) /\ c.list = Top /\ c.owner = "rule" /\ c.kind = "top" /\ c.sel = 0 /\ c.pending = resumeAt
      /\ resumeAt # <<>> => c.idx = resumeAt[1].idx
      /\ resumeAt = <<>> => c.idx = 0
  BY <1>1, <1>2, BeginOk
<1> HIDE DEF c
<1>4. StackOk(st) /\ st # <<>> /\ Len(st) = 1 /\ st[1] = c
  <2>1. c \in Calls
    BY <1>3 DEF CallOk
  <2>2. st \in Seq(Calls) /\ st # <<>> /\ Len(st) = 1 /\ st[1] = c
    BY <2>1
  <2> HIDE DEF st
  <2>3. \A j \in 1..Len(st) : CallOk(st[j])
    BY <1>3, <2>2
  <2>4. st[1].list = Top /\ st[1].kind = "top"
    BY <1>3, <2>2
  <2>5. \A j \in 1..(Len(st) - 1) : Hangs(st[j], st[j + 1])
    BY <2>2
  <2> QED BY <2>2, <2>3, <2>4, <2>5 DEF StackOk
<1>5. c.idx = q[1].idx
  <2>1. CASE resumeAt = <<>>
    <3>1. q[1] = Frame("top", 0, 0)
      BY <2>1
    <3> HIDE DEF q
    <3> QED BY <1>3, <2>1, <3>1 DEF Frame
  <2>2. CASE resumeAt # <<>>
    BY <1>3, <2>2
  <2> QED BY <2>1, <2>2
<1>6. PathOf(st) = <<Frame("top", 0, c.idx)>>
  <2> HIDE DEF st
  <2>1. PathOf(st) \in Seq(Frames) /\ Len(PathOf(st)) = 1 /\ PathOf(st)[1] = Frame(c.kind, c.sel, c.idx)
    BY <1>4, PathOfFields
  <2> QED BY <1>3, <2>1
<1>7. ASSUME AllBelow(q) PROVE Reached(st)
  <2>1. CASE resumeAt = <<>>
    BY <1>3, <1>6, <1>7, <2>1 DEF Reached
  <2>2. CASE resumeAt # <<>>
    <3>1. PICK L \in [1..Len(resumeAt) -> Lists] : Leads(resumeAt, L)
      BY <2>2 DEF Fits
    <3>2. resumeAt \in Seq(Frames) /\ 1 \in 1..Len(resumeAt) /\ Len(resumeAt) \in Nat
      BY <1>2, <2>2 DEF PathOk
    <3>3. resumeAt[1].kind = "top" /\ L[1] = Top
      BY <3>1 DEF Leads
    <3>4. resumeAt[1].sel = 0 /\ resumeAt[1] \in Frames
      BY <1>2, <3>2, <3>3 DEF PathOk, FrameOk
    <3>5. resumeAt[1] = Frame("top", 0, c.idx)
      BY <1>3, <2>2, <3>3, <3>4 DEF Frame, Frames
    <3>6. CASE Len(resumeAt) = 1
      <4>1. resumeAt = <<Frame("top", 0, c.idx)>>
        BY <3>2, <3>5, <3>6
      <4> QED BY <1>6, <1>7, <2>2, <4>1 DEF Reached
    <3>7. CASE Len(resumeAt) # 1
      <4>1. 1 < Len(resumeAt)
        <5> DEFINE n == Len(resumeAt)
        <5>1. n \in Nat /\ 1 \in 1..n /\ n # 1
          BY <3>2, <3>7
        <5> HIDE DEF n
        <5>2. 1 < n
          BY <5>1
        <5> QED BY <5>2 DEF n
      <4>2. SubSeq(resumeAt, 1, Len(resumeAt)) = resumeAt
        BY <3>2
      <4>3. \A j \in 1..1 : PathOf(st)[j] = resumeAt[j]
        BY <1>6, <3>5
      <4> HIDE DEF st
      <4>4. Along(st)
        BY <1>3, <1>4, <3>1, <3>3, <4>1, <4>2, <4>3 DEF Along
      <4> QED BY <1>7, <2>2, <4>4 DEF Reached
    <3> QED BY <3>6, <3>7
  <2> QED BY <2>1, <2>2
<1> QED BY <1>4, <1>5, <1>7 DEF c

\* The first hook, and the step the run begins with.
LEMMA BeforeAllKeeps ==
  ASSUME RunInv, BeforeAll
  PROVE  RunInv'
<1>1. /\ Running /\ ~host.settled /\ pc = "beforeAll"
      /\ UNCHANGED <<attempt, ctx, aborted, resumeAt, page, host, navs, rule, lateHook, outputs, completed>>
      /\ stack' = IF pc' = "main" THEN <<RunStepsFrom(Top, "rule", "top", 0, resumeAt)>> ELSE <<>>
  BY DEF BeforeAll, Alive, history
<1>2. /\ pc' \in {"main", "finish", "afterAll"}
      /\ \/ outcome' = outcome \/ outcome' = MarkFatalError \/ outcome' = ApplyAbort(outcome)
         \/ \E s \in Statuses : outcome' = ApplyExit(outcome, s)
      /\ \/ session' = session /\ wire' = wire
         \/ resumeAt = <<>> /\ CheckpointHook
  BY DEF BeforeAll
<1>3. outcome' \in Outcomes
  BY <1>2, RunFacts, OutcomesOk
<1>4. \/ session' = session /\ wire' = wire
      \/ resumeAt = <<>> /\ Writes(resumeAt)
  BY <1>1, <1>2 DEF CheckpointHook, Writes
<1>5. RunTyped'
  BY <1>1, <1>2, <1>3, <1>4, RunFacts, HookPath, TypedStep DEF Points
<1> DEFINE st == <<RunStepsFrom(Top, "rule", "top", 0, resumeAt)>>
           q == IF resumeAt = <<>> THEN <<Frame("top", 0, 0)>> ELSE resumeAt
<1>6. StackOk(st) /\ st # <<>> /\ st[1].idx = q[1].idx /\ (AllBelow(q) => Reached(st))
  BY RunFacts, FirstCall
<1>7. stack' = IF pc' = "main" THEN st ELSE <<>>
  BY <1>1
<1> HIDE DEF st
<1>8. PlaceSound'
  <2>1. StackOk(<<>>)
    BY DEF StackOk
  <2>2. lateHook # "written"
    BY <1>1, RunFacts DEF PlaceSound
  <2> QED BY <1>1, <1>2, <1>6, <1>7, <2>1, <2>2, RunFacts, PlaceStep
<1>9. DoneSound'
  <2>1. SUFFICES ASSUME lateHook = "no"
        PROVE  /\ AllBelow(Frontier)' /\ ToldUpTo(Frontier[1].idx)'
               /\ pc' = "main" => Reached(stack)' /\ ToldUpTo(stack[1].idx)'
    BY <1>1, <1>2 DEF DoneSound
  <2>2. /\ AllBelow(Frontier) /\ ToldUpTo(Frontier[1].idx)
        /\ IF resumeAt = <<>> THEN session.path = <<>> ELSE resumeAt = Frontier
    BY <1>1, <2>1, RunFacts DEF DoneSound
  <2>3. q = Frontier
    BY <2>2 DEF Frontier, NextPendingPath
  <2>4. Frontier' = Frontier /\ \A m \in Told' : m \in Told \/ m.path = <<>>
    <3>1. CASE session' = session /\ wire' = wire
      BY <1>1, <3>1, ToldSame DEF Frontier
    <3>2. CASE resumeAt = <<>> /\ Writes(resumeAt)
      <4>1. session'.path = <<>> /\ Told' = Told \cup {Note(resumeAt)} /\ Note(resumeAt).path = <<>>
        BY <1>1, <3>2, RunFacts, Written
      <4> QED BY <2>2, <3>2, <4>1 DEF Frontier
    <3> QED BY <1>4, <3>1, <3>2
  <2>5. AllBelow(Frontier)'
    BY <1>1, <2>2, <2>4 DEF AllBelow
  <2>6. ToldUpTo(Frontier[1].idx)'
    BY <1>1, <2>2, <2>4, RuleSame DEF ToldUpTo
  <2>7. ASSUME pc' = "main" PROVE Reached(stack)' /\ ToldUpTo(stack[1].idx)'
    <3>1. stack' = st /\ Reached(stack') /\ stack'[1].idx = Frontier[1].idx
      BY <1>6, <1>7, <2>2, <2>3, <2>7
    <3>2. Reached(stack)'
      BY <1>1, <3>1, RuleSame, ListsSame DEF Reached, AllBelow, Along, PathOf
    <3>3. ToldUpTo(stack[1].idx)'
      BY <1>1, <2>2, <2>4, <3>1, RuleSame DEF ToldUpTo
    <3> QED BY <3>2, <3>3
  <2> QED BY <2>5, <2>6, <2>7
<1>10. ContextSound'
  BY <1>1, <1>4, RunFacts, ContextStep
<1>11. RunsOnlyInDomain'
  BY <1>1, RunFacts DEF RunsOnlyInDomain
<1> QED BY <1>5, <1>8, <1>9, <1>10, <1>11 DEF RunInv

\* Without a light state a run would begin at the first step.
LEMMA NoSessionFits == Fits(NextPendingPath(<<>>)) /\ NoSession.path = <<>> /\ NoSession.status = "none"
                       /\ DOMAIN NoSession = {"path", "url", "policy", "status"}
<1>1. NextPendingPath(<<>>) = <<Frame("top", 0, 0)>>
  BY DEF NextPendingPath
<1> QED BY <1>1, FirstFits DEF NoSession

\* The end is reported with all that is in the context.
LEMMA ReportKeeps ==
  ASSUME RunInv, Report
  PROVE  RunInv'
<1> DEFINE m == [type |-> "complete", realm |-> navs, status |-> outcome.status, ctx |-> ctx]
<1>1. /\ Running /\ ~host.settled /\ pc = "report" /\ pc' = "ended" /\ wire' = Append(wire, m) /\ session' = NoSession
      /\ UNCHANGED <<stack, attempt, outcome, ctx, aborted, resumeAt, page, host, navs, rule, lateHook, outputs, completed>>
  BY DEF Report, Alive, history
<1>2. ctx \subseteq Paths /\ navs \in Nat /\ outcome.status \in Statuses
  BY RunFacts DEF RealmTyped, Outcomes, PathOk, Paths, Frames
<1>3. m \in CompleteMessages /\ m.type = "complete" /\ m.ctx = ctx
  BY <1>2 DEF CompleteMessages
<1> HIDE DEF m
<1>4. Sent(wire') = Sent(wire) \cup {m} /\ Told' = Told
  <2>1. Sent(wire') = Sent(wire) \cup {m}
    BY <1>1, RunFacts, SentMore DEF HostTyped
  <2> QED BY <1>1, <1>3, <2>1 DEF Told
<1>5. RunTyped'
  <2>1. RealmTyped'
    BY <1>1, RunFacts, RuleSame DEF RealmTyped, Points
  <2>2. SessionTyped'
    <3>1. Frontier' = NextPendingPath(<<>>)
      BY <1>1, NoSessionFits DEF Frontier
    <3>2. session'.path \in Seq(Frames)
      BY <1>1, NoSessionFits
    <3> QED BY <1>1, <3>1, <3>2, NoSessionFits, RuleSame DEF SessionTyped
  <2>3. DataTyped'
    BY <1>1, <1>3, <1>4, RunFacts DEF DataTyped
  <2>4. HostTyped'
    <3>1. wire' \in Seq(CheckpointMessages \cup CompleteMessages)
      BY <1>1, <1>3, RunFacts DEF HostTyped
    <3> QED BY <1>1, <1>4, <3>1, RunFacts DEF HostTyped
  <2> QED BY <2>1, <2>2, <2>3, <2>4 DEF RunTyped
<1>6. PlaceSound'
  BY <1>1, RunFacts, PlaceStep DEF PlaceSound
<1>7. DoneSound'
  BY <1>1, NoSessionFits DEF DoneSound
<1>8. ContextSound'
  <2>1. TopOutputs' = TopOutputs
    BY <1>1 DEF TopOutputs
  <2>2. lateHook # "rerun" => TopOutputs \subseteq ctx
    BY <1>1, RunFacts DEF ContextSound
  <2>3. \A n \in Sent(wire) : ~(n.type = "complete" /\ n.status = "success")
    BY <1>1, RunFacts DEF ContextSound
  <2>4. host.result # "success"
    BY <1>1, RunFacts DEF ContextSound
  <2>5. session'.status # "running"
    BY <1>1, NoSessionFits
  <2>6. lateHook = "no" => \A n \in Told : \A p \in TopOutputs :
          p \in n.ctx \/ n.path = <<>> \/ n.path[1].idx < p[1].idx
    BY RunFacts DEF ContextSound
  <2> QED BY <1>1, <1>3, <1>4, <2>1, <2>2, <2>3, <2>4, <2>5, <2>6 DEF ContextSound
<1>9. RunsOnlyInDomain'
  BY <1>1 DEF RunsOnlyInDomain, Running
<1> QED BY <1>5, <1>6, <1>7, <1>8, <1>9 DEF RunInv

-----------------------------------------------------------------------------
(* The driver and the wire.                                                *)

\* A step of the page, the driver or the network: the executor and what it has done stay.
LEMMA DriverStep ==
  ASSUME RunInv, UNCHANGED <<pc, stack, attempt, outcome, ctx, resumeAt, session, rule, lateHook, outputs, completed>>,
         aborted' \in BOOLEAN, page' \in Pages, navs' \in Nat, Running => page' \in InDomain,
         wire' \in Seq(CheckpointMessages \cup CompleteMessages), host' \in Hosts,
         \A m \in Sent(wire') : m \in Sent(wire) \/ (m.type = "complete" /\ m.status = "failure" /\ m.ctx = {}),
         host'.checkpoint \in Sent(wire) \cup {host.checkpoint},
         host'.settled \/ host'.hops <= HopLimit, host'.resuming => ~Running,
         host'.armed \/ /\ ~host.armed /\ wire' = <<>> /\ host'.checkpoint = NoCheckpoint /\ ~host'.resuming
                        /\ host'.queue = <<>>,
         host'.result = "success" =>
           host'.settled /\ (lateHook # "rerun" => TopOutputs \subseteq host'.data)
  PROVE  RunInv'
<1>1. Told' \subseteq Told
  BY DEF Told
<1>2. RealmTyped'
  BY RunFacts, RuleSame DEF RealmTyped
<1>3. SessionTyped'
  BY RunFacts, RuleSame DEF SessionTyped, Frontier
<1>4. DataTyped'
  BY RunFacts DEF DataTyped
<1>5. HostTyped'
  BY <1>1, RunFacts DEF HostTyped
<1>6. PlaceSound'
  <2>1. StackOk(stack)'
    <3>1. StackOk(stack')
      BY RunFacts DEF PlaceSound
    <3> QED BY <3>1, ListsSame DEF StackOk, CallOk, Hangs
  <2>2. pc = "leaf" => HasStep' /\ StepKind[CurStep'] = "leaf"
    BY RunFacts DEF PlaceSound, HasStep, CurStep, Cur
  <2> QED BY <2>1, <2>2, RunFacts DEF PlaceSound, Running
<1>7. DoneSound'
  BY <1>1, RunFacts, DoneStill
<1>8. ContextSound'
  <2>1. TopOutputs' = TopOutputs
    BY DEF TopOutputs
  <2>2. \A m \in Sent(wire') : m.type = "complete" /\ m.status = "success" => m \in Sent(wire)
    OBVIOUS
  <2> QED BY <1>1, <2>1, <2>2, RunFacts DEF ContextSound
<1>9. RunsOnlyInDomain'
  BY DEF RunsOnlyInDomain, Running
<1> QED BY <1>2, <1>3, <1>4, <1>5, <1>6, <1>7, <1>8, <1>9 DEF RunInv, RunTyped

\* The wire without some of its messages.
LEMMA Cut ==
  ASSUME NEW S, NEW w \in Seq(S), NEW n \in 0..Len(w)
  PROVE  SubSeq(w, 1, n) \in Seq(S) /\ Sent(SubSeq(w, 1, n)) \subseteq Sent(w)
<1>1. /\ SubSeq(w, 1, n) \in Seq(S) /\ Len(SubSeq(w, 1, n)) = n
      /\ \A i \in 1..n : SubSeq(w, 1, n)[i] = w[i]
  OBVIOUS
<1>2. \A i \in 1..n : i \in 1..Len(w)
  OBVIOUS
<1> QED BY <1>1, <1>2 DEF Sent

\* The wire without the message that arrives.
LEMMA Removed ==
  ASSUME NEW S, NEW w \in Seq(S), NEW i \in 1..Len(w)
  PROVE  LET v == SubSeq(w, 1, i - 1) \o SubSeq(w, i + 1, Len(w))
         IN v \in Seq(S) /\ Sent(v) \subseteq Sent(w)
<1> DEFINE a == SubSeq(w, 1, i - 1)
           b == SubSeq(w, i + 1, Len(w))
           v == a \o b
<1>1. /\ a \in Seq(S) /\ Len(a) = i - 1 /\ \A j \in 1..(i - 1) : a[j] = w[j]
  OBVIOUS
<1>2. /\ b \in Seq(S) /\ Len(b) = Len(w) - i /\ \A j \in 1..(Len(w) - i) : b[j] = w[i + j]
  OBVIOUS
<1>3. i - 1 \in Nat /\ Len(w) - i \in Nat /\ Len(w) \in Nat
  OBVIOUS
<1> HIDE DEF a, b
<1>4. /\ v \in Seq(S) /\ Len(v) = Len(a) + Len(b)
      /\ \A j \in 1..Len(v) : v[j] = IF j <= Len(a) THEN a[j] ELSE b[j - Len(a)]
  <2>1. a \in Seq(S) /\ b \in Seq(S)
    BY <1>1, <1>2
  <2>2. /\ v \in Seq(S) /\ Len(v) = Len(a) + Len(b)
        /\ \A j \in 1..(Len(a) + Len(b)) : v[j] = IF j <= Len(a) THEN a[j] ELSE b[j - Len(a)]
    BY <2>1, ConcatProperties, Zenon
  <2> HIDE DEF v
  <2> QED BY <2>2, Zenon
<1> HIDE DEF v
<1>5. ASSUME NEW j \in 1..Len(v) PROVE v[j] \in Sent(w)
  <2>1. CASE j <= i - 1
    <3>1. j \in 1..(i - 1) /\ j \in 1..Len(w)
      BY <1>1, <1>3, <2>1
    <3> QED BY <1>1, <1>4, <3>1 DEF Sent
  <2>2. CASE ~(j <= i - 1)
    <3>1. j - (i - 1) \in 1..(Len(w) - i) /\ i + (j - (i - 1)) \in 1..Len(w)
      BY <1>1, <1>2, <1>3, <1>4, <2>2
    <3>2. v[j] = b[j - (i - 1)]
      BY <1>1, <1>4, <2>2
    <3>3. v[j] = w[i + (j - (i - 1))]
      BY <1>2, <3>1, <3>2
    <3> QED BY <3>1, <3>3 DEF Sent
  <2> QED BY <2>1, <2>2
<1>6. Sent(v) \subseteq Sent(w)
  BY <1>5 DEF Sent
<1> QED BY <1>4, <1>6 DEF v, a, b

\* The driver's state as it is.
LEMMA HostFacts ==
  ASSUME RunInv
  PROVE  /\ host \in Hosts /\ wire \in Seq(CheckpointMessages \cup CompleteMessages)
         /\ host.settled \/ host.hops <= HopLimit
         /\ host.result = "success" => host.settled
         /\ host.resuming => ~Running
         /\ host.armed \/ /\ pc = "none" /\ wire = <<>> /\ host.checkpoint = NoCheckpoint /\ ~host.resuming
                          /\ host.queue = <<>> /\ session = NoSession /\ completed = {} /\ lateHook = "no"
         /\ aborted \in BOOLEAN /\ page \in Pages /\ navs \in Nat /\ (Running => page \in InDomain)
BY RunFacts DEF HostTyped, RealmTyped, PlaceSound, ContextSound, RunsOnlyInDomain

\* A redirect before the driver has injected anything.
LEMMA RedirectKeeps ==
  ASSUME RunInv, NEW p \in Pages, EntryRedirect(p)
  PROVE  RunInv'
<1>1. /\ ~host.armed /\ navs' = navs + 1 /\ page' = p
      /\ UNCHANGED <<pc, stack, attempt, outcome, ctx, aborted, resumeAt, session, wire, host, rule, lateHook, outputs, completed>>
  BY DEF EntryRedirect, realm, history
<1>2. ~Running
  BY <1>1, HostFacts DEF Running
<1>3. navs' \in Nat /\ host.result # "success"
  BY <1>1, HostFacts DEF EntryRedirect
<1> QED BY <1>1, <1>2, <1>3, HostFacts, DriverStep

\* A navigation inside the document stays on its origin, and so in the domain.
LEMMA SameDocumentKeeps ==
  ASSUME RunInv, NEW p \in Pages, SameDocument(p)
  PROVE  RunInv'
<1>1. /\ host.armed /\ ~host.settled /\ navs' = navs + 1 /\ page' = p /\ HostOf[p] = HostOf[page]
      /\ host' = [host EXCEPT !.queue = Append(@, p)]
      /\ UNCHANGED <<pc, stack, attempt, outcome, ctx, aborted, resumeAt, session, wire, rule, lateHook, outputs, completed>>
  BY DEF SameDocument, realm, history
<1>2. Running => p \in InDomain
  BY <1>1, HostFacts, RuleRunAssumption
<1>3. /\ host' \in Hosts /\ host'.armed /\ ~host'.settled /\ host'.checkpoint = host.checkpoint
      /\ host'.hops = host.hops /\ host'.resuming = host.resuming /\ host'.result = host.result
  <2>1. host \in Hosts /\ host.queue \in Seq(Pages) /\ Append(host.queue, p) \in Seq(Pages)
    BY HostFacts DEF Hosts
  <2> DEFINE w == Append(host.queue, p)
  <2>2. host' = [host EXCEPT !.queue = w] /\ w \in Seq(Pages)
    BY <1>1, <2>1
  <2> HIDE DEF w
  <2> QED BY <1>1, <2>1, <2>2 DEF Hosts
<1>4. navs' \in Nat /\ host'.result # "success" /\ host'.hops <= HopLimit
  BY <1>1, <1>3, HostFacts
<1> QED BY <1>1, <1>2, <1>3, <1>4, HostFacts, DriverStep

\* A step that only changes the driver, and ends the run as no success if at all.
LEMMA HostOnly ==
  ASSUME RunInv, ~host.settled, UNCHANGED <<realm, page, session, wire, navs, history>>, host' \in Hosts,
         host'.checkpoint = host.checkpoint, host'.settled \/ host'.hops <= HopLimit, host'.resuming => ~Running,
         host'.armed = host.armed, ~host.armed => ~host'.resuming /\ host'.queue = <<>>, host'.result # "success"
  PROVE  RunInv'
<1>1. UNCHANGED <<pc, stack, attempt, outcome, ctx, aborted, resumeAt, rule, lateHook, outputs, completed>>
  BY DEF realm, history
<1> QED BY <1>1, HostFacts, DriverStep

\* The page is lost,
LEMMA LostKeeps ==
  ASSUME RunInv, PageLost
  PROVE  RunInv'
<1>1. ~host.settled /\ host.armed /\ host' = [host EXCEPT !.settled = TRUE, !.result = "failure", !.data = {}]
  BY DEF PageLost, FinishOnce
<1>2. /\ host' \in Hosts /\ host'.settled /\ host'.checkpoint = host.checkpoint /\ host'.resuming = host.resuming
      /\ host'.armed = host.armed /\ host'.result = "failure"
  BY <1>1, HostFacts DEF Hosts, Statuses
<1> QED BY <1>1, <1>2, HostFacts, HostOnly DEF PageLost

\* the grace period of an abort ends,
LEMMA GraceKeeps ==
  ASSUME RunInv, AbortGraceEnds
  PROVE  RunInv'
<1> DEFINE h == [host EXCEPT !.abort = "over"]
<1>1. ~host.settled /\ host' = FinishOnce(h, "cancelled", {})
  BY DEF AbortGraceEnds
<1>2. /\ h \in Hosts /\ ~h.settled /\ h.checkpoint = host.checkpoint /\ h.resuming = host.resuming
      /\ h.armed = host.armed /\ h.queue = host.queue
  BY <1>1, HostFacts DEF Hosts
<1> HIDE DEF h
<1>3. host' = [h EXCEPT !.settled = TRUE, !.result = "cancelled", !.data = {}]
  BY <1>1, <1>2 DEF FinishOnce
<1>4. /\ host' \in Hosts /\ host'.settled /\ host'.checkpoint = host.checkpoint /\ host'.resuming = host.resuming
      /\ host'.armed = host.armed /\ host'.result = "cancelled" /\ host'.queue = host.queue
  BY <1>2, <1>3 DEF Hosts, Statuses
<1> QED BY <1>1, <1>4, HostFacts, HostOnly DEF AbortGraceEnds

\* the abort itself is told to a run that is there.
LEMMA AbortKeeps ==
  ASSUME RunInv, AbortTask
  PROVE  RunInv'
<1>1. /\ ~host.settled /\ host' = [host EXCEPT !.abort = "grace"] /\ aborted' = Running
      /\ UNCHANGED <<pc, stack, attempt, outcome, ctx, resumeAt, page, session, wire, navs, rule, lateHook, outputs, completed>>
  BY DEF AbortTask, history
<1>2. /\ host' \in Hosts /\ ~host'.settled /\ host'.checkpoint = host.checkpoint /\ host'.resuming = host.resuming
      /\ host'.armed = host.armed /\ host'.result = host.result /\ host'.queue = host.queue /\ host'.hops = host.hops
  BY <1>1, HostFacts DEF Hosts
<1>3. aborted' \in BOOLEAN
  BY <1>1 DEF Running
<1> QED BY <1>1, <1>2, <1>3, HostFacts, DriverStep

\* The driver sees a navigation: it is the same document, one too many, or a page to resume in.
LEMMA NavigationKeeps ==
  ASSUME RunInv, HandleNavigation
  PROVE  RunInv'
<1> DEFINE rest == [host EXCEPT !.queue = Tail(@)]
           more == [rest EXCEPT !.hops = @ + 1]
<1>1. /\ host.queue # <<>> /\ ~host.settled /\ UNCHANGED <<realm, page, session, wire, navs, history>>
      /\ \/ Running /\ host' = rest
         \/ ~Running /\ host' = FinishOnce(more, "failure", {})
         \/ ~Running /\ host.hops + 1 <= HopLimit /\ host' = [rest EXCEPT !.hops = @ + 1, !.resuming = TRUE]
  <2>1. host.hops \in Int /\ HopLimit \in Nat
    BY HostFacts, RuleRunAssumption DEF Hosts
  <2> QED BY <2>1 DEF HandleNavigation
<1>2. host.armed /\ host.hops <= HopLimit /\ HopLimit \in Nat /\ host.result # "success"
  BY <1>1, HostFacts, RuleRunAssumption
<1>3. /\ rest \in Hosts /\ ~rest.settled /\ rest.checkpoint = host.checkpoint /\ rest.resuming = host.resuming
      /\ rest.armed = host.armed /\ rest.result = host.result /\ rest.hops = host.hops
  <2>1. host.queue \in Seq(Pages) /\ Tail(host.queue) \in Seq(Pages)
    BY <1>1, HostFacts DEF Hosts
  <2> QED BY <1>1, <2>1, HostFacts DEF Hosts
<1> HIDE DEF rest
<1>4. CASE Running /\ host' = rest
  BY <1>1, <1>2, <1>3, <1>4, HostFacts, HostOnly
<1>5. CASE ~Running /\ host' = FinishOnce(more, "failure", {})
  <2>1. /\ more \in Hosts /\ ~more.settled /\ more.checkpoint = host.checkpoint /\ more.armed = host.armed
    <3> DEFINE n == rest.hops + 1
    <3>1. more = [rest EXCEPT !.hops = n] /\ n \in 0..(HopLimit + 1)
      <4>1. rest.hops \in Nat
        BY <1>3 DEF Hosts
      <4> QED BY <1>2, <1>3, <4>1
    <3> HIDE DEF n, more
    <3> QED BY <1>3, <3>1 DEF Hosts
  <2> HIDE DEF more
  <2>2. host' = [more EXCEPT !.settled = TRUE, !.result = "failure", !.data = {}]
    BY <1>5, <2>1 DEF FinishOnce
  <2>3. /\ host' \in Hosts /\ host'.settled /\ host'.checkpoint = host.checkpoint /\ host'.armed = host.armed
        /\ host'.result = "failure"
    BY <2>1, <2>2 DEF Hosts, Statuses
  <2> QED BY <1>1, <1>2, <1>5, <2>3, HostOnly
<1>6. CASE ~Running /\ host.hops + 1 <= HopLimit /\ host' = [rest EXCEPT !.hops = @ + 1, !.resuming = TRUE]
  <2>1. /\ host' \in Hosts /\ host'.checkpoint = host.checkpoint /\ host'.armed = host.armed
        /\ host'.result = host.result /\ host'.hops = host.hops + 1
    <3> DEFINE n == rest.hops + 1
    <3>1. host' = [rest EXCEPT !.hops = n, !.resuming = TRUE] /\ n \in 0..(HopLimit + 1) /\ n = host.hops + 1
      <4>1. rest.hops \in Nat
        BY <1>3 DEF Hosts
      <4> QED BY <1>2, <1>3, <1>6, <4>1
    <3> HIDE DEF n
    <3> QED BY <1>3, <3>1 DEF Hosts
  <2> QED BY <1>1, <1>2, <1>6, <2>1, HostOnly
<1> QED BY <1>1, <1>4, <1>5, <1>6

\* A message arrives: the end of the run, or a checkpoint that is not older than the one kept.
LEMMA DeliverKeeps ==
  ASSUME RunInv, NEW i \in 1..Len(wire), Deliver(i)
  PROVE  RunInv'
<1> DEFINE m == wire[i]
<1>1. /\ ~host.settled /\ UNCHANGED <<pc, stack, attempt, outcome, ctx, aborted, resumeAt, page, session, navs>>
      /\ UNCHANGED <<rule, lateHook, outputs, completed>>
      /\ wire' = SubSeq(wire, 1, i - 1) \o SubSeq(wire, i + 1, Len(wire))
      /\ host' = IF m.type = "complete" THEN FinishOnce(host, m.status, m.ctx) ELSE TakeCheckpoint(host, m)
  BY DEF Deliver, realm, history
<1>2. wire' \in Seq(CheckpointMessages \cup CompleteMessages) /\ Sent(wire') \subseteq Sent(wire)
  BY <1>1, HostFacts, Removed
<1>3. m \in Sent(wire) /\ m \in CheckpointMessages \cup CompleteMessages
  <2>1. m \in Sent(wire)
    BY DEF Sent
  <2> QED BY <2>1, HostFacts
<1>4. host.armed /\ host.hops <= HopLimit /\ host.result # "success"
  <2>1. wire # <<>>
    OBVIOUS
  <2> QED BY <1>1, <2>1, HostFacts
<1> HIDE DEF m
<1>5. /\ host' \in Hosts /\ host'.checkpoint \in Sent(wire) \cup {host.checkpoint} /\ host'.armed
      /\ host'.resuming = host.resuming /\ (host'.settled \/ host'.hops <= HopLimit)
      /\ host'.result = "success" => host'.settled /\ (lateHook # "rerun" => TopOutputs \subseteq host'.data)
  <2>1. CASE m.type = "complete"
    <3>1. m \in CompleteMessages
      BY <1>3, <2>1 DEF CheckpointMessages
    <3>2. host' = [host EXCEPT !.settled = TRUE, !.result = m.status, !.data = m.ctx]
      BY <1>1, <2>1 DEF FinishOnce
    <3>3. m.status \in Statuses /\ m.ctx \in SUBSET Paths
      BY <3>1 DEF CompleteMessages
    <3>4. /\ host' \in Hosts /\ host'.checkpoint = host.checkpoint /\ host'.armed /\ host'.settled
          /\ host'.resuming = host.resuming /\ host'.result = m.status /\ host'.data = m.ctx
      BY <1>4, <3>2, <3>3, HostFacts DEF Hosts
    <3>5. m.status = "success" => (lateHook # "rerun" => TopOutputs \subseteq m.ctx)
      BY <1>3, <2>1, RunFacts DEF ContextSound
    <3> QED BY <3>4, <3>5
  <2>2. CASE m.type # "complete"
    <3>1. m \in CheckpointMessages
      BY <1>3, <2>2 DEF CompleteMessages
    <3>2. host' = [host EXCEPT !.checkpoint = m] \/ host' = host
      BY <1>1, <2>2 DEF TakeCheckpoint
    <3>3. CASE host' = [host EXCEPT !.checkpoint = m]
      BY <1>3, <1>4, <3>1, <3>3, HostFacts DEF Hosts
    <3>4. CASE host' = host
      BY <1>4, <3>4, HostFacts
    <3> QED BY <3>2, <3>3, <3>4
  <2> QED BY <2>1, <2>2
<1> QED BY <1>1, <1>2, <1>5, HostFacts, DriverStep

-----------------------------------------------------------------------------
(* Navigation, boot and resume.                                            *)

\* A page that goes elsewhere: the realm is gone, and what is on the wire may be lost with it.
LEMMA NavigateKeeps ==
  ASSUME RunInv, NEW p \in Pages, Navigate(p), UNCHANGED <<rule, lateHook, outputs>>, completed \subseteq completed',
         \A x \in completed' : PathOk(x) /\ x # <<>> /\ TopFirst(x),
         lateHook = "no" /\ session.status = "running" => \A x \in completed' : Below(x, Frontier)
  PROVE  RunInv'
<1>1. /\ host.armed /\ ~host.settled /\ navs' = navs + 1 /\ page' = p /\ session' = session
      /\ pc' = "none" /\ stack' = <<>> /\ attempt' = 0 /\ aborted' = FALSE /\ ctx' = {} /\ resumeAt' = <<>>
      /\ outcome' = [status |-> "success", fatal |-> FALSE]
      /\ host' = [host EXCEPT !.queue = Append(@, p)]
  BY DEF Navigate, RealmGone
<1>2. wire' \in Seq(CheckpointMessages \cup CompleteMessages) /\ Sent(wire') \subseteq Sent(wire)
  <2>1. PICK n \in 0..Len(wire) : wire' = SubSeq(wire, 1, n)
    BY DEF Navigate
  <2> QED BY <2>1, HostFacts, Cut
<1>3. /\ host' \in Hosts /\ host'.armed /\ ~host'.settled /\ host'.checkpoint = host.checkpoint
      /\ host'.hops = host.hops /\ host'.result = host.result
  <2>1. host \in Hosts /\ host.queue \in Seq(Pages) /\ Append(host.queue, p) \in Seq(Pages)
    BY HostFacts DEF Hosts
  <2> DEFINE w == Append(host.queue, p)
  <2>2. host' = [host EXCEPT !.queue = w] /\ w \in Seq(Pages)
    BY <1>1, <2>1
  <2> HIDE DEF w
  <2> QED BY <1>1, <2>1, <2>2 DEF Hosts
<1>4. Told' \subseteq Told /\ host.result # "success" /\ host.hops <= HopLimit
  BY <1>1, <1>2, <1>3, HostFacts DEF Told
<1>5. RunTyped'
  <2>1. RealmTyped'
    <3>1. rule' \in Rules /\ lateHook' \in {"no", "written", "rerun"} /\ navs' \in Nat
      BY <1>1, HostFacts, RunFacts
    <3>2. aborted' \in BOOLEAN /\ outcome' \in Outcomes
      BY <1>1 DEF Outcomes, Statuses
    <3>3. pc' \in Points /\ attempt' \in Nat /\ page' \in Pages /\ resumeAt' = <<>>
      BY <1>1 DEF Points
    <3> QED BY <3>1, <3>2, <3>3 DEF RealmTyped
  <2>2. SessionTyped'
    BY <1>1, RunFacts, RuleSame DEF SessionTyped, Frontier
  <2>3. DataTyped'
    BY <1>1, <1>2, <1>3, RunFacts DEF DataTyped
  <2>4. HostTyped'
    BY <1>2, <1>3, <1>4, RunFacts DEF HostTyped
  <2> QED BY <2>1, <2>2, <2>3, <2>4 DEF RunTyped
<1>6. PlaceSound'
  <2>1. StackOk(stack)'
    BY <1>1 DEF StackOk
  <2> QED BY <1>1, <1>3, <2>1 DEF PlaceSound, Running
<1>7. DoneSound'
  <2>1. Frontier' = Frontier
    BY <1>1 DEF Frontier
  <2>2. \A c : ToldUpTo(c) => ToldUpTo(c)'
    BY <1>4, RuleSame DEF ToldUpTo
  <2>3. lateHook = "no" /\ session.status = "running" => ToldUpTo(Frontier[1].idx)
    BY RunFacts DEF DoneSound
  <2>4. lateHook = "no" /\ session.status = "running" => AllBelow(Frontier)'
    BY <2>1 DEF AllBelow
  <2> QED BY <1>1, <2>1, <2>2, <2>3, <2>4 DEF DoneSound
<1>8. ContextSound'
  <2>1. TopOutputs' = TopOutputs
    BY DEF TopOutputs
  <2> QED BY <1>1, <1>2, <1>3, <1>4, <2>1, RunFacts DEF ContextSound
<1>9. RunsOnlyInDomain'
  BY <1>1 DEF RunsOnlyInDomain, Running
<1> QED BY <1>5, <1>6, <1>7, <1>8, <1>9 DEF RunInv

\* The page goes somewhere by itself.
LEMMA SiteKeeps ==
  ASSUME RunInv, NEW p \in Pages, SiteNavigates(p)
  PROVE  RunInv'
<1>1. Navigate(p) /\ UNCHANGED <<rule, lateHook, outputs, completed>>
  BY DEF SiteNavigates, history
<1>2. lateHook = "no" /\ session.status = "running" => \A x \in completed' : Below(x, Frontier)
  BY <1>1, RunFacts DEF DoneSound, AllBelow
<1> QED BY <1>1, <1>2, RunFacts, NavigateKeeps

\* A leaf takes the page elsewhere: it was recorded before it began.
LEMMA LeafNavigatesKeeps ==
  ASSUME RunInv, NEW p \in Pages, LeafNavigates(p)
  PROVE  RunInv'
<1>1. /\ Alive /\ pc = "leaf" /\ CurStep \in Navigating /\ completed' = completed \cup {CurPath}
      /\ Navigate(p) /\ UNCHANGED <<rule, lateHook, outputs>>
  BY DEF LeafNavigates
<1>2. CurPath = PathOf(stack) /\ StackOk(stack) /\ stack # <<>>
  BY <1>1, AtLeaf
<1>3. \A x \in completed' : PathOk(x) /\ x # <<>> /\ TopFirst(x)
  BY <1>1, <1>2, MainFacts
<1>4. ASSUME lateHook = "no", session.status = "running" PROVE \A x \in completed' : Below(x, Frontier)
  <2>1. Reached(stack) /\ session.path = CurPath
    BY <1>1, <1>4, MainFacts DEF DoneSound
  <2>2. Len(stack) <= Len(stack)
    BY <1>2 DEF StackOk
  <2>3. /\ PathOf(Advance(stack)) = NextPendingPath(PathOf(stack))
        /\ AllBelow(PathOf(Advance(stack))) /\ Below(PathOf(stack), PathOf(Advance(stack)))
    BY <1>1, <1>2, <2>1, <2>2, MainFacts, ReachedNext
  <2>4. Frontier = PathOf(Advance(stack))
    BY <1>2, <2>1, <2>3 DEF Frontier
  <2> QED BY <1>1, <1>2, <2>3, <2>4 DEF AllBelow
<1> QED BY <1>1, <1>3, <1>4, NavigateKeeps

\* A run that is refused leaves the page as it is and says so.
LEMMA RefuseFacts ==
  ASSUME RunInv, Refuse
  PROVE  /\ wire' \in Seq(CheckpointMessages \cup CompleteMessages)
         /\ \A m \in Sent(wire') : m \in Sent(wire) \/ (m.type = "complete" /\ m.status = "failure" /\ m.ctx = {})
<1> DEFINE r == [type |-> "complete", realm |-> navs, status |-> "failure", ctx |-> {}]
<1>1. wire' = Append(wire, r)
  BY DEF Refuse
<1>2. r \in CompleteMessages /\ r.type = "complete" /\ r.status = "failure" /\ r.ctx = {}
  BY HostFacts DEF CompleteMessages, Statuses
<1> HIDE DEF r
<1>3. wire' \in Seq(CheckpointMessages \cup CompleteMessages)
  BY <1>1, <1>2, HostFacts
<1>4. Sent(wire') = Sent(wire) \cup {r}
  BY <1>1, HostFacts, SentMore
<1> QED BY <1>2, <1>3, <1>4

\* The first page of the run: nothing is done yet.
LEMMA BootKeeps ==
  ASSUME RunInv, Boot
  PROVE  RunInv'
<1>1. ~host.armed /\ ~host.settled /\ UNCHANGED <<page, navs, rule, lateHook, outputs, completed>>
  BY DEF Boot, history
<1>2. /\ pc = "none" /\ wire = <<>> /\ host.checkpoint = NoCheckpoint /\ ~host.resuming /\ host.queue = <<>>
      /\ session = NoSession /\ completed = {} /\ outputs = {} /\ lateHook = "no" /\ host.result # "success"
      /\ host \in Hosts /\ host.hops <= HopLimit
  BY <1>1, HostFacts, RunFacts
<1>3. CASE host' = FinishOnce(host, "failure", {}) /\ UNCHANGED <<realm, session, wire>>
  <2>1. host' = [host EXCEPT !.settled = TRUE, !.result = "failure", !.data = {}]
    BY <1>1, <1>3 DEF FinishOnce
  <2>2. /\ host' \in Hosts /\ host'.settled /\ host'.checkpoint = host.checkpoint /\ host'.resuming = host.resuming
        /\ host'.armed = host.armed /\ host'.result = "failure" /\ host'.queue = host.queue
    BY <1>2, <2>1 DEF Hosts, Statuses
  <2>3. UNCHANGED history
    BY <1>1 DEF history
  <2> QED BY <1>1, <1>2, <1>3, <2>2, <2>3, HostOnly
<1>4. CASE RunWithPayload(FALSE) /\ host' = [host EXCEPT !.armed = TRUE]
  <2>1. /\ host' \in Hosts /\ host'.armed /\ host'.checkpoint = host.checkpoint /\ ~host'.resuming
        /\ host'.settled = host.settled /\ host'.hops = host.hops /\ host'.result = host.result
    BY <1>2, <1>4 DEF Hosts
  <2>2. CASE Refuse
    <3>1. UNCHANGED <<pc, stack, attempt, outcome, ctx, aborted, resumeAt, session>>
      BY <2>2 DEF Refuse, realm
    <3> QED BY <1>1, <1>2, <2>1, <2>2, <3>1, HostFacts, RefuseFacts, DriverStep
  <2>3. CASE ~Refuse
    <3>1. /\ DomainCheck(page) /\ pc' = "beforeAll" /\ stack' = <<>> /\ attempt' = 0 /\ aborted' = FALSE
          /\ outcome' = [status |-> "success", fatal |-> FALSE] /\ resumeAt' = <<>> /\ ctx' = {}
          /\ session' = SaveState(<<>>, page, "expected-path") /\ wire' = wire
      BY <1>4, <2>3 DEF RunWithPayload
    <3>2. /\ session'.path = <<>> /\ session'.status = "running"
          /\ DOMAIN session' = {"path", "url", "policy", "status"}
      BY <3>1 DEF SaveState
    <3>3. Sent(wire') = {} /\ Told' = {}
      <4>1. Sent(wire') = {}
        BY <1>2, <3>1 DEF Sent
      <4> QED BY <1>2, <2>1, <4>1 DEF Told, NoCheckpoint
    <3>4. Frontier' = NextPendingPath(<<>>) /\ Fits(NextPendingPath(<<>>))
      BY <3>2, NoSessionFits DEF Frontier
    <3>5. RunTyped'
      <4>1. RealmTyped'
        BY <1>1, <3>1, RunFacts DEF RealmTyped, Points, Outcomes, Statuses
      <4>2. SessionTyped'
        <5>1. Fits(Frontier')
          BY <3>4
        <5>2. Fits(Frontier)'
          BY <1>1, <5>1, RuleSame
        <5> QED BY <3>2, <5>2 DEF SessionTyped
      <4>3. DataTyped'
        BY <1>1, <1>2, <2>1, <3>1, <3>3 DEF DataTyped, NoCheckpoint
      <4>4. HostTyped'
        BY <1>2, <2>1, <3>1, <3>3 DEF HostTyped
      <4> QED BY <4>1, <4>2, <4>3, <4>4 DEF RunTyped
    <3>6. PlaceSound'
      <4>1. StackOk(stack)'
        BY <3>1 DEF StackOk
      <4> QED BY <1>1, <1>2, <2>1, <3>1, <4>1 DEF PlaceSound
    <3>7. DoneSound'
      <4>1. AllBelow(Frontier)' /\ ToldUpTo(Frontier[1].idx)'
        BY <1>1, <1>2, <3>3 DEF AllBelow, ToldUpTo
      <4> QED BY <3>1, <3>2, <4>1 DEF DoneSound
    <3>8. ContextSound'
      <4>1. TopOutputs' = {}
        BY <1>1, <1>2 DEF TopOutputs
      <4> QED BY <1>2, <2>1, <3>3, <4>1 DEF ContextSound
    <3>9. RunsOnlyInDomain'
      BY <1>1, <3>1 DEF RunsOnlyInDomain, DomainCheck
    <3> QED BY <3>5, <3>6, <3>7, <3>8, <3>9 DEF RunInv
  <2> QED BY <2>2, <2>3
<1> QED BY <1>3, <1>4 DEF Boot

\* The context a page resumes with: it is not older than the light state, so that no output
\* of a step of the rule that lies before the light state is missing from it.
LEMMA ResumeHasOutputs ==
  ASSUME RunInv, lateHook = "no", ValidateResume(session, page, host.checkpoint)
  PROVE  TopOutputs \subseteq host.checkpoint.ctx
<1> DEFINE cp == host.checkpoint
           s == session.path
<1>1. session.status = "running" /\ cp.type # "none" /\ ~PathLess(cp.path, s)
  BY DEF ValidateResume
<1>2. cp \in Told /\ cp.path \in Seq(Frames) /\ TopFirst(cp.path)
  <2>1. cp \in CheckpointMessages \cup {NoCheckpoint}
    BY HostFacts DEF Hosts
  <2>2. cp \in CheckpointMessages
    BY <1>1, <2>1 DEF NoCheckpoint
  <2>3. cp.type = "checkpoint" /\ cp.path \in Seq(Frames)
    BY <2>2 DEF CheckpointMessages
  <2>4. cp \in Told
    BY <2>3 DEF Told
  <2> QED BY <2>3, <2>4, RunFacts DEF HostTyped
<1>3. AllBelow(Frontier) /\ s \in Seq(Frames) /\ Fits(Frontier) /\ Frontier = NextPendingPath(s)
  BY <1>1, RunFacts DEF DoneSound, SessionTyped, Frontier
<1>4. PathOk(Frontier) /\ Frontier # <<>> /\ Frontier[1].kind = "top" /\ Frontier[1].sel = 0 /\ Frontier[1].idx \in Nat
  <2>1. PathOk(Frontier) /\ Frontier # <<>> /\ Frontier[1].kind = "top"
    BY <1>3 DEF Fits, Leads
  <2>2. 1 \in 1..Len(Frontier)
    BY <2>1 DEF PathOk
  <2>3. FrameOk(Frontier[1])
    BY <2>1, <2>2 DEF PathOk
  <2> QED BY <2>1, <2>3 DEF FrameOk, Frames
<1> HIDE DEF cp, s
<1>5. ASSUME NEW p \in TopOutputs PROVE p \in cp.ctx
  <2>1. p \in completed /\ Len(p) = 1 /\ PathOk(p) /\ TopFirst(p) /\ p # <<>>
    BY RunFacts DEF TopOutputs
  <2>2. FrameOk(p[1]) /\ p[1].kind = "top" /\ p[1].sel = 0
    BY <2>1 DEF PathOk, TopFirst
  <2>3. p[1].idx \in Nat
    BY <2>2 DEF FrameOk, Frames
  <2>4. p[1].idx < Frontier[1].idx
    <3>1. Below(p, Frontier)
      BY <1>3, <2>1 DEF AllBelow
    <3>2. PICK n \in 1..Len(p) : Sooner(p[n], Frontier[n])
      BY <3>1 DEF Below
    <3>3. n = 1
      BY <2>1, <3>2
    <3> QED BY <1>4, <2>2, <3>2, <3>3 DEF Sooner
  <2>5. p \in cp.ctx \/ cp.path = <<>> \/ cp.path[1].idx < p[1].idx
    BY <1>2, RunFacts DEF ContextSound
  <2>6. s # <<>> /\ s[1].kind = "top" /\ s[1].sel = 0 /\ s[1].idx \in Int /\ p[1].idx <= s[1].idx
    <3>1. CASE s = <<>>
      <4>1. Frontier[1] = Frame("top", 0, 0)
        BY <1>3, <3>1, NextFirst
      <4> QED BY <2>3, <2>4, <4>1 DEF Frame
    <3>2. CASE s # <<>>
      <4>1. s[1] \in Frames
        BY <1>3, <3>2
      <4>2. CASE Len(s) = 1
        <5>1. Frontier[1] = Frame(s[1].kind, s[1].sel, s[1].idx + 1)
          BY <1>3, <4>2, NextFirst
        <5>2. Frontier[1].kind = s[1].kind /\ Frontier[1].sel = s[1].sel /\ Frontier[1].idx = s[1].idx + 1
          BY <5>1 DEF Frame
        <5>3. s[1].idx \in Int
          BY <4>1 DEF Frames
        <5> QED BY <1>4, <2>3, <2>4, <3>2, <5>2, <5>3
      <4>3. CASE Len(s) # 1
        <5>1. Frontier[1] = s[1]
          BY <1>3, <3>2, <4>3, NextFirst
        <5> QED BY <1>4, <2>3, <2>4, <3>2, <5>1
      <4> QED BY <4>2, <4>3
    <3> QED BY <3>1, <3>2
  <2>7. 1 \in 1..Len(s)
    BY <1>3, <2>6
  <2>8. cp.path # <<>>
    <3>1. ASSUME cp.path = <<>> PROVE PathLess(cp.path, s)
      <4>1. 1 > Len(cp.path)
        BY <3>1
      <4>2. \A m \in 1..(1 - 1) : m <= Len(cp.path) /\ cp.path[m] = s[m]
        OBVIOUS
      <4> QED BY <2>7, <4>1, <4>2 DEF PathLess
    <3> QED BY <1>1, <3>1 DEF cp, s
  <2>9. ~(cp.path[1].idx < p[1].idx)
    <3>1. ASSUME cp.path[1].idx < p[1].idx PROVE PathLess(cp.path, s)
      <4>1. cp.path[1] \in Frames
        BY <1>2, <2>8
      <4>2. cp.path[1].idx \in Int /\ cp.path[1].kind = "top" /\ cp.path[1].sel = 0
        BY <1>2, <2>8, <4>1 DEF TopFirst, Frames
      <4>3. FrameLess(cp.path[1], s[1])
        <5>1. cp.path[1].idx < s[1].idx
          BY <2>3, <2>6, <3>1, <4>2
        <5> QED BY <2>6, <4>2, <5>1 DEF FrameLess
      <4>4. \A m \in 1..(1 - 1) : m <= Len(cp.path) /\ cp.path[m] = s[m]
        OBVIOUS
      <4> QED BY <2>7, <4>3, <4>4 DEF PathLess
    <3> QED BY <1>1, <3>1 DEF cp, s
  <2> QED BY <2>5, <2>8, <2>9
<1> QED BY <1>5 DEF cp

\* The run goes on in the next page, or is refused there.
LEMMA ResumeKeeps ==
  ASSUME RunInv, ResumeInPage
  PROVE  RunInv'
<1>1. /\ host.resuming /\ ~host.settled /\ host' = [host EXCEPT !.resuming = FALSE] /\ RunWithPayload(TRUE)
      /\ lateHook' = IF lateHook = "written" /\ pc' = "beforeAll" THEN "rerun" ELSE lateHook
      /\ UNCHANGED <<page, navs, rule, outputs, completed>>
  BY DEF ResumeInPage
<1>2. /\ ~Running /\ host.armed /\ host.hops <= HopLimit /\ host.result # "success" /\ host \in Hosts
      /\ lateHook \in {"no", "written", "rerun"}
  BY <1>1, HostFacts, RunFacts
<1>3. /\ host' \in Hosts /\ host'.armed /\ host'.checkpoint = host.checkpoint /\ ~host'.resuming
      /\ host'.settled = host.settled /\ host'.hops = host.hops /\ host'.result = host.result
  BY <1>1, <1>2 DEF Hosts
<1>4. CASE Refuse
  <2>1. UNCHANGED <<pc, stack, attempt, outcome, ctx, aborted, resumeAt, session>>
    BY <1>4 DEF Refuse, realm
  <2>2. lateHook' = lateHook
    BY <1>1, <1>2, <2>1 DEF Running
  <2> QED BY <1>1, <1>2, <1>3, <1>4, <2>1, <2>2, HostFacts, RefuseFacts, DriverStep
<1>5. CASE ~Refuse
  <2>1. /\ ValidateResume(session, page, host.checkpoint) /\ DomainCheck(page)
        /\ pc' = "beforeAll" /\ stack' = <<>> /\ attempt' = 0 /\ aborted' = FALSE
        /\ outcome' = [status |-> "success", fatal |-> FALSE] /\ resumeAt' = Frontier
        /\ ctx' = host.checkpoint.ctx /\ session' = session /\ wire' = wire
    BY <1>1, <1>5 DEF RunWithPayload, Frontier
  <2>2. session.status = "running"
    BY <2>1 DEF ValidateResume
  <2>3. Told' = Told /\ Sent(wire') = Sent(wire) /\ Frontier' = Frontier
    BY <1>3, <2>1 DEF Told, Frontier
  <2>4. lateHook' = (IF lateHook = "written" THEN "rerun" ELSE lateHook)
    BY <1>1, <2>1
  <2>5. Frontier # <<>> /\ Fits(Frontier) /\ Fits(Frontier)'
    <3>1. Fits(Frontier)
      BY RunFacts DEF SessionTyped
    <3>2. Fits(Frontier') /\ Frontier # <<>>
      BY <2>3, <3>1 DEF Fits
    <3>3. Fits(Frontier)'
      BY <1>1, <3>2, RuleSame
    <3> QED BY <3>1, <3>2, <3>3
  <2>6. RunTyped'
    <3>1. Fits(resumeAt)'
      BY <1>1, <2>1, <2>5, RuleSame
    <3>2. RealmTyped'
      BY <1>1, <2>1, <2>4, <3>1, RunFacts DEF RealmTyped, Points, Outcomes, Statuses
    <3>3. SessionTyped'
      BY <2>1, <2>5, RunFacts DEF SessionTyped
    <3>4. DataTyped'
      BY <1>1, <1>3, <2>1, <2>3, RunFacts DEF DataTyped
    <3>5. HostTyped'
      BY <1>2, <1>3, <2>1, <2>3, RunFacts DEF HostTyped
    <3> QED BY <3>2, <3>3, <3>4, <3>5 DEF RunTyped
  <2>7. PlaceSound'
    <3>1. StackOk(stack)'
      BY <2>1 DEF StackOk
    <3> QED BY <1>2, <1>3, <2>1, <2>4, <3>1 DEF PlaceSound
  <2>8. DoneSound'
    <3>1. ASSUME lateHook = "no" PROVE AllBelow(Frontier) /\ ToldUpTo(Frontier[1].idx)
      BY <2>2, <3>1, RunFacts DEF DoneSound
    <3>2. AllBelow(Frontier) => AllBelow(Frontier)'
      BY <1>1, <2>3 DEF AllBelow
    <3>3. ToldUpTo(Frontier[1].idx) => ToldUpTo(Frontier[1].idx)'
      BY <1>1, <2>3, RuleSame DEF ToldUpTo
    <3> QED BY <2>1, <2>2, <2>3, <2>4, <2>5, <3>1, <3>2, <3>3 DEF DoneSound
  <2>9. ContextSound'
    <3>1. TopOutputs' = TopOutputs
      BY <1>1 DEF TopOutputs
    <3>2. lateHook' # "rerun" => TopOutputs \subseteq ctx'
      BY <1>2, <2>1, <2>4, ResumeHasOutputs
    <3>3. \A m \in Sent(wire) : ~(m.type = "complete" /\ m.status = "success")
      BY <2>2, RunFacts DEF ContextSound
    <3>4. lateHook = "no" => \A m \in Told : \A p \in TopOutputs :
            p \in m.ctx \/ m.path = <<>> \/ m.path[1].idx < p[1].idx
      BY RunFacts DEF ContextSound
    <3> QED BY <1>2, <1>3, <2>3, <2>4, <3>1, <3>2, <3>3, <3>4 DEF ContextSound
  <2>10. RunsOnlyInDomain'
    BY <1>1, <2>1 DEF RunsOnlyInDomain, DomainCheck
  <2> QED BY <2>6, <2>7, <2>8, <2>9, <2>10 DEF RunInv
<1> QED BY <1>4, <1>5

-----------------------------------------------------------------------------
(* The theorem.                                                            *)

\* Before the task is taken there is nothing on the page.
LEMMA RunStarts == Init => RunInv
<1> SUFFICES ASSUME Init PROVE RunInv
  OBVIOUS
<1>1. /\ rule \in Rules /\ lateHook = "no" /\ pc = "none" /\ stack = <<>> /\ attempt = 0 /\ ctx = {} /\ aborted = FALSE
      /\ resumeAt = <<>> /\ outcome = [status |-> "success", fatal |-> FALSE]
      /\ page = Entry /\ session = NoSession /\ wire = <<>> /\ navs = 0 /\ outputs = {} /\ completed = {}
  BY DEF Init
<1>2. host = [armed |-> FALSE, settled |-> FALSE, result |-> "none", data |-> {}, hops |-> 0,
              checkpoint |-> NoCheckpoint, queue |-> <<>>, resuming |-> FALSE, abort |-> "no"]
  BY DEF Init
<1>3. /\ host \in Hosts /\ ~host.armed /\ host.hops = 0 /\ host.checkpoint = NoCheckpoint /\ host.queue = <<>>
      /\ ~host.resuming /\ host.result = "none"
  <2>1. 0 \in 0..(HopLimit + 1) /\ <<>> \in Seq(Pages)
    BY RuleRunAssumption
  <2> QED BY <1>2, <2>1 DEF Hosts
<1>4. Sent(wire) = {} /\ Told = {}
  <2>1. Sent(wire) = {}
    BY <1>1 DEF Sent
  <2> QED BY <1>3, <2>1 DEF Told, NoCheckpoint
<1>5. RunTyped
  <2>1. RealmTyped
    <3>1. page \in Pages
      BY <1>1, RuleRunAssumption
    <3> QED BY <1>1, <3>1 DEF RealmTyped, Points, Outcomes, Statuses
  <2>2. SessionTyped
    BY <1>1, NoSessionFits DEF SessionTyped, Frontier
  <2>3. DataTyped
    BY <1>1, <1>3, <1>4 DEF DataTyped, NoCheckpoint
  <2>4. HostTyped
    BY <1>1, <1>3, <1>4, RuleRunAssumption DEF HostTyped
  <2> QED BY <2>1, <2>2, <2>3, <2>4 DEF RunTyped
<1>6. PlaceSound
  BY <1>1, <1>3 DEF PlaceSound, StackOk, Running
<1>7. DoneSound
  BY <1>1, NoSessionFits DEF DoneSound
<1>8. ContextSound
  BY <1>1, <1>3, <1>4 DEF ContextSound
<1>9. RunsOnlyInDomain
  BY <1>1 DEF RunsOnlyInDomain, Running
<1> QED BY <1>5, <1>6, <1>7, <1>8, <1>9 DEF RunInv

\* A step that changes nothing.
LEMMA RunStutters ==
  ASSUME RunInv, UNCHANGED vars
  PROVE  RunInv'
<1>1. /\ UNCHANGED <<pc, stack, attempt, outcome, ctx, resumeAt, session, rule, lateHook, outputs, completed>>
      /\ aborted' = aborted /\ page' = page /\ navs' = navs /\ wire' = wire /\ host' = host
  BY DEF vars
<1>2. host.result = "success" => (lateHook # "rerun" => TopOutputs \subseteq host.data)
  BY RunFacts DEF ContextSound
<1> QED BY <1>1, <1>2, HostFacts, DriverStep

\* Every step of the executor, of the page, of the driver and of the network keeps it.
LEMMA RunStep == RunInv /\ [Next]_vars => RunInv'
<1> SUFFICES ASSUME RunInv, [Next]_vars PROVE RunInv'
  OBVIOUS
<1>1. CASE Executor
  BY <1>1, BeforeAllKeeps, AbortedKeeps, StartKeeps, IfKeeps, SwitchKeeps, GroupKeeps, LoopKeeps, StepsEndKeeps,
     SignalKeeps, ExitKeeps, SucceedsKeeps, SkippedKeeps, RetriesKeeps, FailsKeeps, HookKeeps, FinishKeeps, ReportKeeps
     DEF Executor
<1>2. CASE Driver
  BY <1>2, BootKeeps, NavigationKeeps, ResumeKeeps, GraceKeeps, DeliverKeeps DEF Driver
<1>3. CASE AbortTask \/ PageLost
  BY <1>3, AbortKeeps, LostKeeps
<1>4. CASE Closed \/ UNCHANGED vars
  BY <1>4, RunStutters DEF Closed
<1>5. CASE \E p \in Pages : LeafNavigates(p) \/ SiteNavigates(p) \/ EntryRedirect(p) \/ SameDocument(p)
  BY <1>5, LeafNavigatesKeeps, SiteKeeps, RedirectKeeps, SameDocumentKeeps
<1> QED BY <1>1, <1>2, <1>3, <1>4, <1>5 DEF Next

\* What the invariant says of what a run promises.
LEMMA RunPromises == RunInv => RunSurvivesPages
<1> SUFFICES ASSUME RunInv PROVE RunSurvivesPages
  OBVIOUS
<1>1. TypeOK
  <2>1. Seq(Frames) = Paths
    BY DEF Frames, Paths
  <2>2. /\ pc \in Points /\ aborted \in BOOLEAN /\ page \in Pages /\ attempt \in Nat
        /\ resumeAt \in Seq(Frames) /\ session.path \in Seq(Frames)
    BY RunFacts, HookPath DEF RealmTyped, SessionTyped
  <2>3. host.result \in Statuses \cup {"none"} /\ host.hops \in 0..(HopLimit + 1)
    BY RunFacts DEF Hosts
  <2>4. completed \subseteq Seq(Frames) /\ ctx \subseteq outputs /\ outputs \subseteq completed
    BY RunFacts DEF PathOk
  <2>5. pc = "leaf" => HasStep
    BY RunFacts DEF PlaceSound
  <2>6. outcome \in [status : Statuses, fatal : BOOLEAN]
    BY RunFacts DEF Outcomes
  <2> QED BY <2>1, <2>2, <2>3, <2>4, <2>5, <2>6 DEF TypeOK, Points
<1>2. CompletedStepsStayDone
  <2> SUFFICES ASSUME pc = "leaf", lateHook = "no", CurPath \in completed PROVE FALSE
    BY DEF CompletedStepsStayDone
  <2>1. HasStep /\ StepKind[CurStep] = "leaf"
    BY RunFacts DEF PlaceSound
  <2>2. AllBelow(PathOf(stack)) /\ CurPath = PathOf(stack) /\ PathOk(PathOf(stack))
    BY <2>1, MainFacts, LeafFacts
  <2> QED BY <2>2, NotBelowItself DEF AllBelow
<1>3. SuccessHasTopOutput
  BY RunFacts DEF ContextSound, SuccessHasTopOutput, TopOutputs
<1> QED BY <1>1, <1>2, <1>3, RunFacts DEF RunSurvivesPages

\* Over any rule, pages and bounds: a run that the page's navigations cut into pieces does
\* no completed step again (executor.ts, step-path.ts), a success has the output of every
\* step of the rule that left one (page-driver.ts), and nothing runs outside rule.domain.
THEOREM RunAlwaysSurvives == Spec => []RunSurvivesPages
<1>1. Init => RunInv
  BY RunStarts
<1>2. RunInv /\ [Next]_vars => RunInv'
  BY RunStep
<1>3. RunInv => RunSurvivesPages
  BY RunPromises
<1> QED BY <1>1, <1>2, <1>3, PTL DEF Spec

-----------------------------------------------------------------------------
(* Actions: what the scripts of the handlers promise.                       *)

\* The places of a script, by kind, where the handler has a mouse button, or a key,
\* down: after its "down" and before or at its "up".
ButtonDown == {<<"click", 5>>, <<"click", 6>>,
               <<"pressAndHold", 3>>, <<"pressAndHold", 4>>, <<"dragBy", 3>>, <<"dragBy", 4>>,
               <<"slide", 3>>, <<"slide", 4>>, <<"dragAndDrop", 4>>, <<"dragAndDrop", 5>>}
KeyDown == {<<"pressKey", 2>>, <<"pressKey", 3>>, <<"keyCombination", 2>>, <<"keyCombination", 3>>}

\* What may be in the field when a handler that writes has come to place i: before its
\* first write, anything.
WriterKinds == {"type", "paste", "typeAndSelect", "clear"}
Writing == {"clear", "char", "set"}
MayHold(k, i, text) ==
  /\ k = "type" /\ i \in {3, 4} => text = <<>>
  /\ k = "type" /\ i = 5 => text = <<"a">>
  /\ k = "type" /\ i \in 6 .. 9 => text = Text
  /\ k = "clear" /\ i = 3 => text = <<>>
  /\ k = "paste" /\ i = 3 => text = Text
  /\ k = "typeAndSelect" /\ i \in {3, 4} => text = Text

SendKinds == {"sendResult", "sendHtml"}

\* Nothing that can fail: what a handler does between a press and its release.
Sure == {"pause", "up", "keyup"}

\* The operation at place i of the script of kind k, of length n.
PressFacts(k, i, op, n, P, press, release) ==
  /\ op = press => <<k, i>> \notin P /\ <<k, i + 1>> \in P
  /\ op = release => <<k, i>> \in P /\ <<k, i + 1>> \notin P
  /\ op \notin {press, release} => (<<k, i + 1>> \in P <=> <<k, i>> \in P)
  /\ <<k, i>> \in P => op \in Sure
  /\ <<k, 1>> \notin P
  /\ <<k, n + 1>> \notin P

FieldFacts(k, i, op, n) ==
  /\ op = "clear" => MayHold(k, i + 1, <<>>)
  /\ op = "set" => MayHold(k, i + 1, Text)
  /\ op = "char" => k = "type" /\ i \in {4, 5}
  /\ op \in Writing => k \in WriterKinds
  /\ op \notin Writing => \A text : MayHold(k, i, text) => MayHold(k, i + 1, text)

ScriptFacts(k, s) ==
  /\ Len(s) \in Nat \ {0}
  /\ DOMAIN s = 1 .. Len(s)
  /\ \A i \in 1 .. Len(s) :
       /\ PressFacts(k, i, s[i], Len(s), ButtonDown, "down", "up")
       /\ PressFacts(k, i, s[i], Len(s), KeyDown, "keydown", "keyup")
       /\ FieldFacts(k, i, s[i], Len(s))
  /\ k \in SendKinds => s[Len(s)] = "send"
  /\ k \in WriterKinds => \A text : MayHold(k, Len(s) + 1, text) => text = Writers[k]

\* Every handler lets go of what it pressed with nothing in between that can fail, and a
\* handler that writes leaves what its kind is to leave.
LEMMA ScriptsKeepFaith == \A k \in ActionKinds : ScriptFacts(k, Script(k))
<1> SUFFICES ASSUME NEW k \in ActionKinds
             PROVE  ScriptFacts(k, Script(k))
  OBVIOUS
<1>1. CASE k = "click"
  <2>1. Script(k) = <<"find", "enabled", "pause", "down", "pause", "up", "url", "pause">>
    BY <1>1 DEF Script, Scripts, HandleClick
  <2>2. Len(Script(k)) = 8 /\ DOMAIN Script(k) = 1 .. 8
    BY <2>1
  <2>3. \A i \in 1 .. 8 : /\ PressFacts(k, i, Script(k)[i], 8, ButtonDown, "down", "up")
                        /\ PressFacts(k, i, Script(k)[i], 8, KeyDown, "keydown", "keyup")
    BY <1>1, <2>1 DEF PressFacts, Sure, ButtonDown, KeyDown
  <2>4. \A i \in 1 .. 8 : FieldFacts(k, i, Script(k)[i], 8)
    BY <1>1, <2>1 DEF FieldFacts, MayHold, Writing, WriterKinds
  <2>5. k \notin SendKinds /\ k \notin WriterKinds
    BY <1>1 DEF SendKinds, WriterKinds
  <2> QED BY <2>2, <2>3, <2>4, <2>5 DEF ScriptFacts
<1>2. CASE k = "type"
  <2>1. Script(k) = <<"find", "clear", "pause", "char", "char", "act", "url", "pause">>
    BY <1>2 DEF Script, Scripts, HandleType
  <2>2. Len(Script(k)) = 8 /\ DOMAIN Script(k) = 1 .. 8
    BY <2>1
  <2>3. \A i \in 1 .. 8 : /\ PressFacts(k, i, Script(k)[i], 8, ButtonDown, "down", "up")
                        /\ PressFacts(k, i, Script(k)[i], 8, KeyDown, "keydown", "keyup")
    BY <1>2, <2>1 DEF PressFacts, Sure, ButtonDown, KeyDown
  <2>4. \A i \in 1 .. 8 : FieldFacts(k, i, Script(k)[i], 8)
    BY <1>2, <2>1 DEF FieldFacts, MayHold, Writing, WriterKinds
  <2>5. k \notin SendKinds /\ \A text : MayHold(k, 9, text) => text = Writers[k]
    BY <1>2 DEF MayHold, SendKinds, Writers
  <2> QED BY <2>2, <2>3, <2>4, <2>5 DEF ScriptFacts
<1>3. CASE k = "clear"
  <2>1. Script(k) = <<"find", "clear">>
    BY <1>3 DEF Script, Scripts, HandleClear
  <2>2. Len(Script(k)) = 2 /\ DOMAIN Script(k) = 1 .. 2
    BY <2>1
  <2>3. \A i \in 1 .. 2 : /\ PressFacts(k, i, Script(k)[i], 2, ButtonDown, "down", "up")
                        /\ PressFacts(k, i, Script(k)[i], 2, KeyDown, "keydown", "keyup")
    BY <1>3, <2>1 DEF PressFacts, Sure, ButtonDown, KeyDown
  <2>4. \A i \in 1 .. 2 : FieldFacts(k, i, Script(k)[i], 2)
    BY <1>3, <2>1 DEF FieldFacts, MayHold, Writing, WriterKinds
  <2>5. k \notin SendKinds /\ \A text : MayHold(k, 3, text) => text = Writers[k]
    BY <1>3 DEF MayHold, SendKinds, Writers
  <2> QED BY <2>2, <2>3, <2>4, <2>5 DEF ScriptFacts
<1>4. CASE k \in {"select", "uploadFile", "focus", "setStyle", "extract", "extractTable"}
  <2>1. Script(k) = <<"find", "act">>
    BY <1>4 DEF Script, Scripts, HandleSelect, HandleUploadFile, HandleFocus, HandleSetStyle, HandleExtract, HandleExtractTable
  <2>2. Len(Script(k)) = 2 /\ DOMAIN Script(k) = 1 .. 2
    BY <2>1
  <2>3. \A i \in 1 .. 2 : /\ PressFacts(k, i, Script(k)[i], 2, ButtonDown, "down", "up")
                        /\ PressFacts(k, i, Script(k)[i], 2, KeyDown, "keydown", "keyup")
    BY <1>4, <2>1 DEF PressFacts, Sure, ButtonDown, KeyDown
  <2>4. \A i \in 1 .. 2 : FieldFacts(k, i, Script(k)[i], 2)
    BY <1>4, <2>1 DEF FieldFacts, MayHold, Writing, WriterKinds
  <2>5. k \notin SendKinds /\ k \notin WriterKinds
    BY <1>4 DEF SendKinds, WriterKinds
  <2> QED BY <2>2, <2>3, <2>4, <2>5 DEF ScriptFacts
<1>5. CASE k \in {"check", "selectRadio"}
  <2>1. Script(k) = <<"find", "tick">>
    BY <1>5 DEF Script, Scripts, HandleCheck, HandleSelectRadio
  <2>2. Len(Script(k)) = 2 /\ DOMAIN Script(k) = 1 .. 2
    BY <2>1
  <2>3. \A i \in 1 .. 2 : /\ PressFacts(k, i, Script(k)[i], 2, ButtonDown, "down", "up")
                        /\ PressFacts(k, i, Script(k)[i], 2, KeyDown, "keydown", "keyup")
    BY <1>5, <2>1 DEF PressFacts, Sure, ButtonDown, KeyDown
  <2>4. \A i \in 1 .. 2 : FieldFacts(k, i, Script(k)[i], 2)
    BY <1>5, <2>1 DEF FieldFacts, MayHold, Writing, WriterKinds
  <2>5. k \notin SendKinds /\ k \notin WriterKinds
    BY <1>5 DEF SendKinds, WriterKinds
  <2> QED BY <2>2, <2>3, <2>4, <2>5 DEF ScriptFacts
<1>6. CASE k \in {"pressKey", "keyCombination"}
  <2>1. Script(k) = <<"keydown", "pause", "keyup">>
    BY <1>6 DEF Script, Scripts, HandlePressKey, HandleKeyCombination
  <2>2. Len(Script(k)) = 3 /\ DOMAIN Script(k) = 1 .. 3
    BY <2>1
  <2>3. \A i \in 1 .. 3 : /\ PressFacts(k, i, Script(k)[i], 3, ButtonDown, "down", "up")
                        /\ PressFacts(k, i, Script(k)[i], 3, KeyDown, "keydown", "keyup")
    BY <1>6, <2>1 DEF PressFacts, Sure, ButtonDown, KeyDown
  <2>4. \A i \in 1 .. 3 : FieldFacts(k, i, Script(k)[i], 3)
    BY <1>6, <2>1 DEF FieldFacts, MayHold, Writing, WriterKinds
  <2>5. k \notin SendKinds /\ k \notin WriterKinds
    BY <1>6 DEF SendKinds, WriterKinds
  <2> QED BY <2>2, <2>3, <2>4, <2>5 DEF ScriptFacts
<1>7. CASE k \in {"doubleClick", "rightClick", "middleClick"}
  <2>1. Script(k) = <<"find", "pause", "act", "pause">>
    BY <1>7 DEF Script, Scripts, HandleDoubleClick, HandleRightClick, HandleMiddleClick
  <2>2. Len(Script(k)) = 4 /\ DOMAIN Script(k) = 1 .. 4
    BY <2>1
  <2>3. \A i \in 1 .. 4 : /\ PressFacts(k, i, Script(k)[i], 4, ButtonDown, "down", "up")
                        /\ PressFacts(k, i, Script(k)[i], 4, KeyDown, "keydown", "keyup")
    BY <1>7, <2>1 DEF PressFacts, Sure, ButtonDown, KeyDown
  <2>4. \A i \in 1 .. 4 : FieldFacts(k, i, Script(k)[i], 4)
    BY <1>7, <2>1 DEF FieldFacts, MayHold, Writing, WriterKinds
  <2>5. k \notin SendKinds /\ k \notin WriterKinds
    BY <1>7 DEF SendKinds, WriterKinds
  <2> QED BY <2>2, <2>3, <2>4, <2>5 DEF ScriptFacts
<1>8. CASE k = "hover"
  <2>1. Script(k) = <<"find", "pause", "act", "pause", "act", "pause">>
    BY <1>8 DEF Script, Scripts, HandleHover
  <2>2. Len(Script(k)) = 6 /\ DOMAIN Script(k) = 1 .. 6
    BY <2>1
  <2>3. \A i \in 1 .. 6 : /\ PressFacts(k, i, Script(k)[i], 6, ButtonDown, "down", "up")
                        /\ PressFacts(k, i, Script(k)[i], 6, KeyDown, "keydown", "keyup")
    BY <1>8, <2>1 DEF PressFacts, Sure, ButtonDown, KeyDown
  <2>4. \A i \in 1 .. 6 : FieldFacts(k, i, Script(k)[i], 6)
    BY <1>8, <2>1 DEF FieldFacts, MayHold, Writing, WriterKinds
  <2>5. k \notin SendKinds /\ k \notin WriterKinds
    BY <1>8 DEF SendKinds, WriterKinds
  <2> QED BY <2>2, <2>3, <2>4, <2>5 DEF ScriptFacts
<1>9. CASE k = "hoverClick"
  <2>1. Script(k) = <<"find", "act", "menu", "pause", "act", "pause">>
    BY <1>9 DEF Script, Scripts, HandleHoverClick
  <2>2. Len(Script(k)) = 6 /\ DOMAIN Script(k) = 1 .. 6
    BY <2>1
  <2>3. \A i \in 1 .. 6 : /\ PressFacts(k, i, Script(k)[i], 6, ButtonDown, "down", "up")
                        /\ PressFacts(k, i, Script(k)[i], 6, KeyDown, "keydown", "keyup")
    BY <1>9, <2>1 DEF PressFacts, Sure, ButtonDown, KeyDown
  <2>4. \A i \in 1 .. 6 : FieldFacts(k, i, Script(k)[i], 6)
    BY <1>9, <2>1 DEF FieldFacts, MayHold, Writing, WriterKinds
  <2>5. k \notin SendKinds /\ k \notin WriterKinds
    BY <1>9 DEF SendKinds, WriterKinds
  <2> QED BY <2>2, <2>3, <2>4, <2>5 DEF ScriptFacts
<1>10. CASE k = "moveMouse"
  <2>1. Script(k) = <<"find", "pause">>
    BY <1>10 DEF Script, Scripts, HandleMoveMouse
  <2>2. Len(Script(k)) = 2 /\ DOMAIN Script(k) = 1 .. 2
    BY <2>1
  <2>3. \A i \in 1 .. 2 : /\ PressFacts(k, i, Script(k)[i], 2, ButtonDown, "down", "up")
                        /\ PressFacts(k, i, Script(k)[i], 2, KeyDown, "keydown", "keyup")
    BY <1>10, <2>1 DEF PressFacts, Sure, ButtonDown, KeyDown
  <2>4. \A i \in 1 .. 2 : FieldFacts(k, i, Script(k)[i], 2)
    BY <1>10, <2>1 DEF FieldFacts, MayHold, Writing, WriterKinds
  <2>5. k \notin SendKinds /\ k \notin WriterKinds
    BY <1>10 DEF SendKinds, WriterKinds
  <2> QED BY <2>2, <2>3, <2>4, <2>5 DEF ScriptFacts
<1>11. CASE k \in {"pressAndHold", "dragBy", "slide"}
  <2>1. Script(k) = <<"find", "down", "pause", "up">>
    BY <1>11 DEF Script, Scripts, HandlePressAndHold, HandleDragBy, HandleSlide
  <2>2. Len(Script(k)) = 4 /\ DOMAIN Script(k) = 1 .. 4
    BY <2>1
  <2>3. \A i \in 1 .. 4 : /\ PressFacts(k, i, Script(k)[i], 4, ButtonDown, "down", "up")
                        /\ PressFacts(k, i, Script(k)[i], 4, KeyDown, "keydown", "keyup")
    BY <1>11, <2>1 DEF PressFacts, Sure, ButtonDown, KeyDown
  <2>4. \A i \in 1 .. 4 : FieldFacts(k, i, Script(k)[i], 4)
    BY <1>11, <2>1 DEF FieldFacts, MayHold, Writing, WriterKinds
  <2>5. k \notin SendKinds /\ k \notin WriterKinds
    BY <1>11 DEF SendKinds, WriterKinds
  <2> QED BY <2>2, <2>3, <2>4, <2>5 DEF ScriptFacts
<1>12. CASE k = "dragAndDrop"
  <2>1. Script(k) = <<"find", "find", "down", "pause", "up">>
    BY <1>12 DEF Script, Scripts, HandleDragAndDrop
  <2>2. Len(Script(k)) = 5 /\ DOMAIN Script(k) = 1 .. 5
    BY <2>1
  <2>3. \A i \in 1 .. 5 : /\ PressFacts(k, i, Script(k)[i], 5, ButtonDown, "down", "up")
                        /\ PressFacts(k, i, Script(k)[i], 5, KeyDown, "keydown", "keyup")
    BY <1>12, <2>1 DEF PressFacts, Sure, ButtonDown, KeyDown
  <2>4. \A i \in 1 .. 5 : FieldFacts(k, i, Script(k)[i], 5)
    BY <1>12, <2>1 DEF FieldFacts, MayHold, Writing, WriterKinds
  <2>5. k \notin SendKinds /\ k \notin WriterKinds
    BY <1>12 DEF SendKinds, WriterKinds
  <2> QED BY <2>2, <2>3, <2>4, <2>5 DEF ScriptFacts
<1>13. CASE k = "paste"
  <2>1. Script(k) = <<"find", "set">>
    BY <1>13 DEF Script, Scripts, HandlePaste
  <2>2. Len(Script(k)) = 2 /\ DOMAIN Script(k) = 1 .. 2
    BY <2>1
  <2>3. \A i \in 1 .. 2 : /\ PressFacts(k, i, Script(k)[i], 2, ButtonDown, "down", "up")
                        /\ PressFacts(k, i, Script(k)[i], 2, KeyDown, "keydown", "keyup")
    BY <1>13, <2>1 DEF PressFacts, Sure, ButtonDown, KeyDown
  <2>4. \A i \in 1 .. 2 : FieldFacts(k, i, Script(k)[i], 2)
    BY <1>13, <2>1 DEF FieldFacts, MayHold, Writing, WriterKinds
  <2>5. k \notin SendKinds /\ \A text : MayHold(k, 3, text) => text = Writers[k]
    BY <1>13 DEF MayHold, SendKinds, Writers
  <2> QED BY <2>2, <2>3, <2>4, <2>5 DEF ScriptFacts
<1>14. CASE k = "typeAndSelect"
  <2>1. Script(k) = <<"find", "set", "menu">>
    BY <1>14 DEF Script, Scripts, HandleTypeAndSelect
  <2>2. Len(Script(k)) = 3 /\ DOMAIN Script(k) = 1 .. 3
    BY <2>1
  <2>3. \A i \in 1 .. 3 : /\ PressFacts(k, i, Script(k)[i], 3, ButtonDown, "down", "up")
                        /\ PressFacts(k, i, Script(k)[i], 3, KeyDown, "keydown", "keyup")
    BY <1>14, <2>1 DEF PressFacts, Sure, ButtonDown, KeyDown
  <2>4. \A i \in 1 .. 3 : FieldFacts(k, i, Script(k)[i], 3)
    BY <1>14, <2>1 DEF FieldFacts, MayHold, Writing, WriterKinds
  <2>5. k \notin SendKinds /\ \A text : MayHold(k, 4, text) => text = Writers[k]
    BY <1>14 DEF MayHold, SendKinds, Writers
  <2> QED BY <2>2, <2>3, <2>4, <2>5 DEF ScriptFacts
<1>15. CASE k \in {"blur", "extractText"}
  <2>1. Script(k) = <<"seek", "act">>
    BY <1>15 DEF Script, Scripts, HandleBlur, HandleExtractText
  <2>2. Len(Script(k)) = 2 /\ DOMAIN Script(k) = 1 .. 2
    BY <2>1
  <2>3. \A i \in 1 .. 2 : /\ PressFacts(k, i, Script(k)[i], 2, ButtonDown, "down", "up")
                        /\ PressFacts(k, i, Script(k)[i], 2, KeyDown, "keydown", "keyup")
    BY <1>15, <2>1 DEF PressFacts, Sure, ButtonDown, KeyDown
  <2>4. \A i \in 1 .. 2 : FieldFacts(k, i, Script(k)[i], 2)
    BY <1>15, <2>1 DEF FieldFacts, MayHold, Writing, WriterKinds
  <2>5. k \notin SendKinds /\ k \notin WriterKinds
    BY <1>15 DEF SendKinds, WriterKinds
  <2> QED BY <2>2, <2>3, <2>4, <2>5 DEF ScriptFacts
<1>16. CASE k \in {"tab", "pageDown", "reload"}
  <2>1. Script(k) = <<"act", "pause">>
    BY <1>16 DEF Script, Scripts, HandleTab, HandlePageDown, HandleReload
  <2>2. Len(Script(k)) = 2 /\ DOMAIN Script(k) = 1 .. 2
    BY <2>1
  <2>3. \A i \in 1 .. 2 : /\ PressFacts(k, i, Script(k)[i], 2, ButtonDown, "down", "up")
                        /\ PressFacts(k, i, Script(k)[i], 2, KeyDown, "keydown", "keyup")
    BY <1>16, <2>1 DEF PressFacts, Sure, ButtonDown, KeyDown
  <2>4. \A i \in 1 .. 2 : FieldFacts(k, i, Script(k)[i], 2)
    BY <1>16, <2>1 DEF FieldFacts, MayHold, Writing, WriterKinds
  <2>5. k \notin SendKinds /\ k \notin WriterKinds
    BY <1>16 DEF SendKinds, WriterKinds
  <2> QED BY <2>2, <2>3, <2>4, <2>5 DEF ScriptFacts
<1>17. CASE k = "waitFor"
  <2>1. Script(k) = <<"find">>
    BY <1>17 DEF Script, Scripts, HandleWaitFor
  <2>2. Len(Script(k)) = 1 /\ DOMAIN Script(k) = 1 .. 1
    BY <2>1
  <2>3. \A i \in 1 .. 1 : /\ PressFacts(k, i, Script(k)[i], 1, ButtonDown, "down", "up")
                        /\ PressFacts(k, i, Script(k)[i], 1, KeyDown, "keydown", "keyup")
    BY <1>17, <2>1 DEF PressFacts, Sure, ButtonDown, KeyDown
  <2>4. \A i \in 1 .. 1 : FieldFacts(k, i, Script(k)[i], 1)
    BY <1>17, <2>1 DEF FieldFacts, MayHold, Writing, WriterKinds
  <2>5. k \notin SendKinds /\ k \notin WriterKinds
    BY <1>17 DEF SendKinds, WriterKinds
  <2> QED BY <2>2, <2>3, <2>4, <2>5 DEF ScriptFacts
<1>18. CASE k \in {"waitForText", "waitForElementVisible", "waitForFunction"}
  <2>1. Script(k) = <<"shown">>
    BY <1>18 DEF Script, Scripts, HandleWaitForText, HandleWaitForElementVisible, HandleWaitForFunction
  <2>2. Len(Script(k)) = 1 /\ DOMAIN Script(k) = 1 .. 1
    BY <2>1
  <2>3. \A i \in 1 .. 1 : /\ PressFacts(k, i, Script(k)[i], 1, ButtonDown, "down", "up")
                        /\ PressFacts(k, i, Script(k)[i], 1, KeyDown, "keydown", "keyup")
    BY <1>18, <2>1 DEF PressFacts, Sure, ButtonDown, KeyDown
  <2>4. \A i \in 1 .. 1 : FieldFacts(k, i, Script(k)[i], 1)
    BY <1>18, <2>1 DEF FieldFacts, MayHold, Writing, WriterKinds
  <2>5. k \notin SendKinds /\ k \notin WriterKinds
    BY <1>18 DEF SendKinds, WriterKinds
  <2> QED BY <2>2, <2>3, <2>4, <2>5 DEF ScriptFacts
<1>19. CASE k \in {"waitForTimeout", "readPause"}
  <2>1. Script(k) = <<"pause">>
    BY <1>19 DEF Script, Scripts, HandleWaitForTimeout, HandleReadPause
  <2>2. Len(Script(k)) = 1 /\ DOMAIN Script(k) = 1 .. 1
    BY <2>1
  <2>3. \A i \in 1 .. 1 : /\ PressFacts(k, i, Script(k)[i], 1, ButtonDown, "down", "up")
                        /\ PressFacts(k, i, Script(k)[i], 1, KeyDown, "keydown", "keyup")
    BY <1>19, <2>1 DEF PressFacts, Sure, ButtonDown, KeyDown
  <2>4. \A i \in 1 .. 1 : FieldFacts(k, i, Script(k)[i], 1)
    BY <1>19, <2>1 DEF FieldFacts, MayHold, Writing, WriterKinds
  <2>5. k \notin SendKinds /\ k \notin WriterKinds
    BY <1>19 DEF SendKinds, WriterKinds
  <2> QED BY <2>2, <2>3, <2>4, <2>5 DEF ScriptFacts
<1>20. CASE k = "waitForElementHidden"
  <2>1. Script(k) = <<"gone">>
    BY <1>20 DEF Script, Scripts, HandleWaitForElementHidden
  <2>2. Len(Script(k)) = 1 /\ DOMAIN Script(k) = 1 .. 1
    BY <2>1
  <2>3. \A i \in 1 .. 1 : /\ PressFacts(k, i, Script(k)[i], 1, ButtonDown, "down", "up")
                        /\ PressFacts(k, i, Script(k)[i], 1, KeyDown, "keydown", "keyup")
    BY <1>20, <2>1 DEF PressFacts, Sure, ButtonDown, KeyDown
  <2>4. \A i \in 1 .. 1 : FieldFacts(k, i, Script(k)[i], 1)
    BY <1>20, <2>1 DEF FieldFacts, MayHold, Writing, WriterKinds
  <2>5. k \notin SendKinds /\ k \notin WriterKinds
    BY <1>20 DEF SendKinds, WriterKinds
  <2> QED BY <2>2, <2>3, <2>4, <2>5 DEF ScriptFacts
<1>21. CASE k = "waitForUrl"
  <2>1. Script(k) = <<"urlMust">>
    BY <1>21 DEF Script, Scripts, HandleWaitForUrl
  <2>2. Len(Script(k)) = 1 /\ DOMAIN Script(k) = 1 .. 1
    BY <2>1
  <2>3. \A i \in 1 .. 1 : /\ PressFacts(k, i, Script(k)[i], 1, ButtonDown, "down", "up")
                        /\ PressFacts(k, i, Script(k)[i], 1, KeyDown, "keydown", "keyup")
    BY <1>21, <2>1 DEF PressFacts, Sure, ButtonDown, KeyDown
  <2>4. \A i \in 1 .. 1 : FieldFacts(k, i, Script(k)[i], 1)
    BY <1>21, <2>1 DEF FieldFacts, MayHold, Writing, WriterKinds
  <2>5. k \notin SendKinds /\ k \notin WriterKinds
    BY <1>21 DEF SendKinds, WriterKinds
  <2> QED BY <2>2, <2>3, <2>4, <2>5 DEF ScriptFacts
<1>22. CASE k = "scrollToBottom"
  <2>1. Script(k) = <<"bottom", "pause">>
    BY <1>22 DEF Script, Scripts, HandleScrollToBottom
  <2>2. Len(Script(k)) = 2 /\ DOMAIN Script(k) = 1 .. 2
    BY <2>1
  <2>3. \A i \in 1 .. 2 : /\ PressFacts(k, i, Script(k)[i], 2, ButtonDown, "down", "up")
                        /\ PressFacts(k, i, Script(k)[i], 2, KeyDown, "keydown", "keyup")
    BY <1>22, <2>1 DEF PressFacts, Sure, ButtonDown, KeyDown
  <2>4. \A i \in 1 .. 2 : FieldFacts(k, i, Script(k)[i], 2)
    BY <1>22, <2>1 DEF FieldFacts, MayHold, Writing, WriterKinds
  <2>5. k \notin SendKinds /\ k \notin WriterKinds
    BY <1>22 DEF SendKinds, WriterKinds
  <2> QED BY <2>2, <2>3, <2>4, <2>5 DEF ScriptFacts
<1>23. CASE k \in {"scrollBy", "scrollTo"}
  <2>1. Script(k) = <<"find", "act", "pause">>
    BY <1>23 DEF Script, Scripts, HandleScrollBy, HandleScrollTo
  <2>2. Len(Script(k)) = 3 /\ DOMAIN Script(k) = 1 .. 3
    BY <2>1
  <2>3. \A i \in 1 .. 3 : /\ PressFacts(k, i, Script(k)[i], 3, ButtonDown, "down", "up")
                        /\ PressFacts(k, i, Script(k)[i], 3, KeyDown, "keydown", "keyup")
    BY <1>23, <2>1 DEF PressFacts, Sure, ButtonDown, KeyDown
  <2>4. \A i \in 1 .. 3 : FieldFacts(k, i, Script(k)[i], 3)
    BY <1>23, <2>1 DEF FieldFacts, MayHold, Writing, WriterKinds
  <2>5. k \notin SendKinds /\ k \notin WriterKinds
    BY <1>23 DEF SendKinds, WriterKinds
  <2> QED BY <2>2, <2>3, <2>4, <2>5 DEF ScriptFacts
<1>24. CASE k = "removeElement"
  <2>1. Script(k) = <<"find", "remove">>
    BY <1>24 DEF Script, Scripts, HandleRemoveElement
  <2>2. Len(Script(k)) = 2 /\ DOMAIN Script(k) = 1 .. 2
    BY <2>1
  <2>3. \A i \in 1 .. 2 : /\ PressFacts(k, i, Script(k)[i], 2, ButtonDown, "down", "up")
                        /\ PressFacts(k, i, Script(k)[i], 2, KeyDown, "keydown", "keyup")
    BY <1>24, <2>1 DEF PressFacts, Sure, ButtonDown, KeyDown
  <2>4. \A i \in 1 .. 2 : FieldFacts(k, i, Script(k)[i], 2)
    BY <1>24, <2>1 DEF FieldFacts, MayHold, Writing, WriterKinds
  <2>5. k \notin SendKinds /\ k \notin WriterKinds
    BY <1>24 DEF SendKinds, WriterKinds
  <2> QED BY <2>2, <2>3, <2>4, <2>5 DEF ScriptFacts
<1>25. CASE k = "navigate"
  <2>1. Script(k) = <<"go", "urlMust">>
    BY <1>25 DEF Script, Scripts, HandleNavigate
  <2>2. Len(Script(k)) = 2 /\ DOMAIN Script(k) = 1 .. 2
    BY <2>1
  <2>3. \A i \in 1 .. 2 : /\ PressFacts(k, i, Script(k)[i], 2, ButtonDown, "down", "up")
                        /\ PressFacts(k, i, Script(k)[i], 2, KeyDown, "keydown", "keyup")
    BY <1>25, <2>1 DEF PressFacts, Sure, ButtonDown, KeyDown
  <2>4. \A i \in 1 .. 2 : FieldFacts(k, i, Script(k)[i], 2)
    BY <1>25, <2>1 DEF FieldFacts, MayHold, Writing, WriterKinds
  <2>5. k \notin SendKinds /\ k \notin WriterKinds
    BY <1>25 DEF SendKinds, WriterKinds
  <2> QED BY <2>2, <2>3, <2>4, <2>5 DEF ScriptFacts
<1>26. CASE k = "goBack"
  <2>1. Script(k) = <<"go", "url">>
    BY <1>26 DEF Script, Scripts, GoBack
  <2>2. Len(Script(k)) = 2 /\ DOMAIN Script(k) = 1 .. 2
    BY <2>1
  <2>3. \A i \in 1 .. 2 : /\ PressFacts(k, i, Script(k)[i], 2, ButtonDown, "down", "up")
                        /\ PressFacts(k, i, Script(k)[i], 2, KeyDown, "keydown", "keyup")
    BY <1>26, <2>1 DEF PressFacts, Sure, ButtonDown, KeyDown
  <2>4. \A i \in 1 .. 2 : FieldFacts(k, i, Script(k)[i], 2)
    BY <1>26, <2>1 DEF FieldFacts, MayHold, Writing, WriterKinds
  <2>5. k \notin SendKinds /\ k \notin WriterKinds
    BY <1>26 DEF SendKinds, WriterKinds
  <2> QED BY <2>2, <2>3, <2>4, <2>5 DEF ScriptFacts
<1>27. CASE k = "evaluate"
  <2>1. Script(k) = <<"act">>
    BY <1>27 DEF Script, Scripts, HandleEvaluate
  <2>2. Len(Script(k)) = 1 /\ DOMAIN Script(k) = 1 .. 1
    BY <2>1
  <2>3. \A i \in 1 .. 1 : /\ PressFacts(k, i, Script(k)[i], 1, ButtonDown, "down", "up")
                        /\ PressFacts(k, i, Script(k)[i], 1, KeyDown, "keydown", "keyup")
    BY <1>27, <2>1 DEF PressFacts, Sure, ButtonDown, KeyDown
  <2>4. \A i \in 1 .. 1 : FieldFacts(k, i, Script(k)[i], 1)
    BY <1>27, <2>1 DEF FieldFacts, MayHold, Writing, WriterKinds
  <2>5. k \notin SendKinds /\ k \notin WriterKinds
    BY <1>27 DEF SendKinds, WriterKinds
  <2> QED BY <2>2, <2>3, <2>4, <2>5 DEF ScriptFacts
<1>28. CASE k = "validateData"
  <2>1. Script(k) = <<"valid">>
    BY <1>28 DEF Script, Scripts, HandleValidateData
  <2>2. Len(Script(k)) = 1 /\ DOMAIN Script(k) = 1 .. 1
    BY <2>1
  <2>3. \A i \in 1 .. 1 : /\ PressFacts(k, i, Script(k)[i], 1, ButtonDown, "down", "up")
                        /\ PressFacts(k, i, Script(k)[i], 1, KeyDown, "keydown", "keyup")
    BY <1>28, <2>1 DEF PressFacts, Sure, ButtonDown, KeyDown
  <2>4. \A i \in 1 .. 1 : FieldFacts(k, i, Script(k)[i], 1)
    BY <1>28, <2>1 DEF FieldFacts, MayHold, Writing, WriterKinds
  <2>5. k \notin SendKinds /\ k \notin WriterKinds
    BY <1>28 DEF SendKinds, WriterKinds
  <2> QED BY <2>2, <2>3, <2>4, <2>5 DEF ScriptFacts
<1>29. CASE k = "sendResult"
  <2>1. Script(k) = <<"send">>
    BY <1>29 DEF Script, Scripts, HandleSendResult
  <2>2. Len(Script(k)) = 1 /\ DOMAIN Script(k) = 1 .. 1
    BY <2>1
  <2>3. \A i \in 1 .. 1 : /\ PressFacts(k, i, Script(k)[i], 1, ButtonDown, "down", "up")
                        /\ PressFacts(k, i, Script(k)[i], 1, KeyDown, "keydown", "keyup")
    BY <1>29, <2>1 DEF PressFacts, Sure, ButtonDown, KeyDown
  <2>4. \A i \in 1 .. 1 : FieldFacts(k, i, Script(k)[i], 1)
    BY <1>29, <2>1 DEF FieldFacts, MayHold, Writing, WriterKinds
  <2>5. k \notin WriterKinds /\ Script(k)[1] = "send"
    BY <1>29, <2>1 DEF WriterKinds
  <2> QED BY <2>2, <2>3, <2>4, <2>5 DEF ScriptFacts
<1>30. CASE k = "sendHtml"
  <2>1. Script(k) = <<"find", "send">>
    BY <1>30 DEF Script, Scripts, HandleSendHtml
  <2>2. Len(Script(k)) = 2 /\ DOMAIN Script(k) = 1 .. 2
    BY <2>1
  <2>3. \A i \in 1 .. 2 : /\ PressFacts(k, i, Script(k)[i], 2, ButtonDown, "down", "up")
                        /\ PressFacts(k, i, Script(k)[i], 2, KeyDown, "keydown", "keyup")
    BY <1>30, <2>1 DEF PressFacts, Sure, ButtonDown, KeyDown
  <2>4. \A i \in 1 .. 2 : FieldFacts(k, i, Script(k)[i], 2)
    BY <1>30, <2>1 DEF FieldFacts, MayHold, Writing, WriterKinds
  <2>5. k \notin WriterKinds /\ Script(k)[2] = "send"
    BY <1>30, <2>1 DEF WriterKinds
  <2> QED BY <2>2, <2>3, <2>4, <2>5 DEF ScriptFacts
<1>31. CASE k \in {"sendLog", "checkpoint"}
  <2>1. Script(k) = <<"post">>
    BY <1>31 DEF Script, Scripts, HandleSendLog, HandleCheckpoint
  <2>2. Len(Script(k)) = 1 /\ DOMAIN Script(k) = 1 .. 1
    BY <2>1
  <2>3. \A i \in 1 .. 1 : /\ PressFacts(k, i, Script(k)[i], 1, ButtonDown, "down", "up")
                        /\ PressFacts(k, i, Script(k)[i], 1, KeyDown, "keydown", "keyup")
    BY <1>31, <2>1 DEF PressFacts, Sure, ButtonDown, KeyDown
  <2>4. \A i \in 1 .. 1 : FieldFacts(k, i, Script(k)[i], 1)
    BY <1>31, <2>1 DEF FieldFacts, MayHold, Writing, WriterKinds
  <2>5. k \notin SendKinds /\ k \notin WriterKinds
    BY <1>31 DEF SendKinds, WriterKinds
  <2> QED BY <2>2, <2>3, <2>4, <2>5 DEF ScriptFacts
<1>32. CASE k = "abort"
  <2>1. Script(k) = <<"post", "throw">>
    BY <1>32 DEF Script, Scripts, HandleAbort
  <2>2. Len(Script(k)) = 2 /\ DOMAIN Script(k) = 1 .. 2
    BY <2>1
  <2>3. \A i \in 1 .. 2 : /\ PressFacts(k, i, Script(k)[i], 2, ButtonDown, "down", "up")
                        /\ PressFacts(k, i, Script(k)[i], 2, KeyDown, "keydown", "keyup")
    BY <1>32, <2>1 DEF PressFacts, Sure, ButtonDown, KeyDown
  <2>4. \A i \in 1 .. 2 : FieldFacts(k, i, Script(k)[i], 2)
    BY <1>32, <2>1 DEF FieldFacts, MayHold, Writing, WriterKinds
  <2>5. k \notin SendKinds /\ k \notin WriterKinds
    BY <1>32 DEF SendKinds, WriterKinds
  <2> QED BY <2>2, <2>3, <2>4, <2>5 DEF ScriptFacts
<1> QED
  BY <1>1, <1>2, <1>3, <1>4, <1>5, <1>6, <1>7, <1>8, <1>9, <1>10, <1>11, <1>12, <1>13, <1>14, <1>15, <1>16, <1>17, <1>18, <1>19, <1>20, <1>21, <1>22, <1>23, <1>24, <1>25, <1>26, <1>27, <1>28, <1>29, <1>30, <1>31, <1>32 DEF ActionKinds, Scripts

-----------------------------------------------------------------------------
(* The inductive invariant.                                                 *)

Attempts == {a \in [kind : ActionKinds, pc : Nat, step : Nat, try : Nat] :
               a.pc \in DOMAIN Script(a.kind)}

\* The attempts whose handler still runs, given up or not, and the attempts among them
\* that are at a place of P, named by their step and their number.
Live == IF cur = NoAttempt THEN strays ELSE strays \cup {cur}
Slots(L, P) == {<<a.step, a.try>> : a \in {x \in L : <<x.kind, x.pc>> \in P}}

CurrentTyped ==
  /\ steps \in Seq(ActionKinds) /\ Len(steps) \in Nat \ {0}
  /\ at \in 1 .. Len(steps) /\ tries \in 1 .. MaxTries
  /\ cur # NoAttempt => /\ cur \in Attempts
                        /\ cur.kind = steps[at] /\ cur.step = at /\ cur.try = tries
  /\ verdict = "success" => cur = NoAttempt /\ at = Len(steps)
StraysTyped ==
  /\ strays \subseteq Attempts
  /\ \A s \in strays : s.step \in 1 .. at /\ s.try \in 1 .. MaxTries

\* No attempt is made twice: the one that runs comes after all that were given up.
AttemptsDiffer ==
  /\ \A s, t \in strays : s.step = t.step /\ s.try = t.try => s = t
  /\ cur # NoAttempt => \A s \in strays : s.step < at \/ (s.step = at /\ s.try < tries)

\* A mouse button, or a key, is down once for each live attempt between its press and release.
PressesCounted ==
  /\ held = Cardinality(Slots(Live, ButtonDown))
  /\ keys = Cardinality(Slots(Live, KeyDown))

SendsUpTo(n) == {i \in Sends : i <= n}
SendsCounted ==
  /\ rows \in Nat
  /\ rows >= Cardinality(SendsUpTo(at - 1))
  /\ verdict = "success" => rows >= Cardinality(SendsUpTo(Len(steps)))

\* A text is what the last writer among the first n steps leaves.
WrittenUpTo(n, text) ==
  \A i \in 1 .. n :
     steps[i] \in WriterKinds /\ (\A j \in 1 .. n : j > i => steps[j] \notin WriterKinds)
     => text = Writers[steps[i]]

FieldFollows ==
  ~strayed =>
     /\ strays = {}
     /\ verdict = "success" => WrittenUpTo(Len(steps), field)
     /\ cur # NoAttempt /\ steps[at] \in WriterKinds => MayHold(steps[at], cur.pc, field)
     /\ cur # NoAttempt /\ steps[at] \notin WriterKinds => WrittenUpTo(at - 1, field)

ActionsInv ==
  CurrentTyped /\ StraysTyped /\ AttemptsDiffer /\ PressesCounted /\ SendsCounted /\ FieldFollows

-----------------------------------------------------------------------------
(* Counting what is pressed.                                                *)

\* What an attempt is made of.
LEMMA AttemptFacts ==
  ASSUME NEW a \in Attempts
  PROVE  /\ a.kind \in ActionKinds /\ a.pc \in 1 .. Len(Script(a.kind))
         /\ a.step \in Nat /\ a.try \in Nat /\ a # NoAttempt
         /\ a = [kind |-> a.kind, pc |-> a.pc, step |-> a.step, try |-> a.try]
         /\ [a EXCEPT !.pc = @ + 1] = [kind |-> a.kind, pc |-> a.pc + 1, step |-> a.step, try |-> a.try]
         /\ ScriptFacts(a.kind, Script(a.kind))
<1>1. a.kind \in ActionKinds /\ a.pc \in DOMAIN Script(a.kind) /\ a.step \in Nat /\ a.try \in Nat
  BY DEF Attempts
<1>2. ScriptFacts(a.kind, Script(a.kind))
  BY <1>1, ScriptsKeepFaith
<1>3. a.pc \in 1 .. Len(Script(a.kind)) /\ Len(Script(a.kind)) \in Nat
  BY <1>1, <1>2 DEF ScriptFacts
<1>4. a # NoAttempt
  BY <1>3 DEF NoAttempt
<1>5. a = [kind |-> a.kind, pc |-> a.pc, step |-> a.step, try |-> a.try]
  BY DEF Attempts
<1>6. [a EXCEPT !.pc = @ + 1] = [kind |-> a.kind, pc |-> a.pc + 1, step |-> a.step, try |-> a.try]
  BY <1>5
<1> QED BY <1>1, <1>2, <1>3, <1>4, <1>5, <1>6

\* A set of attempts of the rule has at most one slot for each step and number.
LEMMA SlotsBounded ==
  ASSUME CurrentTyped, StraysTyped, ActionsAssumption, NEW P
  PROVE  /\ IsFiniteSet(Slots(Live, P)) /\ Cardinality(Slots(Live, P)) \in Nat
         /\ Cardinality(Slots(Live, P)) <= Len(steps) * MaxTries
<1> DEFINE A == 1 .. Len(steps)
           B == 1 .. MaxTries
<1>1. Len(steps) \in Nat /\ MaxTries \in Nat
  BY DEF CurrentTyped, ActionsAssumption
<1>2. IsFiniteSet(A) /\ IsFiniteSet(B) /\ Cardinality(A) = Len(steps) /\ Cardinality(B) = MaxTries
  <2>1. \A n \in Nat : IsFiniteSet(1 .. n) /\ Cardinality(1 .. n) = n
    <3> SUFFICES ASSUME NEW n \in Nat PROVE IsFiniteSet(1 .. n) /\ Cardinality(1 .. n) = n
      OBVIOUS
    <3>1. IsFiniteSet(1 .. n) /\ Cardinality(1 .. n) = IF 1 > n THEN 0 ELSE n - 1 + 1
      BY FS_Interval
    <3> QED BY <3>1
  <2> QED BY <1>1, <2>1
<1>3. Slots(Live, P) \subseteq A \X B
  <2>1. \A a \in Live : a.step \in A /\ a.try \in B
    BY <1>1 DEF Live, CurrentTyped, StraysTyped
  <2>2. \A q \in Slots(Live, P) : \E a \in Live : q = <<a.step, a.try>>
    BY DEF Slots
  <2> HIDE DEF A, B
  <2> QED BY <2>1, <2>2
<1>4. IsFiniteSet(A \X B) /\ Cardinality(A \X B) = Len(steps) * MaxTries
  <2> HIDE DEF A, B
  <2> QED BY <1>2, FS_Product
<1> HIDE DEF A, B
<1>5. IsFiniteSet(Slots(Live, P)) /\ Cardinality(Slots(Live, P)) <= Cardinality(A \X B)
  BY <1>3, <1>4, FS_Subset
<1> QED BY <1>4, <1>5, FS_CardinalityType

\* Attempts that come or go outside P change nothing.
LEMMA SlotsKept ==
  ASSUME NEW P, NEW L, NEW M,
         \A x \in M : <<x.kind, x.pc>> \in P => x \in L,
         \A x \in L : <<x.kind, x.pc>> \in P => x \in M
  PROVE  Slots(M, P) = Slots(L, P)
BY DEF Slots

\* One attempt goes from one place to the next: the number of slots follows.
LEMMA PressStep ==
  ASSUME NEW P, NEW L, NEW M, NEW a \in L, NEW b,
         b.pc = a.pc + 1, b.step = a.step, b.try = a.try,
         IsFiniteSet(Slots(L, P)),
         \A x \in L : x.step = a.step /\ x.try = a.try => x = a,
         \A x \in M : <<x.kind, x.pc>> \in P => x = b \/ (x \in L /\ x # a),
         \A x \in L : x # a => x \in M,
         <<b.kind, b.pc>> \in P => b \in M
  PROVE  /\ Cardinality(Slots(L, P)) \in Nat
         /\ <<a.kind, a.pc>> \notin P /\ <<b.kind, b.pc>> \in P
            => Cardinality(Slots(M, P)) = Cardinality(Slots(L, P)) + 1
         /\ <<a.kind, a.pc>> \in P /\ <<b.kind, b.pc>> \notin P
            => Cardinality(Slots(L, P)) # 0 /\ Cardinality(Slots(M, P)) = Cardinality(Slots(L, P)) - 1
         /\ (<<a.kind, a.pc>> \in P <=> <<b.kind, b.pc>> \in P)
            => Cardinality(Slots(M, P)) = Cardinality(Slots(L, P))
<1> DEFINE p == <<a.step, a.try>>
           now == <<a.kind, a.pc>> \in P
           after == <<b.kind, b.pc>> \in P
           S == Slots(L, P)
           T == Slots(M, P)
<1>1. \A q : q \in S <=> \E x \in L : <<x.kind, x.pc>> \in P /\ q = <<x.step, x.try>>
  BY DEF Slots
<1>2. \A q : q \in T <=> \E x \in M : <<x.kind, x.pc>> \in P /\ q = <<x.step, x.try>>
  BY DEF Slots
<1>3. p \in S <=> now
  <2>1. now => p \in S
    BY <1>1
  <2>2. ASSUME p \in S PROVE now
    <3>1. PICK x \in L : <<x.kind, x.pc>> \in P /\ p = <<x.step, x.try>>
      BY <2>2, <1>1
    <3>2. x = a
      BY <3>1
    <3> QED BY <3>1, <3>2
  <2> QED BY <2>1, <2>2
<1>4. p \in T <=> after
  <2>1. after => p \in T
    BY <1>2
  <2>2. ASSUME p \in T PROVE after
    <3>1. PICK x \in M : <<x.kind, x.pc>> \in P /\ p = <<x.step, x.try>>
      BY <2>2, <1>2
    <3>2. x.step = a.step /\ x.try = a.try
      BY <3>1
    <3>3. x = b
      BY <3>1, <3>2
    <3> QED BY <3>1, <3>3
  <2> QED BY <2>1, <2>2
<1>5. \A q : q # p => (q \in T <=> q \in S)
  <2>1. ASSUME NEW q, q # p, q \in T PROVE q \in S
    BY <2>1, <1>1, <1>2
  <2>2. ASSUME NEW q, q # p, q \in S PROVE q \in T
    BY <2>2, <1>1, <1>2
  <2> QED BY <2>1, <2>2
<1>6. IsFiniteSet(S) /\ Cardinality(S) \in Nat
  BY FS_CardinalityType
<1> HIDE DEF p, now, after, S, T
<1>7. ASSUME ~now, after PROVE Cardinality(T) = Cardinality(S) + 1
  <2>1. p \in T /\ p \notin S
    BY <1>7, <1>3, <1>4
  <2>2. T = S \cup {p}
    BY <2>1, <1>5
  <2>3. Cardinality(S \cup {p}) = Cardinality(S) + 1
    BY <2>1, <1>6, FS_AddElement
  <2> QED BY <2>2, <2>3
<1>8. ASSUME now, ~after PROVE Cardinality(S) # 0 /\ Cardinality(T) = Cardinality(S) - 1
  <2>1. T = S \ {p} /\ p \in S
    BY <1>8, <1>3, <1>4, <1>5
  <2>2. Cardinality(T) = Cardinality(S) - 1
    BY <2>1, <1>6, FS_RemoveElement
  <2>3. Cardinality(S) # 0
    BY <2>1, <1>6, FS_EmptySet
  <2> QED BY <2>2, <2>3
<1>9. ASSUME now <=> after PROVE Cardinality(T) = Cardinality(S)
  <2>1. T = S
    BY <1>9, <1>3, <1>4, <1>5
  <2> QED BY <2>1
<1> QED BY <1>6, <1>7, <1>8, <1>9 DEF now, after, S, T

\* The live attempts are attempts of different steps or numbers.
LEMMA LiveDiffer ==
  ASSUME CurrentTyped, StraysTyped, AttemptsDiffer, NEW a \in Live
  PROVE  /\ a \in Attempts
         /\ \A x \in Live : x.step = a.step /\ x.try = a.try => x = a
<1>1. \A x \in Live : x \in Attempts
  BY DEF Live, CurrentTyped, StraysTyped
<1>2. cur # NoAttempt => \A s \in strays : ~(s.step = cur.step /\ s.try = cur.try)
  <2> SUFFICES ASSUME cur # NoAttempt, NEW s \in strays, s.step = cur.step, s.try = cur.try
               PROVE  FALSE
    OBVIOUS
  <2>1. s.step \in Nat /\ s.try \in Nat /\ cur.step = at /\ cur.try = tries
    BY AttemptFacts DEF CurrentTyped, StraysTyped
  <2>2. s.step < at \/ (s.step = at /\ s.try < tries)
    BY DEF AttemptsDiffer
  <2>3. s.step = at /\ s.try = tries
    BY <2>1
  <2> QED BY <2>1, <2>2, <2>3
<1>3. \A x \in Live : x \in strays \/ (cur # NoAttempt /\ x = cur)
  BY DEF Live
<1>4. \A x \in Live : x.step = a.step /\ x.try = a.try => x = a
  BY <1>2, <1>3 DEF AttemptsDiffer
<1> QED BY <1>1, <1>4

\* A live attempt executes an operation and goes on to the next, or ends; a new attempt
\* may begin.
LEMMA DevicesCount ==
  ASSUME CurrentTyped, StraysTyped, AttemptsDiffer, PressesCounted, ActionsAssumption,
         NEW a \in Live, Devices(Op(a)), NEW b,
         b.kind = a.kind, b.pc = a.pc + 1, b.step = a.step, b.try = a.try,
         \A x \in Live' : x.pc = 1 \/ x = b \/ (x \in Live /\ x # a),
         \A x \in Live : x # a => x \in Live',
         a.pc # Len(Script(a.kind)) => b \in Live'
  PROVE  PressesCounted'
<1> DEFINE op == Op(a)
           n == Len(Script(a.kind))
           L == Live
           M == Live'
<1>1. a \in Attempts /\ \A x \in L : x.step = a.step /\ x.try = a.try => x = a
  BY LiveDiffer
<1>2. b.kind = a.kind /\ b.pc = a.pc + 1 /\ b.step = a.step /\ b.try = a.try
  OBVIOUS
<1>3. /\ PressFacts(a.kind, a.pc, op, n, ButtonDown, "down", "up")
      /\ PressFacts(a.kind, a.pc, op, n, KeyDown, "keydown", "keyup")
  BY <1>1, AttemptFacts DEF ScriptFacts, Op
<1>4. \A k : <<k, 1>> \notin ButtonDown /\ <<k, 1>> \notin KeyDown
  BY DEF ButtonDown, KeyDown
<1>5. <<a.kind, n + 1>> \notin ButtonDown /\ <<a.kind, n + 1>> \notin KeyDown
  BY <1>3 DEF PressFacts
<1>6. a.pc = n \/ b \in M
  OBVIOUS
<1>7. /\ IsFiniteSet(Slots(L, ButtonDown)) /\ IsFiniteSet(Slots(L, KeyDown))
      /\ held \in Nat /\ keys \in Nat
      /\ held = Cardinality(Slots(L, ButtonDown)) /\ keys = Cardinality(Slots(L, KeyDown))
  BY SlotsBounded DEF PressesCounted
<1>8. \A x \in M : x.pc = 1 \/ x = b \/ (x \in L /\ x # a)
  OBVIOUS
<1>9. \A x \in L : x # a => x \in M
  OBVIOUS
<1>10. /\ op = "down" => held' = held + 1
       /\ op = "up" /\ held # 0 => held' = held - 1
       /\ op # "down" /\ op # "up" => held' = held
       /\ op = "keydown" => keys' = keys + 1
       /\ op = "keyup" /\ keys # 0 => keys' = keys - 1
       /\ op # "keydown" /\ op # "keyup" => keys' = keys
  <2> HIDE DEF op
  <2>1. Devices(op)
    BY DEF op
  <2> QED BY <2>1 DEF Devices
<1>11. a \in L
  OBVIOUS
<1> HIDE DEF op, n, L, M
<1>12. held' = Cardinality(Slots(M, ButtonDown))
  <2>1. \A x \in M : <<x.kind, x.pc>> \in ButtonDown => x = b \/ (x \in L /\ x # a)
    BY <1>4, <1>8
  <2>2. <<b.kind, b.pc>> \in ButtonDown => b \in M
    BY <1>2, <1>5, <1>6
  <2>3. IsFiniteSet(Slots(L, ButtonDown))
    BY <1>7
  <2>4. /\ <<a.kind, a.pc>> \notin ButtonDown /\ <<b.kind, b.pc>> \in ButtonDown
           => Cardinality(Slots(M, ButtonDown)) = Cardinality(Slots(L, ButtonDown)) + 1
        /\ <<a.kind, a.pc>> \in ButtonDown /\ <<b.kind, b.pc>> \notin ButtonDown
           => Cardinality(Slots(L, ButtonDown)) # 0 /\ Cardinality(Slots(M, ButtonDown)) = Cardinality(Slots(L, ButtonDown)) - 1
        /\ (<<a.kind, a.pc>> \in ButtonDown <=> <<b.kind, b.pc>> \in ButtonDown)
           => Cardinality(Slots(M, ButtonDown)) = Cardinality(Slots(L, ButtonDown))
    BY <1>1, <1>2, <1>9, <1>11, <2>1, <2>2, <2>3, PressStep
  <2>5. /\ op = "down" => <<a.kind, a.pc>> \notin ButtonDown /\ <<b.kind, b.pc>> \in ButtonDown
        /\ op = "up" => <<a.kind, a.pc>> \in ButtonDown /\ <<b.kind, b.pc>> \notin ButtonDown
        /\ op # "down" /\ op # "up" => (<<a.kind, a.pc>> \in ButtonDown <=> <<b.kind, b.pc>> \in ButtonDown)
    BY <1>2, <1>3 DEF PressFacts
  <2> QED BY <1>7, <1>10, <2>4, <2>5
<1>13. keys' = Cardinality(Slots(M, KeyDown))
  <2>1. \A x \in M : <<x.kind, x.pc>> \in KeyDown => x = b \/ (x \in L /\ x # a)
    BY <1>4, <1>8
  <2>2. <<b.kind, b.pc>> \in KeyDown => b \in M
    BY <1>2, <1>5, <1>6
  <2>3. IsFiniteSet(Slots(L, KeyDown))
    BY <1>7
  <2>4. /\ <<a.kind, a.pc>> \notin KeyDown /\ <<b.kind, b.pc>> \in KeyDown
           => Cardinality(Slots(M, KeyDown)) = Cardinality(Slots(L, KeyDown)) + 1
        /\ <<a.kind, a.pc>> \in KeyDown /\ <<b.kind, b.pc>> \notin KeyDown
           => Cardinality(Slots(L, KeyDown)) # 0 /\ Cardinality(Slots(M, KeyDown)) = Cardinality(Slots(L, KeyDown)) - 1
        /\ (<<a.kind, a.pc>> \in KeyDown <=> <<b.kind, b.pc>> \in KeyDown)
           => Cardinality(Slots(M, KeyDown)) = Cardinality(Slots(L, KeyDown))
    BY <1>1, <1>2, <1>9, <1>11, <2>1, <2>2, <2>3, PressStep
  <2>5. /\ op = "keydown" => <<a.kind, a.pc>> \notin KeyDown /\ <<b.kind, b.pc>> \in KeyDown
        /\ op = "keyup" => <<a.kind, a.pc>> \in KeyDown /\ <<b.kind, b.pc>> \notin KeyDown
        /\ op # "keydown" /\ op # "keyup" => (<<a.kind, a.pc>> \in KeyDown <=> <<b.kind, b.pc>> \in KeyDown)
    BY <1>2, <1>3 DEF PressFacts
  <2> QED BY <1>7, <1>10, <2>4, <2>5
<1> QED BY <1>12, <1>13 DEF PressesCounted, M

\* A live attempt ends where it has nothing pressed, or is given up; a new one may begin.
LEMMA NothingPressed ==
  ASSUME PressesCounted, UNCHANGED <<held, keys>>,
         \A x \in Live' : x.pc = 1 \/ x \in Live,
         \A x \in Live : x \in Live' \/ (/\ <<x.kind, x.pc>> \notin ButtonDown
                                         /\ <<x.kind, x.pc>> \notin KeyDown)
  PROVE  PressesCounted'
<1>1. \A k : <<k, 1>> \notin ButtonDown /\ <<k, 1>> \notin KeyDown
  BY DEF ButtonDown, KeyDown
<1>2. Slots(Live', ButtonDown) = Slots(Live, ButtonDown)
  <2>1. \A x \in Live' : <<x.kind, x.pc>> \in ButtonDown => x \in Live
    BY <1>1
  <2>2. \A x \in Live : <<x.kind, x.pc>> \in ButtonDown => x \in Live'
    OBVIOUS
  <2> QED BY <2>1, <2>2, SlotsKept
<1>3. Slots(Live', KeyDown) = Slots(Live, KeyDown)
  <2>1. \A x \in Live' : <<x.kind, x.pc>> \in KeyDown => x \in Live
    BY <1>1
  <2>2. \A x \in Live : <<x.kind, x.pc>> \in KeyDown => x \in Live'
    OBVIOUS
  <2> QED BY <2>1, <2>2, SlotsKept
<1> QED BY <1>2, <1>3 DEF PressesCounted

\* An attempt whose operation fails has nothing pressed.
LEMMA FailsFree ==
  ASSUME NEW a \in Attempts, Fails(Op(a))
  PROVE  <<a.kind, a.pc>> \notin ButtonDown /\ <<a.kind, a.pc>> \notin KeyDown
<1>1. Op(a) \notin Sure
  BY DEF Fails, Sure
<1>2. ScriptFacts(a.kind, Script(a.kind)) /\ a.pc \in 1 .. Len(Script(a.kind))
  BY AttemptFacts
<1> QED BY <1>1, <1>2 DEF ScriptFacts, PressFacts, Op

-----------------------------------------------------------------------------
(* The attempts of a run.                                                   *)

\* The steps of a rule that runs are kinds of actions, and a script has a first place.
LEMMA AttemptTyped ==
  ASSUME CurrentTyped, NEW i \in 1 .. Len(steps), NEW t \in Nat
  PROVE  /\ Attempt(i, t) \in Attempts /\ Attempt(i, t).pc = 1
         /\ Attempt(i, t).kind = steps[i] /\ Attempt(i, t).step = i /\ Attempt(i, t).try = t
<1>1. steps[i] \in ActionKinds
  BY DEF CurrentTyped
<1>2. 1 \in DOMAIN Script(steps[i])
  BY <1>1, ScriptsKeepFaith DEF ScriptFacts
<1>3. i \in Nat
  BY DEF CurrentTyped
<1> QED BY <1>1, <1>2, <1>3 DEF Attempt, Attempts

\* A step that is done or fails leaves the run to the next attempt, or over.
LEMMA NextAttempt ==
  ASSUME CurrentTyped, ActionsAssumption, cur # NoAttempt, StepDone \/ StepFails, steps' = steps
  PROVE  /\ CurrentTyped'
         /\ cur' # NoAttempt => cur'.pc = 1 /\ (at' = at + 1 \/ (at' = at /\ tries' = tries + 1))
         /\ at' = at \/ at' = at + 1
<1>0. /\ steps \in Seq(ActionKinds) /\ Len(steps) \in Nat \ {0}
      /\ at \in 1 .. Len(steps) /\ tries \in 1 .. MaxTries /\ MaxTries \in Nat \ {0}
      /\ verdict # "success"
  BY DEF CurrentTyped, ActionsAssumption
<1>1. Attempt(1, 1).kind = steps[1] /\ \A i, t : Attempt(i, t)' = Attempt(i, t)
  BY DEF Attempt
<1>2. CASE StepDone /\ at = Len(steps)
  BY <1>0, <1>2 DEF StepDone, CurrentTyped
<1>3. CASE StepDone /\ at # Len(steps)
  <2>1. /\ at' = at + 1 /\ tries' = 1 /\ cur' = Attempt(at + 1, 1) /\ verdict' = verdict
        /\ at + 1 \in 1 .. Len(steps) /\ 1 \in 1 .. MaxTries
    BY <1>0, <1>3 DEF StepDone
  <2>2. cur' \in Attempts /\ cur'.pc = 1 /\ cur'.kind = steps[at + 1] /\ cur'.step = at + 1 /\ cur'.try = 1
    BY <2>1, AttemptTyped
  <2>3. Attempts' = Attempts
    BY DEF Attempts
  <2> QED BY <1>0, <2>1, <2>2, <2>3 DEF CurrentTyped
<1>4. CASE StepFails /\ tries < MaxTries
  <2>1. /\ at' = at /\ tries' = tries + 1 /\ cur' = Attempt(at, tries + 1) /\ verdict' = verdict
        /\ tries + 1 \in 1 .. MaxTries /\ tries + 1 \in Nat
    BY <1>0, <1>4 DEF StepFails
  <2>2. cur' \in Attempts /\ cur'.pc = 1 /\ cur'.kind = steps[at] /\ cur'.step = at /\ cur'.try = tries + 1
    BY <1>0, <2>1, AttemptTyped
  <2> QED BY <1>0, <2>1, <2>2 DEF CurrentTyped, Attempts
<1>5. CASE StepFails /\ ~(tries < MaxTries)
  BY <1>0, <1>5 DEF StepFails, CurrentTyped
<1> QED BY <1>2, <1>3, <1>4, <1>5

\* The place after a place of the script that is not its last.
LEMMA PlaceAfter ==
  ASSUME NEW a \in Attempts, NEW b, b = [a EXCEPT !.pc = @ + 1]
  PROVE  /\ b.kind = a.kind /\ b.pc = a.pc + 1 /\ b.step = a.step /\ b.try = a.try
         /\ a.pc # Len(Script(a.kind)) => b \in Attempts
<1>1. b = [kind |-> a.kind, pc |-> a.pc + 1, step |-> a.step, try |-> a.try]
  BY AttemptFacts
<1>2. /\ a.kind \in ActionKinds /\ a.pc \in 1 .. Len(Script(a.kind)) /\ a.step \in Nat /\ a.try \in Nat
      /\ DOMAIN Script(a.kind) = 1 .. Len(Script(a.kind)) /\ Len(Script(a.kind)) \in Nat
  BY AttemptFacts DEF ScriptFacts
<1>3. ASSUME a.pc # Len(Script(a.kind)) PROVE a.pc + 1 \in DOMAIN Script(a.kind) /\ a.pc + 1 \in Nat
  BY <1>2, <1>3
<1>4. ASSUME a.pc # Len(Script(a.kind)) PROVE b \in Attempts
  BY <1>1, <1>2, <1>3, <1>4 DEF Attempts
<1> QED BY <1>1, <1>4

\* Attempts stay typed and different, whoever runs, fails or is given up.
LEMMA AttemptsStep ==
  ASSUME ActionsAssumption, CurrentTyped, StraysTyped, AttemptsDiffer, [ActionsNext]_actionVars
  PROVE  CurrentTyped' /\ StraysTyped' /\ AttemptsDiffer'
<1>0. /\ Len(steps) \in Nat /\ at \in 1 .. Len(steps) /\ tries \in 1 .. MaxTries /\ MaxTries \in Nat
      /\ Attempts' = Attempts
      /\ \A s \in strays : s.step \in 1 .. at /\ s.try \in 1 .. MaxTries
  BY DEF CurrentTyped, StraysTyped, ActionsAssumption, Attempts
<1>a. \A s \in strays : s.step \in 1 .. at
  BY <1>0
<1>1. CASE Toggle \/ Scrolls \/ UNCHANGED actionVars
  <2>1. UNCHANGED <<steps, at, tries, cur, strays, verdict>>
    BY <1>1 DEF Toggle, Scrolls, actionVars
  <2> QED BY <1>0, <2>1 DEF CurrentTyped, StraysTyped, AttemptsDiffer
<1>2. CASE Runs
  <2>0. steps' = steps /\ strays' = strays /\ cur # NoAttempt
    BY <1>2 DEF Runs
  <2>1. CASE cur.pc = Len(Script(cur.kind))
    <3>1. StepDone
      BY <1>2, <2>1 DEF Runs
    <3>2. CurrentTyped' /\ (at' = at \/ at' = at + 1)
      BY <2>0, <3>1, NextAttempt
    <3>3. cur' # NoAttempt => at' = at + 1
      BY <3>1 DEF StepDone
    <3>4. StraysTyped'
      BY <1>0, <2>0, <3>2 DEF StraysTyped
    <3>5. AttemptsDiffer'
      BY <1>0, <2>0, <3>3 DEF AttemptsDiffer
    <3> QED BY <3>2, <3>4, <3>5
  <2>2. CASE cur.pc # Len(Script(cur.kind))
    <3>1. cur' = [cur EXCEPT !.pc = @ + 1] /\ UNCHANGED <<at, tries, verdict>>
      BY <1>2, <2>2 DEF Runs
    <3>2. cur \in Attempts /\ cur.kind = steps[at] /\ cur.step = at /\ cur.try = tries
      BY <2>0 DEF CurrentTyped
    <3>3. cur' \in Attempts /\ cur'.kind = cur.kind /\ cur'.step = cur.step /\ cur'.try = cur.try
      BY <2>2, <3>1, <3>2, PlaceAfter
    <3>4. verdict # "success"
      BY <2>0 DEF CurrentTyped
    <3>5. CurrentTyped'
      BY <1>0, <2>0, <3>1, <3>2, <3>3, <3>4 DEF CurrentTyped
    <3> QED BY <1>0, <2>0, <3>1, <3>5 DEF StraysTyped, AttemptsDiffer
  <2> QED BY <2>1, <2>2
<1>3. CASE Throws
  <2>0. steps' = steps /\ strays' = strays /\ cur # NoAttempt /\ StepFails
    BY <1>3 DEF Throws
  <2>1. CurrentTyped'
    BY <2>0, NextAttempt
  <2>2. at' = at /\ (cur' # NoAttempt => tries' = tries + 1)
    BY <2>0 DEF StepFails
  <2>3. StraysTyped' /\ AttemptsDiffer'
    BY <1>0, <2>0, <2>2 DEF StraysTyped, AttemptsDiffer
  <2> QED BY <2>1, <2>3
<1>4. CASE HardTimeout
  <2>0. steps' = steps /\ strays' = strays \cup {cur} /\ cur # NoAttempt /\ StepFails
    BY <1>4 DEF HardTimeout
  <2>1. CurrentTyped'
    BY <2>0, NextAttempt
  <2>2. at' = at /\ (cur' # NoAttempt => tries' = tries + 1)
    BY <2>0 DEF StepFails
  <2>3. cur \in Attempts /\ cur.step = at /\ cur.try = tries
    BY <2>0 DEF CurrentTyped
  <2>4. StraysTyped'
    BY <1>0, <2>0, <2>2, <2>3 DEF StraysTyped
  <2>5. \A s, t \in strays' : s.step = t.step /\ s.try = t.try => s = t
    <3>1. strays \subseteq Live /\ cur \in Live
      BY <2>0 DEF Live
    <3> QED BY <2>0, <3>1, LiveDiffer
  <2>6. cur' # NoAttempt => \A s \in strays' : s.step < at' \/ (s.step = at' /\ s.try < tries')
    <3>1. \A s \in strays : s.step < at \/ (s.step = at /\ s.try < tries)
      BY <2>0 DEF AttemptsDiffer
    <3> QED BY <1>0, <2>0, <2>2, <2>3, <3>1
  <2> QED BY <2>1, <2>4, <2>5, <2>6 DEF AttemptsDiffer
<1>5. CASE StrayRuns
  <2>1. UNCHANGED <<steps, at, tries, cur, verdict>>
    BY <1>5 DEF StrayRuns
  <2>2. PICK s \in strays :
          strays' = (strays \ {s}) \cup
             (IF s.pc = Len(Script(s.kind)) THEN {} ELSE {[s EXCEPT !.pc = @ + 1]})
    BY <1>5 DEF StrayRuns
  <2>3. s \in Attempts
    BY DEF StraysTyped
  <2>4. PICK b : b = [s EXCEPT !.pc = @ + 1]
    OBVIOUS
  <2>5. /\ b.kind = s.kind /\ b.step = s.step /\ b.try = s.try
        /\ s.pc # Len(Script(s.kind)) => b \in Attempts
    BY <2>3, <2>4, PlaceAfter
  <2>6. \A x \in strays' : x \in strays \ {s} \/ (x = b /\ b \in Attempts)
    BY <2>2, <2>4, <2>5
  <2>7. CurrentTyped'
    BY <2>1, <1>0 DEF CurrentTyped
  <2>8. StraysTyped'
    BY <1>0, <2>1, <2>5, <2>6 DEF StraysTyped
  <2>9. AttemptsDiffer'
    <3>1. \A x, y \in strays' : x.step = y.step /\ x.try = y.try => x = y
      BY <2>5, <2>6 DEF AttemptsDiffer
    <3>2. cur' # NoAttempt => \A x \in strays' : x.step < at' \/ (x.step = at' /\ x.try < tries')
      BY <2>1, <2>5, <2>6 DEF AttemptsDiffer
    <3> QED BY <3>1, <3>2 DEF AttemptsDiffer
  <2> QED BY <2>7, <2>8, <2>9
<1>6. CASE StrayThrows
  <2>1. UNCHANGED <<steps, at, tries, cur, verdict>> /\ strays' \subseteq strays
    BY <1>6 DEF StrayThrows
  <2> QED BY <1>0, <2>1 DEF CurrentTyped, StraysTyped, AttemptsDiffer
<1> QED BY <1>1, <1>2, <1>3, <1>4, <1>5, <1>6 DEF ActionsNext

-----------------------------------------------------------------------------
(* The three counts are kept.                                               *)

\* The counters of what is down follow the live attempts.
LEMMA PressesStep ==
  ASSUME ActionsAssumption, CurrentTyped, StraysTyped, AttemptsDiffer, PressesCounted,
         [ActionsNext]_actionVars
  PROVE  PressesCounted'
<1>0. /\ cur # NoAttempt => cur \in Live /\ cur \in Attempts
      /\ \A s \in strays : s \in Live /\ s \in Attempts /\ s # cur
  <2>1. cur # NoAttempt => cur \in Live /\ cur \in Attempts
    BY DEF Live, CurrentTyped
  <2>2. \A s \in strays : s \in Live /\ s \in Attempts
    BY DEF Live, StraysTyped
  <2>3. ASSUME NEW s \in strays, s = cur PROVE FALSE
    <3>1. cur # NoAttempt
      BY <2>2, <2>3, AttemptFacts
    <3>2. cur.step = at /\ cur.try = tries /\ at \in Nat /\ tries \in Nat
      BY <3>1, ActionsAssumption DEF CurrentTyped, ActionsAssumption
    <3>3. s.step < at \/ (s.step = at /\ s.try < tries)
      BY <3>1 DEF AttemptsDiffer
    <3> QED BY <2>3, <3>2, <3>3
  <2> QED BY <2>1, <2>2, <2>3
<1>1. CASE Toggle \/ Scrolls \/ UNCHANGED actionVars
  <2>1. UNCHANGED <<cur, strays, held, keys>>
    BY <1>1 DEF Toggle, Scrolls, actionVars, deviceVars
  <2> QED BY <2>1 DEF PressesCounted, Live, Slots
<1>2. CASE Runs
  <2>0. steps' = steps /\ strays' = strays /\ cur # NoAttempt /\ Devices(Op(cur))
    BY <1>2 DEF Runs
  <2>1. PICK b : b = [cur EXCEPT !.pc = @ + 1]
    OBVIOUS
  <2>2. b.kind = cur.kind /\ b.pc = cur.pc + 1 /\ b.step = cur.step /\ b.try = cur.try
    BY <1>0, <2>0, <2>1, PlaceAfter
  <2>3. cur.pc = Len(Script(cur.kind)) => cur' = NoAttempt \/ cur'.pc = 1
    <3>1. cur.pc = Len(Script(cur.kind)) => StepDone
      BY <1>2 DEF Runs
    <3> QED BY <2>0, <3>1, NextAttempt
  <2>4. cur.pc # Len(Script(cur.kind)) => cur' = b /\ b \in Attempts
    BY <1>0, <1>2, <2>0, <2>1, PlaceAfter DEF Runs
  <2>5. \A x \in Live' : x.pc = 1 \/ x = b \/ (x \in Live /\ x # cur)
    BY <1>0, <2>0, <2>3, <2>4 DEF Live
  <2>6. \A x \in Live : x # cur => x \in Live'
    BY <2>0 DEF Live
  <2>7. cur.pc # Len(Script(cur.kind)) => b \in Live'
    <3>1. b \in Attempts => b # NoAttempt
      BY AttemptFacts
    <3> QED BY <2>4, <3>1 DEF Live
  <2> QED BY <1>0, <2>0, <2>2, <2>5, <2>6, <2>7, DevicesCount
<1>3. CASE Throws
  <2>0. /\ steps' = steps /\ strays' = strays /\ cur # NoAttempt /\ Fails(Op(cur)) /\ StepFails
        /\ UNCHANGED <<held, keys>>
    BY <1>3 DEF Throws
  <2>1. cur' = NoAttempt \/ cur'.pc = 1
    BY <2>0, NextAttempt
  <2>2. <<cur.kind, cur.pc>> \notin ButtonDown /\ <<cur.kind, cur.pc>> \notin KeyDown
    BY <1>0, <2>0, FailsFree
  <2>3. \A x \in Live' : x.pc = 1 \/ x \in Live
    BY <2>0, <2>1 DEF Live
  <2>4. \A x \in Live : x \in Live' \/ x = cur
    BY <2>0 DEF Live
  <2> QED BY <2>0, <2>2, <2>3, <2>4, NothingPressed
<1>4. CASE HardTimeout
  <2>0. /\ steps' = steps /\ strays' = strays \cup {cur} /\ cur # NoAttempt /\ StepFails
        /\ UNCHANGED <<held, keys>>
    BY <1>4 DEF HardTimeout, deviceVars
  <2>1. cur' = NoAttempt \/ cur'.pc = 1
    BY <2>0, NextAttempt
  <2>2. \A x \in Live' : x.pc = 1 \/ x \in Live
    BY <2>0, <2>1 DEF Live
  <2>3. \A x \in Live : x \in Live'
    BY <2>0 DEF Live
  <2> QED BY <2>0, <2>2, <2>3, NothingPressed
<1>5. CASE StrayRuns
  <2>1. PICK s \in strays :
          /\ Devices(Op(s)) /\ cur' = cur
          /\ strays' = (strays \ {s}) \cup
               (IF s.pc = Len(Script(s.kind)) THEN {} ELSE {[s EXCEPT !.pc = @ + 1]})
    BY <1>5 DEF StrayRuns
  <2>2. PICK b : b = [s EXCEPT !.pc = @ + 1]
    OBVIOUS
  <2>3. b.kind = s.kind /\ b.pc = s.pc + 1 /\ b.step = s.step /\ b.try = s.try
    BY <1>0, <2>2, PlaceAfter
  <2>4. \A x \in Live' : x.pc = 1 \/ x = b \/ (x \in Live /\ x # s)
    BY <1>0, <2>1, <2>2 DEF Live
  <2>5. \A x \in Live : x # s => x \in Live'
    BY <2>1 DEF Live
  <2>6. s.pc # Len(Script(s.kind)) => b \in Live'
    BY <2>1, <2>2 DEF Live
  <2> QED BY <1>0, <2>1, <2>3, <2>4, <2>5, <2>6, DevicesCount
<1>6. CASE StrayThrows
  <2>1. PICK s \in strays : /\ Fails(Op(s)) /\ strays' = strays \ {s} /\ cur' = cur
                            /\ UNCHANGED <<held, keys>>
    BY <1>6 DEF StrayThrows, deviceVars
  <2>2. <<s.kind, s.pc>> \notin ButtonDown /\ <<s.kind, s.pc>> \notin KeyDown
    BY <1>0, <2>1, FailsFree
  <2>3. \A x \in Live' : x.pc = 1 \/ x \in Live
    BY <2>1 DEF Live
  <2>4. \A x \in Live : x \in Live' \/ x = s
    BY <2>1 DEF Live
  <2> QED BY <2>1, <2>2, <2>3, <2>4, NothingPressed
<1> QED BY <1>1, <1>2, <1>3, <1>4, <1>5, <1>6 DEF ActionsNext

\* One step adds at most one send.
LEMMA SendsGrow ==
  ASSUME CurrentTyped, NEW n \in 0 .. Len(steps)
  PROVE  /\ Cardinality(SendsUpTo(n)) \in Nat
         /\ n + 1 \in 1 .. Len(steps) =>
              Cardinality(SendsUpTo(n + 1)) =
              Cardinality(SendsUpTo(n)) + (IF steps[n + 1] \in SendKinds THEN 1 ELSE 0)
<1>0. Len(steps) \in Nat /\ DOMAIN steps = 1 .. Len(steps) /\ n \in Nat
  BY DEF CurrentTyped
<1>1. SendsUpTo(n) \subseteq 1 .. n
  BY <1>0 DEF SendsUpTo, Sends
<1>2. IsFiniteSet(SendsUpTo(n)) /\ Cardinality(SendsUpTo(n)) \in Nat
  <2>1. IsFiniteSet(1 .. n)
    BY <1>0, FS_Interval
  <2>2. IsFiniteSet(SendsUpTo(n))
    BY <1>1, <2>1, FS_Subset
  <2> QED BY <2>2, FS_CardinalityType
<1>3. ASSUME n + 1 \in 1 .. Len(steps), steps[n + 1] \in SendKinds
      PROVE  Cardinality(SendsUpTo(n + 1)) = Cardinality(SendsUpTo(n)) + 1
  <2>1. SendsUpTo(n + 1) = SendsUpTo(n) \cup {n + 1} /\ n + 1 \notin SendsUpTo(n)
    BY <1>0, <1>3 DEF SendsUpTo, Sends, SendKinds
  <2> QED BY <1>2, <2>1, FS_AddElement
<1>4. ASSUME n + 1 \in 1 .. Len(steps), steps[n + 1] \notin SendKinds
      PROVE  SendsUpTo(n + 1) = SendsUpTo(n)
  BY <1>0, <1>4 DEF SendsUpTo, Sends, SendKinds
<1> QED BY <1>2, <1>3, <1>4

\* The rows cover the sends of the steps that are done.
LEMMA SendsStep ==
  ASSUME ActionsAssumption, CurrentTyped, StraysTyped, SendsCounted, [ActionsNext]_actionVars
  PROVE  SendsCounted'
<1>0. /\ Len(steps) \in Nat /\ at \in 1 .. Len(steps) /\ rows \in Nat
      /\ verdict = "success" => cur = NoAttempt
  BY DEF CurrentTyped, SendsCounted
<1>1. steps' = steps
  BY DEF ActionsNext, Toggle, Scrolls, Runs, Throws, HardTimeout, StrayRuns, StrayThrows, actionVars
<1>2. \A n : SendsUpTo(n)' = SendsUpTo(n)
  BY <1>1 DEF SendsUpTo, Sends
<1>3. rows' \in Nat /\ rows' >= rows
  BY <1>0 DEF ActionsNext, Toggle, Scrolls, Runs, Throws, HardTimeout, StrayRuns, StrayThrows,
              actionVars, deviceVars, Devices
<1>4. \A n \in 0 .. Len(steps) : Cardinality(SendsUpTo(n)) \in Nat
  BY SendsGrow
<1>5. CASE Runs /\ cur.pc = Len(Script(cur.kind))
  <2>1. StepDone /\ cur # NoAttempt /\ Devices(Op(cur))
    BY <1>5 DEF Runs
  <2>2. cur \in Attempts /\ cur.kind = steps[at]
    BY <2>1 DEF CurrentTyped
  <2>3. steps[at] \in SendKinds => Op(cur) = "send"
    BY <1>5, <2>2, AttemptFacts DEF ScriptFacts, Op
  <2>4. steps[at] \in SendKinds => rows' = rows + 1
    BY <2>1, <2>3 DEF Devices
  <2>5. /\ Cardinality(SendsUpTo(at - 1 + 1)) =
           Cardinality(SendsUpTo(at - 1)) + (IF steps[at - 1 + 1] \in SendKinds THEN 1 ELSE 0)
        /\ at - 1 + 1 = at /\ Cardinality(SendsUpTo(at - 1)) \in Nat
    BY <1>0, SendsGrow
  <2>6. rows >= Cardinality(SendsUpTo(at - 1))
    BY DEF SendsCounted
  <2>7. rows' >= Cardinality(SendsUpTo(at))
    BY <1>0, <1>3, <2>4, <2>5, <2>6
  <2>8. CASE at = Len(steps)
    <3>1. at' = at
      BY <2>1, <2>8 DEF StepDone
    <3>2. rows' >= Cardinality(SendsUpTo(at - 1))
      BY <1>0, <1>3, <2>5, <2>6
    <3> QED BY <1>1, <1>2, <1>3, <2>7, <2>8, <3>1, <3>2 DEF SendsCounted
  <2>9. CASE at # Len(steps)
    <3>1. at' - 1 = at /\ verdict' # "success"
      BY <1>0, <2>1, <2>9 DEF StepDone, CurrentTyped
    <3>2. SendsUpTo(at - 1)' = SendsUpTo(at)
      BY <1>1, <3>1 DEF SendsUpTo, Sends
    <3> QED BY <1>3, <2>7, <3>1, <3>2 DEF SendsCounted
  <2> QED BY <2>8, <2>9
<1>6. CASE ~(Runs /\ cur.pc = Len(Script(cur.kind)))
  <2>1. at' = at /\ (verdict' = "success" => verdict = "success")
    BY <1>6 DEF ActionsNext, Toggle, Scrolls, Runs, Throws, HardTimeout, StrayRuns, StrayThrows,
                actionVars, StepFails
  <2>2. at - 1 \in 0 .. Len(steps) /\ Len(steps) \in 0 .. Len(steps)
    BY <1>0
  <2>3. rows' >= Cardinality(SendsUpTo(at - 1))
    BY <1>0, <1>3, <1>4, <2>2 DEF SendsCounted
  <2>4. verdict' = "success" => rows' >= Cardinality(SendsUpTo(Len(steps)))
    BY <1>0, <1>3, <1>4, <2>1, <2>2 DEF SendsCounted
  <2> QED BY <1>1, <1>2, <1>3, <2>1, <2>3, <2>4 DEF SendsCounted
<1> QED BY <1>5, <1>6

-----------------------------------------------------------------------------
(* The field.                                                               *)

\* What two characters make.
LEMMA SecondCharacter == Append(<<"a">>, "b") = <<"a", "b">>
<1> DEFINE T == {"a", "b"}
           u == Append(<<"a">>, "b")
<1>1. /\ <<"a">> \in Seq(T) /\ "b" \in T /\ Len(<<"a">>) = 1
      /\ <<"a", "b">> \in Seq(T) /\ Len(<<"a", "b">>) = 2
  OBVIOUS
<1>2. u \in Seq(T) /\ Len(u) = 2 /\ u[1] = "a" /\ u[2] = "b"
  <2> HIDE DEF T
  <2>1. /\ Append(<<"a">>, "b") \in Seq(T) /\ Len(Append(<<"a">>, "b")) = 2
        /\ Append(<<"a">>, "b")[1] = <<"a">>[1] /\ Append(<<"a">>, "b")[2] = "b"
    BY <1>1, AppendProperties
  <2> QED BY <2>1
<1> HIDE DEF T, u
<1>3. \A i \in 1 .. Len(u) : u[i] = <<"a", "b">>[i]
  BY <1>2
<1>4. u = <<"a", "b">>
  BY <1>1, <1>2, <1>3, SeqEqual
<1> QED BY <1>4 DEF u

\* A handler that writes goes on with what its script says is in the field.
LEMMA WritesOn ==
  ASSUME NEW a \in Attempts, Devices(Op(a)), MayHold(a.kind, a.pc, field)
  PROVE  MayHold(a.kind, a.pc + 1, field')
<1> DEFINE op == Op(a)
<1>1. FieldFacts(a.kind, a.pc, op, Len(Script(a.kind)))
  BY AttemptFacts DEF ScriptFacts, Op
<1>2. Devices(op) /\ MayHold(a.kind, a.pc, field)
  OBVIOUS
<1> HIDE DEF op
<1>3. CASE op = "clear"
  BY <1>1, <1>2, <1>3 DEF FieldFacts, Devices
<1>4. CASE op = "set"
  BY <1>1, <1>2, <1>4 DEF FieldFacts, Devices
<1>5. CASE op = "char"
  <2>1. a.kind = "type" /\ a.pc \in {4, 5}
    BY <1>1, <1>5 DEF FieldFacts
  <2>2. field' = Append(field, Text[(Len(field) % 2) + 1])
    BY <1>2, <1>5 DEF Devices
  <2>3. CASE a.pc = 4
    <3>1. field = <<>>
      BY <1>2, <2>1, <2>3 DEF MayHold
    <3>2. Len(field) = 0 /\ (Len(field) % 2) + 1 = 1
      BY <3>1
    <3>3. Text[1] = "a"
      BY DEF Text
    <3>4. field' = <<"a">>
      BY <2>2, <3>1, <3>2, <3>3
    <3> QED BY <2>1, <2>3, <3>4 DEF MayHold
  <2>4. CASE a.pc = 5
    <3>1. field = <<"a">>
      BY <1>2, <2>1, <2>4 DEF MayHold
    <3>2. Len(field) = 1 /\ (Len(field) % 2) + 1 = 2
      BY <3>1
    <3>3. Text[2] = "b" /\ Text = <<"a", "b">>
      BY DEF Text
    <3>4. field' = Append(<<"a">>, "b")
      BY <2>2, <3>1, <3>2, <3>3
    <3>5. Append(<<"a">>, "b") = <<"a", "b">>
      BY SecondCharacter
    <3> QED BY <2>1, <2>4, <3>3, <3>4, <3>5 DEF MayHold
  <2> QED BY <2>1, <2>3, <2>4
<1>6. CASE op \notin Writing
  <2>1. field' = field
    BY <1>2, <1>6 DEF Devices, Writing
  <2> QED BY <1>1, <1>2, <1>6, <2>1 DEF FieldFacts
<1> QED BY <1>3, <1>4, <1>5, <1>6 DEF Writing

\* The other handlers leave the field alone.
LEMMA OthersDoNotWrite ==
  ASSUME NEW a \in Attempts, Devices(Op(a)), a.kind \notin WriterKinds
  PROVE  field' = field
<1> DEFINE op == Op(a)
<1>1. FieldFacts(a.kind, a.pc, op, Len(Script(a.kind)))
  BY AttemptFacts DEF ScriptFacts, Op
<1>2. Devices(op)
  OBVIOUS
<1> HIDE DEF op
<1>3. op \notin Writing
  BY <1>1 DEF FieldFacts
<1> QED BY <1>2, <1>3 DEF Devices, Writing

\* One more step is done.
LEMMA WrittenGrows ==
  ASSUME CurrentTyped, NEW text,
         steps[at] \in WriterKinds => text = Writers[steps[at]],
         steps[at] \notin WriterKinds => WrittenUpTo(at - 1, text)
  PROVE  WrittenUpTo(at, text)
<1> SUFFICES ASSUME NEW i \in 1 .. at, steps[i] \in WriterKinds,
                    \A j \in 1 .. at : j > i => steps[j] \notin WriterKinds
             PROVE  text = Writers[steps[i]]
  BY DEF WrittenUpTo
<1>0. at \in Nat \ {0}
  BY DEF CurrentTyped
<1>1. CASE i = at
  BY <1>1
<1>2. CASE i # at
  <2>1. i \in 1 .. (at - 1) /\ steps[at] \notin WriterKinds
    BY <1>0, <1>2
  <2>2. \A j \in 1 .. (at - 1) : j > i => steps[j] \notin WriterKinds
    BY <1>0
  <2> QED BY <2>1, <2>2 DEF WrittenUpTo
<1> QED BY <1>1, <1>2

\* At the first place of a script anything may be in the field.
LEMMA FirstPlace == \A k, text : MayHold(k, 1, text)
BY DEF MayHold

\* While no attempt was given up the field follows the script that runs.
LEMMA FieldStep ==
  ASSUME ActionsAssumption, CurrentTyped, StraysTyped, FieldFollows, [ActionsNext]_actionVars
  PROVE  FieldFollows'
<1> SUFFICES ASSUME ~strayed' PROVE FieldFollows'
  BY DEF FieldFollows
<1>1. /\ ~strayed /\ strays = {} /\ strays' = {} /\ steps' = steps
      /\ Toggle \/ Scrolls \/ Runs \/ Throws \/ UNCHANGED actionVars
  <2>1. CASE HardTimeout
    BY <2>1 DEF HardTimeout
  <2>2. CASE StrayRuns
    BY <2>2 DEF StrayRuns, FieldFollows
  <2>3. CASE StrayThrows
    BY <2>3 DEF StrayThrows, FieldFollows
  <2>4. CASE Toggle \/ Scrolls \/ Runs \/ Throws \/ UNCHANGED actionVars
    BY <2>4 DEF Toggle, Scrolls, Runs, Throws, actionVars, FieldFollows
  <2> QED BY <2>1, <2>2, <2>3, <2>4 DEF ActionsNext
<1>2. \A n, text : WrittenUpTo(n, text)' <=> WrittenUpTo(n, text')
  BY <1>1 DEF WrittenUpTo
<1>3. /\ Len(steps) \in Nat /\ at \in 1 .. Len(steps)
      /\ verdict = "success" => cur = NoAttempt
      /\ cur # NoAttempt => cur \in Attempts /\ cur.kind = steps[at]
  BY DEF CurrentTyped
<1>4. CASE Toggle \/ Scrolls \/ UNCHANGED actionVars
  <2>1. UNCHANGED <<steps, at, cur, field, verdict>>
    BY <1>4 DEF Toggle, Scrolls, actionVars, deviceVars
  <2> QED BY <1>1, <2>1 DEF FieldFollows, WrittenUpTo
<1>5. CASE Throws
  <2>1. cur # NoAttempt /\ StepFails /\ field' = field
    BY <1>5 DEF Throws
  <2>2. at' = at /\ verdict' # "success" /\ (cur' # NoAttempt => cur'.pc = 1)
    <3>1. cur' # NoAttempt => cur'.pc = 1
      BY <1>1, <2>1, NextAttempt
    <3> QED BY <1>3, <2>1, <3>1 DEF StepFails
  <2>3. cur' # NoAttempt => MayHold(steps[at], cur'.pc, field')
    BY <2>2, FirstPlace
  <2>4. steps[at] \notin WriterKinds => WrittenUpTo(at - 1, field)
    BY <1>1, <2>1 DEF FieldFollows
  <2> QED BY <1>1, <2>1, <2>2, <2>3, <2>4 DEF FieldFollows, WrittenUpTo
<1>6. CASE Runs
  <2>0. cur # NoAttempt /\ Devices(Op(cur)) /\ cur \in Attempts /\ cur.kind = steps[at]
    BY <1>3, <1>6 DEF Runs
  <2>1. steps[at] \in WriterKinds => MayHold(steps[at], cur.pc + 1, field')
    <3>1. steps[at] \in WriterKinds => MayHold(steps[at], cur.pc, field)
      BY <1>1, <2>0 DEF FieldFollows
    <3> QED BY <2>0, <3>1, WritesOn
  <2>2. steps[at] \notin WriterKinds => WrittenUpTo(at - 1, field')
    <3>1. steps[at] \notin WriterKinds => WrittenUpTo(at - 1, field)
      BY <1>1, <2>0 DEF FieldFollows
    <3>2. steps[at] \notin WriterKinds => field' = field
      BY <2>0, OthersDoNotWrite
    <3> QED BY <3>1, <3>2
  <2>3. CASE cur.pc # Len(Script(cur.kind))
    <3>1. cur' = [cur EXCEPT !.pc = @ + 1] /\ UNCHANGED <<at, verdict>>
      BY <1>6, <2>3 DEF Runs
    <3>2. cur'.pc = cur.pc + 1
      BY <2>0, <3>1, PlaceAfter
    <3>3. verdict # "success"
      BY <1>3, <2>0
    <3> QED BY <1>1, <2>1, <2>2, <3>1, <3>2, <3>3 DEF FieldFollows, WrittenUpTo
  <2>4. CASE cur.pc = Len(Script(cur.kind))
    <3>1. StepDone
      BY <1>6, <2>4 DEF Runs
    <3>2. steps[at] \in WriterKinds => field' = Writers[steps[at]]
      <4>1. ScriptFacts(cur.kind, Script(cur.kind))
        BY <2>0, AttemptFacts
      <4> QED BY <2>0, <2>1, <2>4, <4>1 DEF ScriptFacts
    <3>3. WrittenUpTo(at, field')
      BY <2>2, <3>2, WrittenGrows
    <3>4. CASE at = Len(steps)
      <4>1. cur' = NoAttempt /\ at' = at
        BY <3>1, <3>4 DEF StepDone
      <4> QED BY <1>1, <3>3, <3>4, <4>1 DEF FieldFollows, WrittenUpTo
    <3>5. CASE at # Len(steps)
      <4>1. at' - 1 = at /\ verdict' # "success"
        BY <1>3, <2>0, <3>1, <3>5 DEF StepDone
      <4>2. cur' # NoAttempt => cur'.pc = 1
        BY <1>1, <2>0, <3>1, NextAttempt
      <4>3. cur' # NoAttempt => \A k : MayHold(k, cur'.pc, field')
        BY <4>2, FirstPlace
      <4>4. WrittenUpTo(at, field')  <=> WrittenUpTo(at - 1, field)'
        BY <1>1, <4>1 DEF WrittenUpTo
      <4> QED BY <1>1, <3>3, <4>1, <4>3, <4>4 DEF FieldFollows
    <3> QED BY <3>4, <3>5
  <2> QED BY <2>3, <2>4
<1> QED BY <1>1, <1>4, <1>5, <1>6

-----------------------------------------------------------------------------
(* The theorem.                                                             *)

\* The invariant holds at the start,
LEMMA ActionsInitInv ==
  ASSUME ActionsAssumption, ActionsInit
  PROVE  ActionsInv
<1>1. /\ steps \in Seq(ActionKinds) /\ steps # <<>> /\ at = 1 /\ tries = 1 /\ strays = {}
      /\ cur = Attempt(1, 1) /\ verdict = "running" /\ rows = 0 /\ held = 0 /\ keys = 0
      /\ MaxTries \in Nat \ {0}
  BY DEF ActionsInit, ActionsAssumption
<1>2. Len(steps) \in Nat \ {0}
  BY <1>1
<1>3. steps[1] \in ActionKinds
  BY <1>1, <1>2
<1>4. cur \in Attempts /\ cur.kind = steps[1] /\ cur.pc = 1 /\ cur.step = 1 /\ cur.try = 1
  <2>1. 1 \in DOMAIN Script(steps[1])
    BY <1>3, ScriptsKeepFaith DEF ScriptFacts
  <2> QED BY <1>1, <1>3, <2>1 DEF Attempt, Attempts
<1>5. CurrentTyped /\ StraysTyped /\ AttemptsDiffer
  BY <1>1, <1>2, <1>4 DEF CurrentTyped, StraysTyped, AttemptsDiffer
<1>6. PressesCounted
  <2>1. Slots(Live, ButtonDown) = {} /\ Slots(Live, KeyDown) = {}
    BY <1>1, <1>4 DEF Slots, Live, ButtonDown, KeyDown
  <2> QED BY <1>1, <2>1, FS_EmptySet DEF PressesCounted
<1>7. SendsCounted
  <2>1. SendsUpTo(at - 1) = {}
    BY <1>1, <1>2 DEF SendsUpTo, Sends
  <2>2. Cardinality(SendsUpTo(at - 1)) = 0
    BY <2>1, FS_EmptySet
  <2> QED BY <1>1, <2>2 DEF SendsCounted
<1>8. FieldFollows
  <2>1. MayHold(steps[at], cur.pc, field)
    BY <1>4, FirstPlace
  <2>2. WrittenUpTo(at - 1, field)
    BY <1>1 DEF WrittenUpTo
  <2> QED BY <1>1, <2>1, <2>2 DEF FieldFollows
<1> QED BY <1>5, <1>6, <1>7, <1>8 DEF ActionsInv

\* and is kept.
LEMMA ActionsInvStep ==
  ASSUME ActionsAssumption, ActionsInv, [ActionsNext]_actionVars
  PROVE  ActionsInv'
BY AttemptsStep, PressesStep, SendsStep, FieldStep DEF ActionsInv

\* What the invariant says of types, of a rule that is over, and of one that succeeded.
LEMMA ActionsInvGives ==
  ASSUME ActionsAssumption, ActionsInv
  PROVE  HandlersLeaveNothing
<1>0. /\ Len(steps) \in Nat \ {0} /\ DOMAIN steps = 1 .. Len(steps)
      /\ at \in 1 .. Len(steps) /\ tries \in 1 .. MaxTries /\ MaxTries \in Nat
      /\ CurrentTyped /\ StraysTyped /\ PressesCounted
  BY DEF ActionsInv, CurrentTyped, ActionsAssumption
<1>1. /\ Cardinality(Slots(Live, ButtonDown)) \in 0 .. Len(steps) * MaxTries
      /\ Cardinality(Slots(Live, KeyDown)) \in 0 .. Len(steps) * MaxTries
  BY <1>0, SlotsBounded
<1>2. ActionsTypeOK
  <2>1. cur # NoAttempt => cur.kind = steps[at] /\ cur.pc \in DOMAIN Script(cur.kind)
    BY <1>0 DEF CurrentTyped, Attempts
  <2>2. \A s \in strays : s.step <= at /\ s.try <= MaxTries /\ s.pc \in DOMAIN Script(s.kind)
    BY <1>0 DEF StraysTyped, Attempts
  <2> QED BY <1>0, <1>1, <2>1, <2>2 DEF ActionsTypeOK, PressesCounted
<1>3. NothingHeld
  <2> SUFFICES ASSUME Idle PROVE held = 0 /\ keys = 0
    BY DEF NothingHeld
  <2>1. Slots(Live, ButtonDown) = {} /\ Slots(Live, KeyDown) = {}
    BY DEF Idle, Live, Slots
  <2> QED BY <1>0, <2>1, FS_EmptySet DEF PressesCounted
<1>4. CleanRunIsExact
  <2> SUFFICES ASSUME verdict = "success", ~strayed
               PROVE  /\ rows >= Cardinality(Sends)
                      /\ \A i \in DOMAIN steps :
                           steps[i] \in DOMAIN Writers
                           /\ (\A j \in DOMAIN steps : j > i => steps[j] \notin DOMAIN Writers)
                           => field = Writers[steps[i]]
    BY DEF CleanRunIsExact
  <2>1. SendsUpTo(Len(steps)) = Sends
    BY <1>0 DEF SendsUpTo, Sends
  <2>2. rows >= Cardinality(Sends)
    BY <2>1 DEF ActionsInv, SendsCounted
  <2>3. DOMAIN Writers = WriterKinds
    BY DEF Writers, WriterKinds
  <2>4. WrittenUpTo(Len(steps), field)
    BY DEF ActionsInv, FieldFollows
  <2> QED BY <1>0, <2>2, <2>3, <2>4 DEF WrittenUpTo
<1> QED BY <1>2, <1>3, <1>4 DEF HandlersLeaveNothing

\* Whatever the page does and whichever attempts are given up, once no handler runs no
\* mouse button and no key is left down; and a rule that succeeds with no attempt given
\* up leaves the field as its last writing step says, with a row for each send.
THEOREM HandlersAlwaysLeaveNothing == ActionsSpec => []HandlersLeaveNothing
<1>1. ActionsInit => ActionsInv
  BY ActionsAssumption, ActionsInitInv
<1>2. ActionsInv /\ [ActionsNext]_actionVars => ActionsInv'
  BY ActionsAssumption, ActionsInvStep
<1>3. ActionsInv => HandlersLeaveNothing
  BY ActionsAssumption, ActionsInvGives
<1> QED BY <1>1, <1>2, <1>3, PTL DEF ActionsSpec

=============================================================================
