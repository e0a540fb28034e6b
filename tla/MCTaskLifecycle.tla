--------------------------- MODULE MCTaskLifecycle ---------------------------
(***************************************************************************)
(* Small instances of TaskLifecycle for TLC: the columns of one task and   *)
(* of two, and the results a worker may submit.                            *)
(***************************************************************************)
EXTENDS TaskLifecycle, TLC

CONSTANTS t1, t2, r1, p1

\* One task.
OneRule == (t1 :> r1)
OnePriority == (t1 :> 1)
OneProfile == (t1 :> NoProfile)
OneCreated == (t1 :> 1)

\* Two tasks: the second is newer and bound to a browser profile.
TwoRule == (t1 :> r1) @@ (t2 :> r1)
TwoPriority == (t1 :> 1) @@ (t2 :> 1)
TwoProfile == (t1 :> NoProfile) @@ (t2 :> p1)
TwoCreated == (t1 :> 1) @@ (t2 :> 2)

\* A valid batch, an invalid batch and a summary.
ThreeResults ==
  {[key |-> "k1", seq |-> 1, kind |-> "batch", valid |-> TRUE],
   [key |-> "k2", seq |-> 1, kind |-> "batch", valid |-> FALSE],
   [key |-> "k3", seq |-> 2, kind |-> "summary", valid |-> TRUE]}

\* A valid batch and two summaries.
RivalResults ==
  {[key |-> "k1", seq |-> 1, kind |-> "batch", valid |-> TRUE],
   [key |-> "k3", seq |-> 2, kind |-> "summary", valid |-> TRUE],
   [key |-> "k5", seq |-> 3, kind |-> "summary", valid |-> TRUE]}

MCSymmetry == Permutations(Workers) \cup Permutations(HumanIds)
=============================================================================
