----------------------------- MODULE MCLLMBudget -----------------------------
(***************************************************************************)
(* Small instances of LLMBudget for TLC: a DSL operation asked for twice,   *)
(* and one of the other workspace.                                          *)
(***************************************************************************)
EXTENDS LLMBudget, TLC

CONSTANTS c1, c2, c3, o1, o2, w1, w2, f1

ThreeCalls == (c1 :> o1) @@ (c2 :> o1) @@ (c3 :> o2)
TwoWorkspaces == (o1 :> w1) @@ (o2 :> w2)
OneWorkflow == (o1 :> f1) @@ (o2 :> NoWorkflow)

\* The two calls of o1 may change places.
Repeats == Permutations({c1, c2})

\* With two tokens to the rate unit a call reserves 1 + 1 + 1 on either route.
TwoRates == [r \in Routes |-> [input |-> 1, cached |-> 1, output |-> 1]]
TwoCaps == [r \in Routes |-> [input |-> 2, output |-> 2]]

\* A cheap answer, one whose two input categories round apart to the whole
\* reservation, and one beyond the caps.
ThreeUsages ==
  [cheap |-> [uncached |-> 1, cached |-> 0, output |-> 0, reported |-> FALSE],
   split |-> [uncached |-> 1, cached |-> 1, output |-> 2, reported |-> TRUE],
   over  |-> [uncached |-> 3, cached |-> 0, output |-> 1, reported |-> FALSE]]

RequestCap == [w \in Workspaces |-> 3]
DailyCap == [w \in Workspaces |-> 6]
EnvelopeOf == [f \in Workflows |-> 6]
=============================================================================
