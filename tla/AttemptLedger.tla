---------------------------- MODULE AttemptLedger ----------------------------
(***************************************************************************)
(* What the task store promises, without workers, leases, interventions or *)
(* a sweeper: every task has a ledger of numbered attempts.  Attempts are  *)
(* opened one at a time and in order, each is closed exactly once, a task  *)
(* is held exactly while an attempt is open, and a task whose attempt      *)
(* succeeded is done for good.                                             *)
(***************************************************************************)
EXTENDS Integers

CONSTANTS
  Tasks,        \* task ids
  MaxAttempts   \* bound: attempts per task

VARIABLES
  phase,   \* where each task is: absent, queued, held, closed or done
  ledger   \* the attempts of each task: none, open, lost or succeeded

ledgerVars == <<phase, ledger>>

Numbers == 1..MaxAttempts

Init ==
  /\ phase = [t \in Tasks |-> "absent"]
  /\ ledger = [t \in Tasks |-> [n \in Numbers |-> "none"]]

Submit(t) ==
  /\ phase[t] = "absent"
  /\ phase' = [phase EXCEPT ![t] = "queued"]
  /\ UNCHANGED ledger

\* The next attempt in order is opened; all earlier ones are closed.
Open(t, n) ==
  /\ phase[t] = "queued"
  /\ ledger[t][n] = "none"
  /\ \A m \in Numbers : IF m < n THEN ledger[t][m] \in {"lost", "succeeded"}
                        ELSE ledger[t][m] = "none"
  /\ phase' = [phase EXCEPT ![t] = "held"]
  /\ ledger' = [ledger EXCEPT ![t][n] = "open"]

Closed(t, outcome) ==
  [n \in Numbers |-> IF ledger[t][n] = "open" THEN outcome ELSE ledger[t][n]]

\* The attempt is lost and the task goes back to the queue.
Requeue(t) ==
  /\ phase[t] = "held"
  /\ phase' = [phase EXCEPT ![t] = "queued"]
  /\ ledger' = [ledger EXCEPT ![t] = Closed(t, "lost")]

\* The attempts of several tasks may be lost together, when decisions expire.
Lose(S) ==
  /\ S # {}
  /\ \A t \in S : phase[t] = "held"
  /\ phase' = [t \in Tasks |-> IF t \in S THEN "closed" ELSE phase[t]]
  /\ ledger' = [t \in Tasks |-> IF t \in S THEN Closed(t, "lost") ELSE ledger[t]]

Succeed(t) ==
  /\ phase[t] = "held"
  /\ phase' = [phase EXCEPT ![t] = "done"]
  /\ ledger' = [ledger EXCEPT ![t] = Closed(t, "succeeded")]

Withdraw(t) ==
  /\ phase[t] = "queued"
  /\ phase' = [phase EXCEPT ![t] = "closed"]
  /\ UNCHANGED ledger

Reopen(t) ==
  /\ phase[t] = "closed"
  /\ phase' = [phase EXCEPT ![t] = "queued"]
  /\ UNCHANGED ledger

Next ==
  \/ \E t \in Tasks :
       \/ Submit(t) \/ Requeue(t) \/ Succeed(t) \/ Withdraw(t) \/ Reopen(t)
       \/ \E n \in Numbers : Open(t, n)
  \/ \E S \in SUBSET Tasks : Lose(S)

Spec == Init /\ [][Next]_ledgerVars
=============================================================================
