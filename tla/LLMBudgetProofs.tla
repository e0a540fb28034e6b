--------------------------- MODULE LLMBudgetProofs ---------------------------
(***************************************************************************)
(* Proofs about LLMBudget, for any calls, operations, routes, prices, caps  *)
(* and number of retries.  The first part proves what a call knows of its   *)
(* ledger entry and that nothing sent is lost or sent again, the second      *)
(* that trusted usage fits its reservation, the third the daily caps, and    *)
(* the last that a workflow is charged no more than the ledger counts.       *)
(***************************************************************************)
EXTENDS LLMBudget, InductionLemmas, TLAPS

\* A call, as TypeOK has it.
CallType == [pc : Steps, route : Routes, tries : 0..CallMaxRetries,
             answer : Usages \cup Faults \cup {NoAnswer}]

\* The steps between Reserve and the end of the settlement: the call owns its identity.
Owning == {"check", "mark", "release", "send", "settle"}

\* No two calls own one identity.
SoleOwner ==
  \A c, d \in Calls :
    call[c].pc \in Owning /\ call[d].pc \in Owning /\ Id(c) = Id(d) => c = d

\* What an owner knows of its entry and of what was sent for it.
OwnerKnows ==
  \A c \in Calls :
    /\ call[c].pc \in Owning => entry[Id(c)].state # "none"
    /\ call[c].pc \in {"check", "mark", "release"} => sends[Id(c)] = 0
    /\ call[c].pc = "send" => sends[Id(c)] = call[c].tries
    /\ call[c].pc \in {"send", "settle"} => entry[Id(c)].state \in Dispatched

\* A call has used retries only once it sends.
FreshTries ==
  \A c \in Calls : call[c].pc \notin {"send", "settle", "spend"} => call[c].tries = 0

\* The inductive invariant.
IInv == TypeOK /\ SentIsCounted /\ SoleOwner /\ OwnerKnows /\ FreshTries

\* Division and remainder of token counts stay natural.
LEMMA QuotientType ==
  ASSUME NEW x \in Nat, NEW u \in Nat, u > 0
  PROVE  x \div u \in Nat /\ x % u \in Nat
<1>1. x \div u \in Nat
  BY SMT
<1>2. x % u \in Nat
  BY SMT
<1> QED BY <1>1, <1>2

\* What a category costs is a natural number of USD nanos.
LEMMA CategoryCostType ==
  ASSUME NEW t \in Nat, NEW p \in Nat PROVE CategoryCost(t, p) \in Nat
<1> DEFINE x == t * p
<1>1. x \in Nat
  BY SMT
<1>2. RateUnit \in Nat /\ RateUnit > 0
  BY PriceAssumption
<1>3. CategoryCost(t, p) = x \div RateUnit + (IF x % RateUnit = 0 THEN 0 ELSE 1)
  BY DEF CategoryCost
<1> HIDE DEF x
<1>4. x \div RateUnit \in Nat /\ x % RateUnit \in Nat
  BY <1>1, <1>2, QuotientType
<1> QED BY <1>3, <1>4

\* Reservations, and what trusted usage costs, are natural numbers.
LEMMA CostTypes ==
  ASSUME NEW r \in Routes
  PROVE  /\ Reservation(r) \in Nat
         /\ \A u \in Usages : SettledCost(r, UsageOf[u]) \in Nat
<1>1. HigherInputRate(r) \in Nat /\ Rates[r].output \in Nat
      /\ Rates[r].input \in Nat /\ Rates[r].cached \in Nat
  BY PriceAssumption DEF HigherInputRate
<1>2. Caps[r].input \in Nat /\ Caps[r].output \in Nat
  BY PriceAssumption
<1>3. Reservation(r) \in Nat
  <2>1. /\ CategoryCost(Caps[r].input, HigherInputRate(r)) \in Nat
        /\ CategoryCost(Caps[r].output, Rates[r].output) \in Nat
    BY <1>1, <1>2, CategoryCostType
  <2> QED BY <2>1 DEF Reservation
<1>4. ASSUME NEW u \in Usages PROVE SettledCost(r, UsageOf[u]) \in Nat
  <2> DEFINE v == UsageOf[u]
  <2>1. v.uncached \in Nat /\ v.cached \in Nat /\ v.output \in Nat
    BY PriceAssumption
  <2> HIDE DEF v
  <2>2. v.uncached + v.cached \in Nat
    BY <2>1
  <2>3. /\ CategoryCost(v.output, Rates[r].output) \in Nat
        /\ CategoryCost(v.uncached, Rates[r].input) \in Nat
        /\ CategoryCost(v.cached, Rates[r].cached) \in Nat
        /\ CategoryCost(v.uncached + v.cached, HigherInputRate(r)) \in Nat
    BY <1>1, <2>1, <2>2, CategoryCostType
  <2>4. SettledCost(r, v) \in Nat
    BY <2>3 DEF SettledCost
  <2> QED BY <2>4 DEF v
<1> QED BY <1>3, <1>4

-----------------------------------------------------------------------------
(* The inductive step, action by action.                                    *)

\* The identity of a call is one of the ledger's.
LEMMA IdType == ASSUME TypeOK, NEW c \in Calls PROVE Id(c) \in Identities /\ Id(c)[2] = call[c].route
BY ShapeAssumption DEF TypeOK, Id, Identities

\* What every ledger operation keeps: no entry disappears, and what may have left
\* stays counted.
LedgerStep ==
  /\ entry' \in [Identities -> [state : EntryStates, day : Days, settled : Nat]]
  /\ \A i \in Identities : entry[i].state # "none" => entry'[i].state # "none"
  /\ \A i \in Identities : entry[i].state \in Dispatched => entry'[i].state \in Dispatched

\* The ledger's operations are such steps.
LEMMA LedgerSteps ==
  ASSUME TypeOK
  PROVE  /\ UNCHANGED entry => LedgerStep
         /\ entry' = Reconciled(entry) => LedgerStep
         /\ \A i \in Identities :
              /\ InsertEntry(i) /\ entry[i].state = "none" => LedgerStep
              /\ MarkEntry(i) => LedgerStep
              /\ ReleaseEntry(i) => LedgerStep
              /\ \A s \in {"settled", "usage_uncertain"}, amount \in Nat :
                   SettleEntry(i, s, amount) => LedgerStep
<1> USE DEF TypeOK, LedgerStep, EntryStates, Open, Terminal, Dispatched
<1>1. UNCHANGED entry => LedgerStep
  OBVIOUS
<1>2. ASSUME entry' = Reconciled(entry) PROVE LedgerStep
  <2>1. \A i \in Identities : Reservation(i[2]) \in Nat
    BY CostTypes DEF Identities
  <2> QED BY <1>2, <2>1 DEF Reconciled
<1>3. ASSUME NEW i \in Identities
      PROVE  /\ InsertEntry(i) /\ entry[i].state = "none" => LedgerStep
             /\ MarkEntry(i) => LedgerStep
             /\ ReleaseEntry(i) => LedgerStep
  <2>1. ASSUME InsertEntry(i), entry[i].state = "none" PROVE LedgerStep
    BY <2>1 DEF InsertEntry
  <2>2. ASSUME MarkEntry(i) PROVE LedgerStep
    BY <2>2 DEF MarkEntry
  <2>3. ASSUME ReleaseEntry(i) PROVE LedgerStep
    BY <2>3 DEF ReleaseEntry
  <2> QED BY <2>1, <2>2, <2>3
<1>4. ASSUME NEW i \in Identities, NEW s \in {"settled", "usage_uncertain"},
             NEW amount \in Nat, SettleEntry(i, s, amount)
      PROVE  LedgerStep
  BY <1>4 DEF SettleEntry
<1> QED BY <1>1, <1>2, <1>3, <1>4

\* A call that only goes on, to a step at which it owns nothing new.
LEMMA GoesOn ==
  ASSUME IInv, NEW c \in Calls, NEW s \in Steps, Goto(c, s),
         s \in Owning => call[c].pc \in Owning,
         s \in {"check", "mark", "release"} => call[c].pc \in {"check", "mark", "release"},
         s \notin {"send", "settle"},
         s # "spend" => call[c].pc \notin {"send", "settle", "spend"},
         UNCHANGED <<day, spent, sends>>, closed' \in SUBSET Routes,
         LedgerStep
  PROVE  IInv'
<1> USE DEF IInv, LedgerStep
<1>1. \A d \in Calls : Id(d) \in Identities
  BY IdType
<1>2. /\ call'[c] = [call[c] EXCEPT !.pc = s]
      /\ \A d \in Calls \ {c} : call'[d] = call[d]
      /\ \A d \in Calls : Id(d)' = Id(d)
      /\ call'[c].pc = s
  BY DEF TypeOK, Goto, Id
<1>3. TypeOK'
  BY <1>2, ZenonT(60) DEF TypeOK, Goto
<1>4. SentIsCounted'
  BY DEF SentIsCounted
<1>5. SoleOwner'
  <2>1. \A d \in Calls : /\ call'[d].pc \in Owning => call[d].pc \in Owning
                         /\ call'[d].route = call[d].route
    BY <1>2 DEF TypeOK
  <2> QED BY <2>1 DEF SoleOwner, Id
<1>6. OwnerKnows'
  BY <1>1, <1>2, ZenonT(60) DEF OwnerKnows, Owning
<1>7. FreshTries'
  <2>1. \A d \in Calls : call'[d].tries = call[d].tries
    BY <1>2 DEF TypeOK
  <2> QED BY <1>2, <2>1 DEF FreshTries
<1> QED BY <1>3, <1>4, <1>5, <1>6, <1>7

\* The steps of a completion that touch neither its retries nor what was sent.
LEMMA SimpleSteps ==
  ASSUME IInv, NEW c \in Calls, NEW committed \in BOOLEAN,
         \/ CacheHit(c) \/ CacheMiss(c) \/ RouteClosed(c)
         \/ CheckEnvelope(c) \/ EnvelopeRefuses(c)
         \/ ReserveRefused(c, committed) \/ MarkFails(c, committed)
         \/ Release(c, committed) \/ Settle(c, committed)
  PROVE  IInv'
<1> USE DEF Steps, Owning
<1>0. TypeOK /\ closed \in SUBSET Routes
  BY DEF IInv, TypeOK
<1>1. Id(c) \in Identities /\ Id(c)[2] = call[c].route
  BY <1>0, IdType
<1>2. CASE CacheHit(c) \/ CacheMiss(c) \/ RouteClosed(c) \/ CheckEnvelope(c) \/ EnvelopeRefuses(c)
  <2>1. LedgerStep
    BY <1>0, <1>2, LedgerSteps DEF CacheHit, CacheMiss, RouteClosed, CheckEnvelope, EnvelopeRefuses
  <2> QED BY <1>0, <1>2, <2>1, GoesOn
          DEF CacheHit, CacheMiss, RouteClosed, CheckEnvelope, EnvelopeRefuses
<1>3. CASE ReserveRefused(c, committed)
  <2>1. LedgerStep
    BY <1>0, <1>1, <1>3, LedgerSteps DEF ReserveRefused, Admits
  <2> QED BY <1>0, <1>3, <2>1, GoesOn DEF ReserveRefused
<1>4. CASE MarkFails(c, committed)
  <2>1. LedgerStep
    BY <1>0, <1>1, <1>4, LedgerSteps DEF MarkFails
  <2> QED BY <1>0, <1>4, <2>1, GoesOn DEF MarkFails
<1>5. CASE Release(c, committed)
  <2>1. LedgerStep
    BY <1>0, <1>1, <1>5, LedgerSteps DEF Release
  <2> QED BY <1>0, <1>5, <2>1, GoesOn DEF Release
<1>6. CASE Settle(c, committed)
  <2>1. call[c].route \in Routes
    BY <1>0 DEF TypeOK
  <2>2. Charge(c) \in Nat
    BY <2>1, CostTypes DEF Charge, Trusted
  <2>3. LedgerStep
    BY <1>0, <1>1, <1>6, <2>2, LedgerSteps DEF Settle
  <2>4. closed' \in SUBSET Routes
    BY <1>0, <1>6, <2>1 DEF Settle
  <2> QED BY <1>6, <2>3, <2>4, GoesOn DEF Settle
<1> QED BY <1>2, <1>3, <1>4, <1>5, <1>6

\* An admission makes the call the one owner of its identity.
LEMMA ReserveStep ==
  ASSUME IInv, NEW c \in Calls, Reserve(c) PROVE IInv'
<1> USE DEF IInv
<1>1. \A d \in Calls : Id(d) \in Identities
  BY IdType
<1>2. entry[Id(c)].state = "none" /\ InsertEntry(Id(c))
  BY DEF Reserve, Admits
<1>3. LedgerStep
  BY <1>1, <1>2, LedgerSteps
<1>4. /\ \A d \in Calls : call'[d].route = call[d].route /\ Id(d)' = Id(d)
      /\ \A d \in Calls \ {c} : call'[d] = call[d]
      /\ call'[c].pc = "check"
      /\ sends' = sends
  BY DEF TypeOK, Reserve, Goto, Id
<1>5. TypeOK'
  BY <1>3 DEF TypeOK, Reserve, Goto, Steps, LedgerStep
<1>6. SentIsCounted'
  BY <1>3, <1>4 DEF SentIsCounted, LedgerStep
<1>7. SoleOwner'
  <2>1. \A d \in Calls \ {c} : call[d].pc \in Owning => Id(d) # Id(c)
    BY <1>2 DEF OwnerKnows
  <2> QED BY <1>4, <2>1 DEF SoleOwner, Id
<1>8. OwnerKnows'
  <2>1. sends[Id(c)] = 0
    BY <1>1, <1>2 DEF SentIsCounted, Dispatched, TypeOK
  <2>2. entry'[Id(c)].state = "reserved"
    BY <1>1, <1>2 DEF InsertEntry, TypeOK
  <2> QED BY <1>1, <1>3, <1>4, <2>1, <2>2 DEF OwnerKnows, Owning, LedgerStep
<1>9. FreshTries'
  <2>1. \A d \in Calls : call'[d].tries = call[d].tries
    BY <1>4 DEF TypeOK, Reserve, Goto
  <2> QED BY <1>4, <2>1 DEF FreshTries, Reserve
<1> QED BY <1>5, <1>6, <1>7, <1>8, <1>9

\* The marker is there before the call may send, and nothing was sent before it.
LEMMA MarkStep ==
  ASSUME IInv, NEW c \in Calls, MarkPossiblyDispatched(c) PROVE IInv'
<1> USE DEF IInv
<1>1. \A d \in Calls : Id(d) \in Identities
  BY IdType
<1>2. LedgerStep
  BY <1>1, LedgerSteps DEF MarkPossiblyDispatched
<1>3. entry'[Id(c)].state = "possibly_dispatched"
  BY <1>1 DEF MarkPossiblyDispatched, MarkEntry, Open, TypeOK
<1>4. /\ \A d \in Calls : call'[d].route = call[d].route /\ Id(d)' = Id(d)
      /\ \A d \in Calls \ {c} : call'[d] = call[d]
      /\ call[c].pc = "mark" /\ call'[c].pc = "send" /\ call'[c].tries = call[c].tries
      /\ sends' = sends
  BY DEF TypeOK, MarkPossiblyDispatched, Goto, Id
<1>5. TypeOK'
  BY <1>2 DEF TypeOK, MarkPossiblyDispatched, Goto, Steps, LedgerStep
<1>6. SentIsCounted'
  BY <1>2, <1>4 DEF SentIsCounted, LedgerStep
<1>7. SoleOwner'
  BY <1>4 DEF SoleOwner, Id, Owning
<1>8. OwnerKnows'
  <2>1. sends[Id(c)] = 0
    BY <1>4 DEF OwnerKnows
  <2>2. call[c].tries = 0
    BY <1>4 DEF FreshTries
  <2> QED BY <1>1, <1>2, <1>3, <1>4, <2>1, <2>2 DEF OwnerKnows, Owning, LedgerStep, Dispatched
<1>9. FreshTries'
  BY <1>4 DEF FreshTries
<1> QED BY <1>5, <1>6, <1>7, <1>8, <1>9

\* One request more for the identity that only this call owns.
LEMMA SendStep ==
  ASSUME IInv, NEW c \in Calls, NEW answer \in Usages \cup Faults, Send(c, answer) PROVE IInv'
<1> USE DEF IInv
<1>1. \A d \in Calls : Id(d) \in Identities
  BY IdType
<1>2. /\ call[c].pc = "send" /\ call[c].tries \in 0..CallMaxRetries
      /\ sends[Id(c)] = call[c].tries /\ entry[Id(c)].state \in Dispatched
  BY DEF Send, OwnerKnows, TypeOK
<1>3. /\ \A d \in Calls \ {c} : call'[d] = call[d]
      /\ \A d \in Calls : call'[d].route = call[d].route /\ Id(d)' = Id(d)
      /\ \/ call'[c].pc = "send" /\ call'[c].tries = call[c].tries + 1
            /\ call[c].tries < CallMaxRetries
         \/ call'[c].pc = "settle"
      /\ call' \in [Calls -> CallType]
  <2>1. CASE /\ call' = [call EXCEPT ![c].tries = @ + 1]
             /\ call[c].tries < CallMaxRetries
    <3>1. call[c].tries + 1 \in 0..CallMaxRetries
      BY <1>2, <2>1, LimitsAssumption
    <3>2. call'[c] = [call[c] EXCEPT !.tries = call[c].tries + 1]
      BY <2>1 DEF TypeOK
    <3>3. /\ call'[c].route = call[c].route /\ call'[c].pc = "send"
          /\ call'[c].tries = call[c].tries + 1
          /\ call'[c] \in CallType
      BY <1>2, <3>1, <3>2 DEF TypeOK, CallType
    <3>4. \A d \in Calls \ {c} : call'[d] = call[d]
      BY <2>1 DEF TypeOK
    <3>5. call' \in [Calls -> CallType]
      BY <2>1, <3>1 DEF TypeOK, CallType
    <3> QED BY <2>1, <3>3, <3>4, <3>5 DEF Id
  <2>2. CASE call' = [call EXCEPT ![c] = [call[c] EXCEPT !.pc = "settle", !.answer = answer]]
    BY <2>2 DEF TypeOK, CallType, Id, Steps
  <2> QED BY <2>1, <2>2 DEF Send
<1>4. /\ sends'[Id(c)] = call[c].tries + 1
      /\ \A i \in Identities \ {Id(c)} : sends'[i] = sends[i]
      /\ sends' \in [Identities -> 0..(CallMaxRetries + 1)]
  BY <1>1, <1>2, LimitsAssumption DEF TypeOK, Send
<1>5. UNCHANGED <<day, entry, spent, closed>>
  BY DEF Send
<1>6. TypeOK'
  BY <1>3, <1>4, <1>5 DEF TypeOK, CallType
<1>7. SentIsCounted'
  BY <1>2, <1>4, <1>5 DEF SentIsCounted
<1>8. SoleOwner'
  BY <1>2, <1>3 DEF SoleOwner, Id, Owning
<1>9. OwnerKnows'
  <2>1. \A d \in Calls \ {c} : call[d].pc \in Owning => Id(d) # Id(c)
    BY <1>2 DEF SoleOwner, Owning
  <2>2. ASSUME NEW d \in Calls \ {c}
        PROVE  /\ call'[d].pc \in Owning => entry'[Id(d)].state # "none"
               /\ call'[d].pc \in {"check", "mark", "release"} => sends'[Id(d)] = 0
               /\ call'[d].pc = "send" => sends'[Id(d)] = call'[d].tries
               /\ call'[d].pc \in {"send", "settle"} => entry'[Id(d)].state \in Dispatched
    BY <1>1, <1>3, <1>4, <1>5, <2>1 DEF OwnerKnows, Owning
  <2>3. /\ entry'[Id(c)].state # "none" /\ entry'[Id(c)].state \in Dispatched
        /\ call'[c].pc \in {"send", "settle"}
        /\ call'[c].pc = "send" => sends'[Id(c)] = call'[c].tries
    BY <1>2, <1>3, <1>4, <1>5 DEF Dispatched
  <2> QED BY <1>3, <2>2, <2>3 DEF OwnerKnows
<1>10. FreshTries'
  BY <1>3 DEF FreshTries
<1> QED BY <1>6, <1>7, <1>8, <1>9, <1>10

\* After the settlement the call owns nothing; it stops or turns to the fallback.
LEMMA SpendStep ==
  ASSUME IInv, NEW c \in Calls, NEW fallback \in BOOLEAN,
         AddWorkflowSpend(c, fallback) \/ SkipWorkflowSpend(c, fallback)
  PROVE  IInv'
<1> USE DEF IInv
<1>1. /\ call[c].pc = "spend" /\ AfterSpend(c, fallback)
      /\ UNCHANGED <<day, entry, closed, sends>>
  BY DEF AddWorkflowSpend, SkipWorkflowSpend
<1>2. /\ \A d \in Calls \ {c} : call'[d] = call[d] /\ Id(d)' = Id(d)
      /\ call'[c].pc \in {"reserve", "done"} /\ call'[c].tries = 0
      /\ call' \in [Calls -> CallType]
  <2>1. 0 \in 0..CallMaxRetries
    BY LimitsAssumption
  <2>2. CASE fallback
    <3>1. /\ "fallback" \in Routes
          /\ call' = [call EXCEPT ![c] = [pc |-> "reserve", route |-> "fallback", tries |-> 0,
                                          answer |-> NoAnswer]]
      BY <1>1, <2>2 DEF AfterSpend
    <3> QED BY <2>1, <3>1 DEF TypeOK, CallType, Id, Steps
  <2>3. CASE ~fallback
    <3>1. call' = [call EXCEPT ![c] = [call[c] EXCEPT !.pc = "done", !.tries = 0, !.answer = NoAnswer]]
      BY <1>1, <2>3 DEF AfterSpend
    <3> QED BY <2>1, <3>1 DEF TypeOK, CallType, Id, Steps
  <2> QED BY <2>2, <2>3
<1>3. spent' \in [Workflows -> Nat]
  <2>1. call[c].route \in Routes
    BY DEF TypeOK
  <2>2. Charge(c) \in Nat
    BY <2>1, CostTypes DEF Charge, Trusted
  <2> QED BY <2>2 DEF TypeOK, AddWorkflowSpend, SkipWorkflowSpend
<1>4. TypeOK'
  BY <1>1, <1>2, <1>3 DEF TypeOK, CallType
<1>5. SentIsCounted'
  BY <1>1 DEF SentIsCounted
<1>6. SoleOwner'
  BY <1>2 DEF SoleOwner, Id, Owning
<1>7. OwnerKnows'
  BY <1>1, <1>2 DEF OwnerKnows, Owning
<1>8. FreshTries'
  BY <1>2 DEF FreshTries
<1> QED BY <1>4, <1>5, <1>6, <1>7, <1>8

\* Another process reconciles: owners keep entries that are not absent, and what may
\* have left is charged.
LEMMA RecoverStep == ASSUME IInv, Recover PROVE IInv'
<1> USE DEF IInv
<1>1. \A d \in Calls : Id(d) \in Identities
  BY IdType
<1>2. LedgerStep
  BY LedgerSteps DEF Recover
<1>3. UNCHANGED <<day, spent, closed, call, sends>> /\ \A d \in Calls : Id(d)' = Id(d)
  BY DEF Recover, Id
<1>4. TypeOK' /\ SentIsCounted' /\ FreshTries'
  BY <1>2, <1>3 DEF TypeOK, SentIsCounted, FreshTries, LedgerStep
<1>5. SoleOwner'
  BY <1>3 DEF SoleOwner, Id
<1>6. OwnerKnows'
  BY <1>1, <1>2, <1>3 DEF OwnerKnows, LedgerStep
<1> QED BY <1>4, <1>5, <1>6

\* A restart ends every call that owned anything.
LEMMA RestartStep == ASSUME IInv, Restart PROVE IInv'
<1> USE DEF IInv
<1>1. LedgerStep
  BY LedgerSteps DEF Restart
<1>2. /\ \A d \in Calls : call'[d].pc \in {"new", "done"} /\ call'[d].tries = 0
      /\ call' \in [Calls -> CallType]
  <2>1. 0 \in 0..CallMaxRetries
    BY LimitsAssumption
  <2>2. call' = [d \in Calls |-> IF call[d].pc = "new" THEN call[d]
                   ELSE [call[d] EXCEPT !.pc = "done", !.tries = 0, !.answer = NoAnswer]]
    BY DEF Restart
  <2>3. ASSUME NEW d \in Calls
        PROVE  /\ call'[d].pc \in {"new", "done"} /\ call'[d].tries = 0
               /\ call'[d] \in CallType
    <3>1. call[d] \in CallType
      BY DEF TypeOK, CallType
    <3>2. CASE call[d].pc = "new"
      BY <2>2, <3>1, <3>2 DEF FreshTries
    <3>3. CASE call[d].pc # "new"
      BY <2>1, <2>2, <3>1, <3>3 DEF CallType, Steps
    <3> QED BY <3>2, <3>3
  <2> QED BY <2>2, <2>3
<1>3. UNCHANGED <<day, spent, sends>> /\ closed' = {}
  BY DEF Restart
<1>4. TypeOK' /\ SentIsCounted'
  BY <1>1, <1>2, <1>3 DEF TypeOK, CallType, SentIsCounted, LedgerStep
<1>5. SoleOwner' /\ OwnerKnows' /\ FreshTries'
  BY <1>2 DEF SoleOwner, OwnerKnows, FreshTries, Owning
<1> QED BY <1>4, <1>5

-----------------------------------------------------------------------------
(* Theorems.                                                                *)

\* The inductive invariant holds of every execution.
THEOREM BudgetInvariant == Spec => []IInv
<1>1. Init => IInv
  <2> SUFFICES ASSUME Init PROVE IInv
    OBVIOUS
  <2>1. 0 \in Days /\ 0 \in 0..CallMaxRetries /\ 0 \in 0..(CallMaxRetries + 1)
    BY LimitsAssumption DEF Days
  <2>2. TypeOK
    BY <2>1, ShapeAssumption DEF Init, TypeOK, Steps, EntryStates
  <2>3. SentIsCounted /\ SoleOwner /\ OwnerKnows /\ FreshTries
    BY DEF Init, SentIsCounted, SoleOwner, OwnerKnows, FreshTries, Owning
  <2> QED BY <2>2, <2>3 DEF IInv
<1>2. IInv /\ [Next]_vars => IInv'
  <2> SUFFICES ASSUME IInv, [Next]_vars PROVE IInv'
    OBVIOUS
  <2>1. CASE NewDay
    <3>1. day' \in Days
      BY <2>1, LimitsAssumption DEF NewDay, IInv, TypeOK, Days
    <3> QED BY <2>1, <3>1 DEF NewDay, IInv, TypeOK, SentIsCounted, SoleOwner, OwnerKnows,
                              FreshTries, Id
  <2>2. CASE Recover
    BY <2>2, RecoverStep
  <2>3. CASE Restart
    BY <2>3, RestartStep
  <2>4. ASSUME NEW c \in Calls, Complete(c) PROVE IInv'
    BY <2>4, SimpleSteps, ReserveStep, MarkStep, SendStep, SpendStep DEF Complete
  <2>5. CASE UNCHANGED vars
    BY <2>5 DEF vars, IInv, TypeOK, SentIsCounted, SoleOwner, OwnerKnows, FreshTries, Id
  <2> QED BY <2>1, <2>2, <2>3, <2>4, <2>5 DEF Next
<1> QED BY <1>1, <1>2, PTL DEF Spec

\* The ledger, the envelopes and the calls keep their types, and no identity is sent
\* for more often than one call may retry.
THEOREM TypeCorrect == Spec => []TypeOK
<1>1. IInv => TypeOK
  BY DEF IInv
<1> QED BY <1>1, BudgetInvariant, PTL

\* Whatever may have reached a provider keeps counting against the budgets, through
\* lost commits, restarts and reconciliation by other processes.
THEOREM SentStaysCounted == Spec => []SentIsCounted
<1>1. IInv => SentIsCounted
  BY DEF IInv
<1> QED BY <1>1, BudgetInvariant, PTL

\* No operation is ever sent again by a repeat of it.
THEOREM NeverRedispatched == Spec => []NoRedispatch
<1>1. IInv => NoRedispatch
  BY DEF IInv, OwnerKnows, NoRedispatch
<1> QED BY <1>1, BudgetInvariant, PTL

\* What was sent and what the ledger counts agree through every lost commit, restart
\* and reconciliation.
THEOREM DispatchesAccounted == Spec => []DispatchIsAccounted
<1>1. SentIsCounted /\ NoRedispatch => DispatchIsAccounted
  BY DEF DispatchIsAccounted
<1> QED BY <1>1, SentStaysCounted, NeverRedispatched, PTL

-----------------------------------------------------------------------------
(* A reservation covers every usage within the caps.                        *)

\* x over the rate unit, rounded up.
Ceiling(x) == x \div RateUnit + (IF x % RateUnit = 0 THEN 0 ELSE 1)

\* A factor is cancelled.
LEMMA Cancel ==
  ASSUME NEW u \in Nat, u > 0, NEW x \in Int, NEW y \in Int, u * x < u * y PROVE x < y
<1> SUFFICES ASSUME x >= y PROVE FALSE
  BY SMT
<1> QED BY SMT

\* What rounding up means.
LEMMA CeilingBounds ==
  ASSUME NEW x \in Nat
  PROVE  Ceiling(x) \in Nat /\ RateUnit * Ceiling(x) >= x /\ RateUnit * Ceiling(x) < x + RateUnit
<1> DEFINE q == x \div RateUnit
           m == x % RateUnit
<1>1. RateUnit \in Nat /\ RateUnit > 0
  BY PriceAssumption
<1>2. q \in Nat /\ m \in Nat
  BY <1>1, QuotientType
<1>3. x = RateUnit * q + m /\ m < RateUnit
  BY <1>1, SMT
<1>4. Ceiling(x) = q + (IF m = 0 THEN 0 ELSE 1)
  BY DEF Ceiling
<1> HIDE DEF q, m
<1>5. CASE m = 0
  BY <1>1, <1>2, <1>3, <1>4, <1>5, SMT
<1>6. CASE m # 0
  <2>1. Ceiling(x) = q + 1 /\ RateUnit * (q + 1) = RateUnit * q + RateUnit
    BY <1>1, <1>2, <1>4, <1>6, SMT
  <2>2. RateUnit * q \in Nat
    BY <1>1, <1>2, SMT
  <2>3. m > 0
    BY <1>2, <1>6
  <2> QED BY <1>1, <1>2, <1>3, <2>1, <2>2, <2>3, SMT
<1> QED BY <1>5, <1>6

\* Rounding up is monotone, and loses at most one by being done in two parts.
LEMMA CeilingSplit ==
  ASSUME NEW a \in Nat, NEW b \in Nat, NEW x \in Nat, a + b <= x
  PROVE  Ceiling(a) + Ceiling(b) <= Ceiling(x) + 1
<1> DEFINE A == Ceiling(a)
           B == Ceiling(b)
           X == Ceiling(x)
<1>1. RateUnit \in Nat /\ RateUnit > 0
  BY PriceAssumption
<1>2. /\ A \in Nat /\ RateUnit * A < a + RateUnit
      /\ B \in Nat /\ RateUnit * B < b + RateUnit
      /\ X \in Nat /\ RateUnit * X >= x
  BY CeilingBounds
<1> HIDE DEF A, B, X
<1>3. /\ RateUnit * (A + B) = RateUnit * A + RateUnit * B
      /\ RateUnit * (X + 2) = RateUnit * X + RateUnit + RateUnit
  BY <1>1, <1>2, SMT
<1>4. RateUnit * A \in Nat /\ RateUnit * B \in Nat /\ RateUnit * X \in Nat
  BY <1>1, <1>2, SMT
<1>5. RateUnit * (A + B) < RateUnit * (X + 2)
  BY <1>1, <1>2, <1>3, <1>4
<1>6. A + B < X + 2
  <2>1. A + B \in Int /\ X + 2 \in Int
    BY <1>2
  <2> QED BY <1>1, <1>5, <2>1, Cancel
<1>7. A + B <= X + 1
  BY <1>2, <1>6
<1> QED BY <1>7 DEF A, B, X

\* Rounding up is monotone.
LEMMA CeilingMonotone ==
  ASSUME NEW a \in Nat, NEW x \in Nat, a <= x PROVE Ceiling(a) <= Ceiling(x)
<1>1. RateUnit \in Nat /\ RateUnit > 0
  BY PriceAssumption
<1> DEFINE A == Ceiling(a)
           X == Ceiling(x)
<1>2. /\ A \in Nat /\ RateUnit * A < a + RateUnit
      /\ X \in Nat /\ RateUnit * X >= x
  BY CeilingBounds
<1> HIDE DEF A, X
<1>3. RateUnit * (X + 1) = RateUnit * X + RateUnit /\ RateUnit * A \in Nat /\ RateUnit * X \in Nat
  BY <1>1, <1>2, SMT
<1>4. RateUnit * A < RateUnit * (X + 1)
  BY <1>1, <1>2, <1>3
<1>5. A < X + 1
  <2>1. A \in Int /\ X + 1 \in Int
    BY <1>2
  <2> QED BY <1>1, <1>4, <2>1, Cancel
<1>6. A <= X
  BY <1>2, <1>5
<1> QED BY <1>6 DEF A, X

\* Products grow with their factors.
LEMMA ProductMonotone ==
  ASSUME NEW a \in Nat, NEW b \in Nat, NEW p \in Nat, NEW q \in Nat, a <= b, p <= q
  PROVE  a * p <= b * q /\ a * p \in Nat /\ b * q \in Nat
BY SMT

\* Usage within the caps of a route costs at most its reservation.
LEMMA CostWithinReservation ==
  ASSUME NEW r \in Routes, NEW n \in Usages, ValidateUsage(r, UsageOf[n])
  PROVE  SettledCost(r, UsageOf[n]) <= Reservation(r)
<1> DEFINE u == UsageOf[n]
           I == Caps[r].input
           O == Caps[r].output
           h == HigherInputRate(r)
           in == Rates[r].input
           cd == Rates[r].cached
           out == Rates[r].output
<1>1. u.uncached \in Nat /\ u.cached \in Nat /\ u.output \in Nat
  BY PriceAssumption
<1>2. I \in Nat /\ O \in Nat /\ in \in Nat /\ cd \in Nat /\ out \in Nat
  BY PriceAssumption
<1>3. h \in Nat /\ in <= h /\ cd <= h
  BY <1>2 DEF HigherInputRate
<1>4. u.uncached + u.cached <= I /\ u.output <= O
  BY DEF ValidateUsage
<1>5. \A t, p \in Nat : CategoryCost(t, p) = Ceiling(t * p)
  BY DEF CategoryCost, Ceiling
<1>6. SettledCost(r, u) = CategoryCost(u.output, out) +
        (IF u.reported THEN CategoryCost(u.uncached, in) + CategoryCost(u.cached, cd)
         ELSE CategoryCost(u.uncached + u.cached, h))
  BY DEF SettledCost
<1>7. Reservation(r) = CategoryCost(I, h) + CategoryCost(O, out) + 1
  BY DEF Reservation
<1> HIDE DEF u, I, O, h, in, cd, out
<1>8. u.uncached + u.cached \in Nat
  BY <1>1
<1>9. CategoryCost(u.output, out) <= CategoryCost(O, out)
  <2>1. u.output * out <= O * out /\ u.output * out \in Nat /\ O * out \in Nat
    BY <1>1, <1>2, <1>4, ProductMonotone
  <2> QED BY <1>1, <1>2, <1>5, <2>1, CeilingMonotone
<1>10. CategoryCost(u.uncached + u.cached, h) <= CategoryCost(I, h)
  <2>1. /\ (u.uncached + u.cached) * h <= I * h
        /\ (u.uncached + u.cached) * h \in Nat /\ I * h \in Nat
    BY <1>2, <1>3, <1>4, <1>8, ProductMonotone
  <2> QED BY <1>2, <1>3, <1>5, <1>8, <2>1, CeilingMonotone
<1>11. CategoryCost(u.uncached, in) + CategoryCost(u.cached, cd) <= CategoryCost(I, h) + 1
  <2>1. u.uncached * in <= u.uncached * h /\ u.uncached * in \in Nat /\ u.uncached * h \in Nat
    BY <1>1, <1>2, <1>3, ProductMonotone
  <2>2. u.cached * cd <= u.cached * h /\ u.cached * cd \in Nat /\ u.cached * h \in Nat
    BY <1>1, <1>2, <1>3, ProductMonotone
  <2>3. (u.uncached + u.cached) * h <= I * h /\ I * h \in Nat
    BY <1>2, <1>3, <1>4, <1>8, ProductMonotone
  <2>4. (u.uncached + u.cached) * h = u.uncached * h + u.cached * h
    BY <1>1, <1>3, SMT
  <2>5. u.uncached * in + u.cached * cd <= I * h
    BY <2>1, <2>2, <2>3, <2>4
  <2>6. Ceiling(u.uncached * in) + Ceiling(u.cached * cd) <= Ceiling(I * h) + 1
    BY <2>1, <2>2, <2>3, <2>5, CeilingSplit
  <2>7. /\ CategoryCost(u.uncached, in) = Ceiling(u.uncached * in)
        /\ CategoryCost(u.cached, cd) = Ceiling(u.cached * cd)
        /\ CategoryCost(I, h) = Ceiling(I * h)
    BY <1>1, <1>2, <1>3, <1>5
  <2> QED BY <2>6, <2>7
<1>12. /\ CategoryCost(u.output, out) \in Nat /\ CategoryCost(O, out) \in Nat
       /\ CategoryCost(I, h) \in Nat
       /\ CategoryCost(u.uncached, in) \in Nat /\ CategoryCost(u.cached, cd) \in Nat
       /\ CategoryCost(u.uncached + u.cached, h) \in Nat
  BY <1>1, <1>2, <1>3, <1>8, CategoryCostType
<1>13. SettledCost(r, u) <= Reservation(r)
  BY <1>6, <1>7, <1>9, <1>10, <1>11, <1>12
<1> QED BY <1>13 DEF u

\* For any rates, rate unit and token caps, SettleTrusted never has to refuse a trusted
\* answer: the one nano of headroom is all the rounding of split input can take.
THEOREM TrustedAlwaysFits == Spec => []TrustedCostFits
<1>1. TypeOK => TrustedCostFits
  <2> SUFFICES ASSUME TypeOK, NEW c \in Calls, Trusted(c)
               PROVE  Charge(c) <= Reservation(call[c].route)
    BY DEF TrustedCostFits
  <2>1. call[c].route \in Routes
    BY DEF TypeOK
  <2> QED BY <2>1, CostWithinReservation DEF Trusted, Charge
<1> QED BY <1>1, TypeCorrect, PTL

-----------------------------------------------------------------------------
(* The sums.  Every step but an admission leaves each entry on its day and  *)
(* lets it count for no more; an admission adds one reservation to a day     *)
(* that was found to have room for it.                                      *)

\* No entry moves to another day or counts for more than before.
Shrinks ==
  \A i \in Identities : entry'[i].day = entry[i].day /\ Counted'[i] <= Counted[i]

\* A step that admits a reservation.
Admission(i) == Admits(i) /\ InsertEntry(i)

\* There are finitely many identities, and each counts for a natural number.
LEMMA CountedType ==
  ASSUME TypeOK
  PROVE  \A i \in Identities : Counted[i] \in Nat /\ Reservation(i[2]) \in Nat
<1>1. \A i \in Identities : Reservation(i[2]) \in Nat
  BY CostTypes DEF Identities
<1> QED BY <1>1 DEF Counted, TypeOK

\* The same after a step.
LEMMA CountedTypeAfter == ASSUME TypeOK' PROVE \A i \in Identities : Counted'[i] \in Nat
<1>1. \A i \in Identities : Reservation(i[2]) \in Nat
  BY CostTypes DEF Identities
<1> QED BY <1>1 DEF Counted, TypeOK

\* Operations and routes are finitely many, hence identities.
LEMMA IdentitiesFinite ==
  /\ IsFiniteSet(Identities)
  /\ \A w : IsFiniteSet(OfWorkspace(w)) /\ OfWorkspace(w) \in SUBSET Identities
  /\ \A f : IsFiniteSet(OfWorkflow(f)) /\ OfWorkflow(f) \in SUBSET Identities
<1>1. IsFiniteSet({"primary", "fallback"})
  <2>1. {"primary", "fallback"} = {"primary"} \cup {"fallback"}
    OBVIOUS
  <2>2. IsFiniteSet({"primary"})
    BY FS_Singleton
  <2>3. IsFiniteSet({"primary"} \cup {"fallback"})
    BY <2>2, FS_AddElement
  <2> QED BY <2>1, <2>3
<1>2. IsFiniteSet(Routes)
  BY <1>1, FS_Subset, ShapeAssumption
<1>3. IsFiniteSet(Identities)
  BY <1>2, FS_Product, ShapeAssumption DEF Identities
<1>4. ASSUME NEW w PROVE OfWorkspace(w) \in SUBSET Identities /\ IsFiniteSet(OfWorkspace(w))
  <2>1. OfWorkspace(w) \in SUBSET Identities
    BY DEF OfWorkspace
  <2> QED BY <1>3, <2>1, FS_Subset
<1>5. ASSUME NEW f PROVE OfWorkflow(f) \in SUBSET Identities /\ IsFiniteSet(OfWorkflow(f))
  <2>1. OfWorkflow(f) \in SUBSET Identities
    BY DEF OfWorkflow
  <2> QED BY <1>3, <2>1, FS_Subset
<1> QED BY <1>3, <1>4, <1>5

\* What a step of call c does to the entries.
EntryStepOf(c) ==
  \/ UNCHANGED entry
  \/ Admission(Id(c))
  \/ call[c].pc = "mark" /\ MarkEntry(Id(c))
  \/ call[c].pc = "release" /\ ReleaseEntry(Id(c))
  \/ /\ call[c].pc = "settle"
     /\ SettleEntry(Id(c), IF Trusted(c) THEN "settled" ELSE "usage_uncertain", Charge(c))

\* What the steps do to the entries.
EntrySteps ==
  UNCHANGED entry \/ entry' = Reconciled(entry) \/ \E c \in Calls : EntryStepOf(c)

\* A call touches no entry but its own, and only at the steps that do.
LEMMA CompleteEntryStep == ASSUME NEW c \in Calls, Complete(c) PROVE EntryStepOf(c)
<1>1. CASE \/ CacheHit(c) \/ CacheMiss(c) \/ RouteClosed(c) \/ CheckEnvelope(c)
           \/ EnvelopeRefuses(c) \/ \E answer \in Usages \cup Faults : Send(c, answer)
           \/ \E fallback \in BOOLEAN :
                AddWorkflowSpend(c, fallback) \/ SkipWorkflowSpend(c, fallback)
  BY <1>1 DEF CacheHit, CacheMiss, RouteClosed, CheckEnvelope, EnvelopeRefuses, Send,
              AddWorkflowSpend, SkipWorkflowSpend, EntryStepOf
<1>2. CASE Reserve(c) \/ MarkPossiblyDispatched(c)
  BY <1>2 DEF Reserve, MarkPossiblyDispatched, Admission, EntryStepOf
<1>3. ASSUME NEW committed \in BOOLEAN,
             ReserveRefused(c, committed) \/ MarkFails(c, committed) \/ Release(c, committed)
      PROVE  EntryStepOf(c)
  BY <1>3 DEF ReserveRefused, MarkFails, Release, Admission, EntryStepOf
<1>4. ASSUME NEW committed \in BOOLEAN, Settle(c, committed) PROVE EntryStepOf(c)
  BY <1>4 DEF Settle, EntryStepOf
<1> QED BY <1>1, <1>2, <1>3, <1>4 DEF Complete

\* No other step touches the entries.
LEMMA NextEntrySteps == ASSUME [Next]_vars PROVE EntrySteps
<1>1. CASE NewDay \/ UNCHANGED vars
  BY <1>1 DEF NewDay, vars, EntrySteps
<1>2. CASE Recover \/ Restart
  BY <1>2 DEF Recover, Restart, EntrySteps
<1>3. ASSUME NEW c \in Calls, Complete(c) PROVE EntrySteps
  BY <1>3, CompleteEntryStep DEF EntrySteps
<1> QED BY <1>1, <1>2, <1>3 DEF Next

\* Only an admission lets an entry count for more.
LEMMA AdmitOrShrink ==
  ASSUME TypeOK, TypeOK', EntrySteps
  PROVE  Shrinks \/ \E i \in Identities : Admission(i)
<1>1. \A i \in Identities : Counted[i] \in Nat /\ Reservation(i[2]) \in Nat
  BY CountedType
<1>2. CASE UNCHANGED entry
  BY <1>1, <1>2 DEF Shrinks, Counted
<1>3. CASE entry' = Reconciled(entry)
  <2>1. ASSUME NEW j \in Identities
        PROVE  /\ entry'[j].day = entry[j].day
               /\ \/ entry'[j] = entry[j] /\ entry[j].state \notin Open
                  \/ entry'[j].state = "released"
                  \/ /\ entry[j].state = "possibly_dispatched"
                     /\ entry'[j].state = "usage_uncertain"
                     /\ entry'[j].settled = Reservation(j[2])
    BY <1>3, ZenonT(60) DEF Reconciled, TypeOK, Open, EntryStates, Terminal
  <2> QED BY <1>1, <2>1 DEF Shrinks, Counted, Open
<1>4. ASSUME NEW i \in Identities, MarkEntry(i) \/ ReleaseEntry(i) PROVE Shrinks
  <2>1. ASSUME NEW j \in Identities
        PROVE  /\ entry'[j].day = entry[j].day
               /\ entry'[j].settled = entry[j].settled
               /\ \/ entry'[j].state = entry[j].state
                  \/ /\ entry[j].state = "reserved"
                     /\ entry'[j].state \in {"possibly_dispatched", "released"}
    BY <1>4 DEF MarkEntry, ReleaseEntry, TypeOK
  <2> QED BY <1>1, <2>1 DEF Shrinks, Counted, Open
<1>5. ASSUME NEW c \in Calls,
             SettleEntry(Id(c), IF Trusted(c) THEN "settled" ELSE "usage_uncertain", Charge(c))
      PROVE  Shrinks
  <2>1. ASSUME NEW j \in Identities
        PROVE  /\ entry'[j].day = entry[j].day
               /\ \/ entry'[j] = entry[j]
                  \/ /\ entry[j].state = "possibly_dispatched"
                     /\ entry'[j].state \in {"settled", "usage_uncertain"}
                     /\ entry'[j].settled <= Reservation(j[2])
    BY <1>5, IdType DEF SettleEntry, TypeOK
  <2> QED BY <1>1, <2>1 DEF Shrinks, Counted, Open
<1>6. ASSUME NEW c \in Calls, EntryStepOf(c)
      PROVE  Shrinks \/ \E i \in Identities : Admission(i)
  BY <1>2, <1>4, <1>5, <1>6, IdType DEF EntryStepOf
<1> QED BY <1>2, <1>3, <1>6 DEF EntrySteps

\* The caps outlive every step.
LEMMA CapsNext ==
  ASSUME TypeOK, TypeOK', DailyCapsKept, [Next]_vars
  PROVE  DailyCapsKept'
<1>1. \A d \in Days : /\ \A i \in Identities : CountedOn(d)[i] \in Nat
                      /\ \A i \in Identities : CountedOn(d)'[i] \in Nat
  BY CountedType, CountedTypeAfter DEF CountedOn
<1>2. CASE Shrinks
  <2>1. ASSUME NEW d \in Days, NEW i \in Identities PROVE CountedOn(d)'[i] <= CountedOn(d)[i]
    BY <1>2, CountedType DEF Shrinks, CountedOn
  <2>2. ASSUME NEW d \in Days, NEW S \in SUBSET Identities, IsFiniteSet(S)
        PROVE  SumFunctionOnSet(CountedOn(d)', S) <= SumFunctionOnSet(CountedOn(d), S)
    BY <1>1, <2>1, <2>2, SumMonotone
  <2>3. ASSUME NEW d \in Days, NEW S \in SUBSET Identities, IsFiniteSet(S)
        PROVE  /\ SumFunctionOnSet(CountedOn(d)', S) \in Nat
               /\ SumFunctionOnSet(CountedOn(d), S) \in Nat
    BY <1>1, <2>3, SumType
  <2> QED BY <2>2, <2>3, IdentitiesFinite, LimitsAssumption DEF DailyCapsKept, CountedForDay
<1>3. ASSUME NEW i \in Identities, Admission(i) PROVE DailyCapsKept'
  <2>1. /\ day \in Days /\ Counted[i] = 0 /\ Workspace(i) \in Workspaces
        /\ \A j \in Identities \ {i} : entry'[j] = entry[j]
        /\ entry'[i] = [state |-> "reserved", day |-> day, settled |-> 0]
    BY <1>3, ShapeAssumption
       DEF Admission, Admits, InsertEntry, TypeOK, Counted, Open, Identities, Workspace
  <2>2. ASSUME NEW d \in Days
        PROVE  /\ \A j \in Identities \ {i} : CountedOn(d)'[j] = CountedOn(d)[j]
               /\ CountedOn(d)[i] = 0
               /\ CountedOn(d)'[i] = IF d = day THEN Reservation(i[2]) ELSE 0
    BY <2>1 DEF CountedOn, Counted, Open
  <2>3. ASSUME NEW d \in Days, NEW S \in SUBSET Identities, IsFiniteSet(S)
        PROVE  /\ SumFunctionOnSet(CountedOn(d), S) \in Nat
               /\ i \in S => SumFunctionOnSet(CountedOn(d)', S) =
                               SumFunctionOnSet(CountedOn(d), S)
                                 + (IF d = day THEN Reservation(i[2]) ELSE 0)
               /\ i \notin S => SumFunctionOnSet(CountedOn(d)', S)
                                  = SumFunctionOnSet(CountedOn(d), S)
    <3>1. SumFunctionOnSet(CountedOn(d), S) \in Nat
      BY <1>1, <2>3, SumType
    <3>2. CASE i \in S
      <4>1. SumFunctionOnSet(CountedOn(d)', S) =
              SumFunctionOnSet(CountedOn(d), S) - CountedOn(d)[i] + CountedOn(d)'[i]
        <5>1. /\ \A y \in S : CountedOn(d)[y] \in Nat /\ CountedOn(d)'[y] \in Nat
              /\ \A y \in S : y # i => CountedOn(d)'[y] = CountedOn(d)[y]
          BY <1>1, <2>2
        <5> QED BY <2>3, <3>2, <5>1, SumChange
      <4> QED BY <1>1, <2>2, <3>1, <3>2, <4>1
    <3>3. CASE i \notin S
      BY <1>1, <2>2, <2>3, <3>1, <3>3, SumEqual
    <3> QED BY <3>1, <3>2, <3>3
  <2>4. /\ CountedForDay(day, Identities) + Reservation(i[2]) <= GlobalDaily
        /\ CountedForDay(day, OfWorkspace(Workspace(i))) + Reservation(i[2])
             <= WorkspaceDaily[Workspace(i)]
    BY <1>3 DEF Admission, Admits, CheckDailyCaps
  <2>5. ASSUME NEW d \in Days
        PROVE  SumFunctionOnSet(CountedOn(d)', Identities) <= GlobalDaily
    BY <2>1, <2>3, <2>4, IdentitiesFinite, LimitsAssumption DEF DailyCapsKept, CountedForDay
  <2>6. ASSUME NEW d \in Days, NEW w \in Workspaces
        PROVE  SumFunctionOnSet(CountedOn(d)', OfWorkspace(w)) <= WorkspaceDaily[w]
    <3>1. i \in OfWorkspace(w) <=> Workspace(i) = w
      BY DEF OfWorkspace
    <3>2. SumFunctionOnSet(CountedOn(d), OfWorkspace(w)) <= WorkspaceDaily[w]
      BY DEF DailyCapsKept, CountedForDay
    <3> QED BY <2>3, <2>4, <3>1, <3>2, IdentitiesFinite, LimitsAssumption DEF CountedForDay
  <2> QED BY <2>5, <2>6 DEF DailyCapsKept, CountedForDay
<1>4. Shrinks \/ \E i \in Identities : Admission(i)
  BY NextEntrySteps, AdmitOrShrink
<1> QED BY <1>2, <1>3, <1>4

\* However admissions, settlements, reconciliation and midnight interleave, no day's
\* entries take more than the global cap and that of their workspace.
THEOREM DailyCapsHold == Spec => []DailyCapsKept
<1>1. Init => DailyCapsKept
  <2> SUFFICES ASSUME Init PROVE DailyCapsKept
    OBVIOUS
  <2>1. ASSUME NEW d \in Days, NEW S \in SUBSET Identities, IsFiniteSet(S)
        PROVE  SumFunctionOnSet(CountedOn(d), S) = 0
    <3>1. \A j \in S : CountedOn(d)[j] = 0
      BY DEF Init, CountedOn, Counted, Open
    <3> QED BY <2>1, <3>1, SumOfZeros
  <2> QED BY <2>1, IdentitiesFinite, LimitsAssumption DEF DailyCapsKept, CountedForDay
<1>2. TypeOK /\ TypeOK' /\ DailyCapsKept /\ [Next]_vars => DailyCapsKept'
  BY CapsNext
<1> QED BY <1>1, <1>2, TypeCorrect, PTL DEF Spec

-----------------------------------------------------------------------------
(* The envelopes.  What a workflow was charged is covered by the entries    *)
(* that no call is about to charge and that nothing can give back any more;  *)
(* the charge a call still has to make is covered by its own entry.          *)

\* The steps at which a call may still charge its workflow.
Charging == {"send", "settle", "spend"}
Charged(i) == \E c \in Calls : call[c].pc \in Charging /\ Id(c) = i

\* What an entry counts for whatever happens.
Firm ==
  [i \in Identities |-> IF entry[i].state \in Dispatched /\ ~Charged(i) THEN Counted[i] ELSE 0]

SpendCovered == \A f \in Workflows : spent[f] <= SumFunctionOnSet(Firm, OfWorkflow(f))

\* A call that may still charge shares its identity with no other that was admitted.
SoleCharger ==
  \A c, d \in Calls :
    /\ call[c].pc \in {"check", "mark", "release"} \cup Charging /\ call[d].pc \in Charging
    /\ Id(c) = Id(d)
    => c = d

\* What a call knows of its entry: unmarked before it may send, then counting for the
\* whole reservation, and at last for no less than the charge.
Known(c) ==
  /\ call[c].pc \in {"check", "mark"} => entry[Id(c)].state \notin Dispatched
  /\ call[c].pc \in {"send", "settle"} =>
       \/ entry[Id(c)].state = "possibly_dispatched"
       \/ entry[Id(c)].state = "usage_uncertain" /\ entry[Id(c)].settled = Reservation(call[c].route)
  /\ call[c].pc = "spend" =>
       entry[Id(c)].state \in Dispatched /\ Charge(c) <= Counted[Id(c)]

\* The inductive invariant of the envelopes.
EnvelopeInv == SoleCharger /\ (\A c \in Calls : Known(c)) /\ SpendCovered

\* A call that does not move keeps what it knows: the others have other entries, and
\* reconciliation charges in full what may have left.
LEMMA KnownKept ==
  ASSUME IInv, EnvelopeInv, NEW d \in Calls, call'[d] = call[d],
         \/ UNCHANGED entry \/ entry' = Reconciled(entry)
         \/ \E c \in Calls \ {d} : EntryStepOf(c)
  PROVE  Known(d)'
<1>1. TypeOK /\ Id(d) \in Identities /\ Id(d)[2] = call[d].route /\ Known(d)
  BY IdType DEF IInv, EnvelopeInv
<1>2. Id(d)' = Id(d) /\ Charge(d)' = Charge(d)
  BY DEF Id, Charge, Trusted
<1>3. Reservation(call[d].route) \in Nat
  BY <1>1, CostTypes DEF TypeOK
<1>4. CASE entry'[Id(d)] = entry[Id(d)]
  BY <1>1, <1>2, <1>4 DEF Known, Counted
<1>5. CASE entry' = Reconciled(entry)
  <2>1. /\ entry[Id(d)].state = "reserved" => entry'[Id(d)].state = "released"
        /\ entry[Id(d)].state = "possibly_dispatched" =>
             /\ entry'[Id(d)].state = "usage_uncertain"
             /\ entry'[Id(d)].settled = Reservation(call[d].route)
        /\ entry[Id(d)].state \notin Open => entry'[Id(d)] = entry[Id(d)]
    BY <1>1, <1>5 DEF Reconciled, TypeOK, Open, EntryStates, Terminal
  <2> QED BY <1>1, <1>2, <1>3, <2>1 DEF Known, Counted, Open, Dispatched
<1>6. ASSUME NEW c \in Calls \ {d}, EntryStepOf(c), entry'[Id(d)] # entry[Id(d)]
      PROVE  Known(d)'
  <2>1. Id(c) = Id(d) /\ entry' # entry
    BY <1>1, <1>6, IdType
       DEF EntryStepOf, Admission, InsertEntry, MarkEntry, ReleaseEntry, SettleEntry, TypeOK
  <2>2. call[d].pc \notin {"check", "mark"} \cup Charging
    <3>1. CASE Admission(Id(c))
      BY <1>1, <2>1, <3>1 DEF IInv, OwnerKnows, Owning, Admission, Admits, Known, Charging, Dispatched
    <3>2. CASE call[c].pc \in {"mark", "release", "settle"}
      BY <2>1, <3>2 DEF IInv, EnvelopeInv, SoleOwner, Owning, SoleCharger, Charging
    <3> QED BY <1>6, <2>1, <3>1, <3>2 DEF EntryStepOf
  <2> QED BY <2>2 DEF Known, Charging
<1> QED BY <1>4, <1>5, <1>6

\* An entry that is firm stays so, and for the same amount, unless a call begins to
\* charge for it.
LEMMA FirmGrows ==
  ASSUME IInv, EnvelopeInv, TypeOK', EntrySteps,
         \A i \in Identities : Charged(i)' => Charged(i) \/ entry[i].state \notin Dispatched
  PROVE  \A i \in Identities : Firm[i] \in Nat /\ Firm'[i] \in Nat /\ Firm[i] <= Firm'[i]
<1> USE DEF IInv
<1>1. \A i \in Identities : Counted[i] \in Nat /\ Counted'[i] \in Nat
  BY CountedType, CountedTypeAfter
<1>2. \A i \in Identities : Firm[i] \in Nat /\ Firm'[i] \in Nat
  BY <1>1 DEF Firm
<1>3. ASSUME NEW i \in Identities, entry[i].state \in Dispatched, ~Charged(i)
      PROVE  entry'[i].state \in Dispatched /\ Counted'[i] = Counted[i]
  <2>1. CASE entry'[i] = entry[i]
    BY <1>3, <2>1 DEF Counted
  <2>2. CASE entry' = Reconciled(entry)
    BY <1>3, <2>2, ZenonT(60) DEF Reconciled, TypeOK, Counted, Open, Dispatched
  <2>3. ASSUME NEW c \in Calls, EntryStepOf(c), entry'[i] # entry[i] PROVE FALSE
    <3>1. Id(c) = i
      BY <2>3, IdType
         DEF EntryStepOf, Admission, InsertEntry, MarkEntry, ReleaseEntry, SettleEntry, TypeOK
    <3>2. call[c].pc # "settle"
      BY <1>3, <3>1 DEF Charged, Charging
    <3> QED BY <1>3, <2>3, <3>1, <3>2
            DEF EntryStepOf, Admission, Admits, MarkEntry, ReleaseEntry, Dispatched
  <2> QED BY <2>1, <2>2, <2>3 DEF EntrySteps
<1>4. ASSUME NEW i \in Identities PROVE Firm[i] <= Firm'[i]
  <2>1. CASE entry[i].state \in Dispatched /\ ~Charged(i)
    <3>1. entry'[i].state \in Dispatched /\ Counted'[i] = Counted[i] /\ ~Charged(i)'
      BY <1>3, <2>1
    <3> QED BY <1>1, <2>1, <3>1 DEF Firm
  <2>2. CASE ~(entry[i].state \in Dispatched /\ ~Charged(i))
    <3>1. Firm[i] = 0
      BY <2>2 DEF Firm
    <3> QED BY <1>2, <3>1
  <2> QED BY <2>1, <2>2
<1> QED BY <1>2, <1>4

\* Then what was charged stays covered.
LEMMA CoveredKept ==
  ASSUME IInv, EnvelopeInv, TypeOK', EntrySteps, UNCHANGED spent,
         \A i \in Identities : Charged(i)' => Charged(i) \/ entry[i].state \notin Dispatched
  PROVE  SpendCovered'
<1> SUFFICES ASSUME NEW f \in Workflows PROVE spent'[f] <= SumFunctionOnSet(Firm', OfWorkflow(f))
  BY DEF SpendCovered
<1>1. IsFiniteSet(OfWorkflow(f)) /\ OfWorkflow(f) \in SUBSET Identities
  BY IdentitiesFinite
<1>2. \A i \in OfWorkflow(f) : Firm[i] \in Nat /\ Firm'[i] \in Nat /\ Firm[i] <= Firm'[i]
  BY <1>1, FirmGrows
<1>3. /\ SumFunctionOnSet(Firm, OfWorkflow(f)) <= SumFunctionOnSet(Firm', OfWorkflow(f))
      /\ SumFunctionOnSet(Firm, OfWorkflow(f)) \in Nat
      /\ SumFunctionOnSet(Firm', OfWorkflow(f)) \in Nat
  BY <1>1, <1>2, SumMonotone, SumType
<1>4. spent'[f] = spent[f] /\ spent[f] \in Nat /\ spent[f] <= SumFunctionOnSet(Firm, OfWorkflow(f))
  BY DEF IInv, TypeOK, EnvelopeInv, SpendCovered
<1> QED BY <1>3, <1>4

\* A step of call c that charges nothing, and after which c owns nothing new.
LEMMA QuietStep ==
  ASSUME IInv, EnvelopeInv, TypeOK', NEW c \in Calls, EntryStepOf(c), UNCHANGED spent,
         \A d \in Calls \ {c} : call'[d] = call[d],
         \/ call'[c].pc \notin {"check", "mark", "release"} \cup Charging
         \/ /\ call'[c].route = call[c].route
            /\ call'[c].pc \in {"check", "mark", "release"}
            /\ \/ call[c].pc \in {"check", "mark", "release"}
               \/ entry[Id(c)].state = "none",
         Known(c)'
  PROVE  EnvelopeInv'
<1> USE DEF IInv
<1>1. \A d \in Calls : Id(d) \in Identities
  BY IdType
<1>2. \A d \in Calls \ {c} : Id(d)' = Id(d)
  BY DEF Id
<1>3. \A d \in Calls : Known(d)'
  BY KnownKept
<1>4. \A d \in Calls : call'[d].pc \in Charging => call[d].pc \in Charging /\ d # c
  BY DEF Charging
<1>5. SoleCharger'
  <2> SUFFICES ASSUME NEW x \in Calls, NEW d \in Calls, Id(x)' = Id(d)',
                      call'[x].pc \in {"check", "mark", "release"} \cup Charging,
                      call'[d].pc \in Charging
               PROVE  x = d
    BY DEF SoleCharger
  <2>1. d # c /\ call[d].pc \in Charging /\ Id(d)' = Id(d)
    BY <1>2, <1>4
  <2>2. CASE x # c
    BY <1>2, <2>1, <2>2 DEF EnvelopeInv, SoleCharger
  <2>3. CASE x = c
    <3>1. Id(x)' = Id(x)
      BY <2>3 DEF Id, Charging
    <3>2. entry[Id(d)].state # "none"
      BY <2>1 DEF EnvelopeInv, Known, Charging, Dispatched
    <3> QED BY <2>1, <2>3, <3>1, <3>2 DEF EnvelopeInv, SoleCharger, Charging
  <2> QED BY <2>2, <2>3
<1>6. SpendCovered'
  <2>1. \A i \in Identities : Charged(i)' => Charged(i)
    BY <1>2, <1>4 DEF Charged
  <2>2. EntrySteps
    BY DEF EntrySteps
  <2> QED BY <2>1, <2>2, CoveredKept
<1> QED BY <1>3, <1>5, <1>6 DEF EnvelopeInv

\* A step of call c that keeps its identity and ends where it may still charge.
LEMMA ChargingStep ==
  ASSUME IInv, EnvelopeInv, TypeOK', NEW c \in Calls, EntryStepOf(c), UNCHANGED spent,
         \A d \in Calls \ {c} : call'[d] = call[d],
         call'[c].route = call[c].route, call'[c].pc \in Charging,
         call[c].pc \in {"mark"} \cup Charging, Known(c)'
  PROVE  EnvelopeInv'
<1> USE DEF IInv
<1>1. \A d \in Calls : Id(d)' = Id(d) /\ Id(d) \in Identities
  BY IdType DEF Id
<1>2. \A d \in Calls : Known(d)'
  BY KnownKept
<1>3. SoleCharger'
  <2> SUFFICES ASSUME NEW x \in Calls, NEW d \in Calls, Id(x) = Id(d),
                      call'[x].pc \in {"check", "mark", "release"} \cup Charging,
                      call'[d].pc \in Charging
               PROVE  x = d
    BY <1>1 DEF SoleCharger
  <2>1. \A y \in Calls : call'[y].pc \in {"check", "mark", "release"} \cup Charging =>
                           call[y].pc \in {"check", "mark", "release"} \cup Charging
    OBVIOUS
  <2>2. CASE call[x].pc \in Charging \/ call[d].pc \in Charging
    BY <2>1, <2>2 DEF EnvelopeInv, SoleCharger
  <2>3. CASE call[x].pc \notin Charging /\ call[d].pc \notin Charging
    <3>1. d = c /\ call[d].pc = "mark"
      BY <2>3
    <3>2. call[x].pc \in {"check", "mark", "release"}
      BY <2>1, <2>3
    <3> QED BY <3>1, <3>2 DEF SoleOwner, Owning
  <2> QED BY <2>2, <2>3
<1>4. SpendCovered'
  <2>1. \A i \in Identities : Charged(i)' => Charged(i) \/ entry[i].state \notin Dispatched
    <3> SUFFICES ASSUME NEW d \in Calls, call'[d].pc \in Charging, ~Charged(Id(d))
                 PROVE  entry[Id(d)].state \notin Dispatched
      BY <1>1 DEF Charged
    <3>1. d = c /\ call[c].pc = "mark"
      BY DEF Charged
    <3> QED BY <3>1 DEF EnvelopeInv, Known
  <2>2. EntrySteps
    BY DEF EntrySteps
  <2> QED BY <2>1, <2>2, CoveredKept
<1> QED BY <1>2, <1>3, <1>4 DEF EnvelopeInv

\* After it has charged, a call owns nothing, and no other call moves.
LEMMA AfterSpendMoves ==
  ASSUME TypeOK, NEW c \in Calls, NEW fallback \in BOOLEAN, AfterSpend(c, fallback)
  PROVE  /\ \A d \in Calls \ {c} : call'[d] = call[d] /\ Id(d)' = Id(d)
         /\ call'[c].pc \in {"reserve", "done"}
<1>1. CASE fallback
  <2>1. call' = [call EXCEPT ![c] = [pc |-> "reserve", route |-> "fallback", tries |-> 0,
                                     answer |-> NoAnswer]]
    BY <1>1 DEF AfterSpend
  <2> QED BY <2>1 DEF TypeOK, Id
<1>2. CASE ~fallback
  <2>1. call' = [call EXCEPT ![c] = [call[c] EXCEPT !.pc = "done", !.tries = 0, !.answer = NoAnswer]]
    BY <1>2 DEF AfterSpend
  <2>2. call'[c] = [call[c] EXCEPT !.pc = "done", !.tries = 0, !.answer = NoAnswer]
    BY <2>1 DEF TypeOK
  <2>3. call'[c].pc = "done"
    BY <2>2 DEF TypeOK
  <2>4. \A d \in Calls \ {c} : call'[d] = call[d]
    BY <2>1 DEF TypeOK
  <2> QED BY <2>3, <2>4 DEF Id
<1> QED BY <1>1, <1>2

\* The charge is what the call's own entry was counting for.
LEMMA AddSpendStep ==
  ASSUME IInv, EnvelopeInv, TypeOK', NEW c \in Calls, NEW fallback \in BOOLEAN,
         AddWorkflowSpend(c, fallback)
  PROVE  SpendCovered'
<1> USE DEF IInv
<1>0. PICK i \in Identities : i = Id(c)
  BY IdType
<1>1. /\ call[c].pc = "spend" /\ UNCHANGED entry /\ AfterSpend(c, fallback)
      /\ \A d \in Calls \ {c} : call'[d] = call[d] /\ Id(d)' = Id(d)
      /\ call'[c].pc \in {"reserve", "done"}
  BY AfterSpendMoves DEF AddWorkflowSpend
<1>2. /\ entry[i].state \in Dispatched /\ Charge(c) <= Counted[i]
      /\ Charge(c) \in Nat
  <2>1. Charge(c) \in Nat
    <3>1. call[c].route \in Routes
      BY DEF TypeOK
    <3> QED BY <3>1, CostTypes DEF Charge, Trusted
  <2> QED BY <1>0, <1>1, <2>1 DEF EnvelopeInv, Known
<1>3. \A d \in Calls \ {c} : call[d].pc \in Charging => Id(d) # i
  BY <1>0, <1>1 DEF EnvelopeInv, SoleCharger, Charging
<1>4. Charged(i) /\ ~Charged(i)'
  BY <1>0, <1>1, <1>3 DEF Charged, Charging
<1>5. \A j \in Identities \ {i} : Charged(j)' <=> Charged(j)
  BY <1>0, <1>1 DEF Charged, Charging
<1>6. \A j \in Identities : Counted[j] \in Nat /\ Counted'[j] = Counted[j]
  BY <1>1, CountedType DEF Counted
<1>7. /\ \A j \in Identities : Firm[j] \in Nat /\ Firm'[j] \in Nat
      /\ \A j \in Identities \ {i} : Firm'[j] = Firm[j]
      /\ Firm[i] = 0 /\ Firm'[i] = Counted[i]
  BY <1>1, <1>2, <1>4, <1>5, <1>6 DEF Firm
<1> SUFFICES ASSUME NEW f \in Workflows PROVE spent'[f] <= SumFunctionOnSet(Firm', OfWorkflow(f))
  BY DEF SpendCovered
<1>8. IsFiniteSet(OfWorkflow(f)) /\ OfWorkflow(f) \in SUBSET Identities
  BY IdentitiesFinite
<1>9. spent[f] \in Nat /\ spent[f] <= SumFunctionOnSet(Firm, OfWorkflow(f))
  BY DEF TypeOK, EnvelopeInv, SpendCovered
<1>10. SumFunctionOnSet(Firm, OfWorkflow(f)) \in Nat /\ SumFunctionOnSet(Firm', OfWorkflow(f)) \in Nat
  BY <1>7, <1>8, SumType
<1>11. Counted[i] \in Nat
  BY <1>2, <1>6
<1>12. CASE i \in OfWorkflow(f)
  <2>1. /\ \A j \in OfWorkflow(f) : Firm[j] \in Nat /\ Firm'[j] \in Nat
        /\ \A j \in OfWorkflow(f) : j # i => Firm'[j] = Firm[j]
    BY <1>7, <1>8
  <2>2. SumFunctionOnSet(Firm', OfWorkflow(f)) =
          SumFunctionOnSet(Firm, OfWorkflow(f)) - Firm[i] + Firm'[i]
    <3> DEFINE S == OfWorkflow(f)
    <3>1. IsFiniteSet(S) /\ i \in S
      BY <1>8, <1>12
    <3>2. /\ \A j \in S : Firm[j] \in Nat /\ Firm'[j] \in Nat
          /\ \A j \in S : j # i => Firm'[j] = Firm[j]
      BY <2>1
    <3>3. SumFunctionOnSet(Firm', S) = SumFunctionOnSet(Firm, S) - Firm[i] + Firm'[i]
      <4> HIDE DEF S
      <4> QED BY <3>1, <3>2, SumChange
    <3> QED BY <3>3
  <2>3. SumFunctionOnSet(Firm', OfWorkflow(f)) = SumFunctionOnSet(Firm, OfWorkflow(f)) + Counted[i]
    BY <1>7, <1>10, <1>11, <2>2
  <2>4. spent'[f] <= spent[f] + Charge(c)
    BY <1>2, <1>9 DEF AddWorkflowSpend, TypeOK
  <2>5. spent'[f] \in Nat
    BY DEF TypeOK
  <2> QED BY <1>2, <1>9, <1>10, <1>11, <2>3, <2>4, <2>5
<1>13. CASE i \notin OfWorkflow(f)
  <2>1. \A j \in OfWorkflow(f) : Firm[j] \in Nat /\ Firm'[j] = Firm[j]
    BY <1>7, <1>8, <1>13
  <2>2. SumFunctionOnSet(Firm', OfWorkflow(f)) = SumFunctionOnSet(Firm, OfWorkflow(f))
    BY <1>8, <2>1, SumEqual
  <2>3. Workflow(Id(c)) # f
    BY <1>0, <1>13 DEF OfWorkflow
  <2>4. spent'[f] = spent[f]
    BY <2>3 DEF AddWorkflowSpend, TypeOK
  <2> QED BY <1>9, <2>2, <2>4
<1> QED BY <1>12, <1>13

\* A settlement leaves the entry counting for no less than the charge.
LEMMA SettleKnown ==
  ASSUME IInv, EnvelopeInv, NEW c \in Calls, NEW committed \in BOOLEAN, Settle(c, committed)
  PROVE  Known(c)'
<1> USE DEF IInv
<1>1. Id(c) \in Identities /\ Id(c)[2] = call[c].route /\ call[c].route \in Routes
  BY IdType DEF TypeOK
<1>2. /\ call[c].pc = "settle"
      /\ call'[c] = [call[c] EXCEPT !.pc = "spend"]
      /\ call'[c].pc = "spend" /\ call'[c].answer = call[c].answer /\ call'[c].route = call[c].route
  BY DEF Settle, Goto, TypeOK
<1>3. Id(c)' = Id(c) /\ Charge(c)' = Charge(c)
  BY <1>2 DEF Id, Charge, Trusted
<1>4. /\ Reservation(call[c].route) \in Nat /\ Charge(c) \in Nat
      /\ Charge(c) <= Reservation(call[c].route)
  BY <1>1, CostTypes, CostWithinReservation DEF Charge, Trusted
<1>5. \/ entry[Id(c)].state = "possibly_dispatched"
      \/ entry[Id(c)].state = "usage_uncertain" /\ entry[Id(c)].settled = Reservation(call[c].route)
  BY <1>2 DEF EnvelopeInv, Known
<1>6. \/ entry'[Id(c)] = entry[Id(c)]
      \/ /\ entry'[Id(c)].state \in {"settled", "usage_uncertain"}
         /\ entry'[Id(c)].settled = Charge(c)
  BY <1>1, <1>2, ZenonT(60) DEF Settle, SettleEntry, TypeOK
<1>7. entry'[Id(c)].state \in Dispatched /\ Charge(c) <= Counted'[Id(c)]
  BY <1>1, <1>4, <1>5, <1>6 DEF Counted, Open, Dispatched
<1> QED BY <1>2, <1>3, <1>7 DEF Known

\* Every step of a completion keeps the envelopes covered.
LEMMA CompleteCovered ==
  ASSUME IInv, EnvelopeInv, TypeOK', NEW c \in Calls, Complete(c)
  PROVE  EnvelopeInv'
<1> USE DEF IInv
<1>1. Id(c) \in Identities /\ EntryStepOf(c)
  BY IdType, CompleteEntryStep
<1>2. ASSUME NEW s \in Steps, Goto(c, s)
      PROVE  /\ \A d \in Calls \ {c} : call'[d] = call[d]
             /\ call'[c].pc = s /\ call'[c].route = call[c].route /\ Id(c)' = Id(c)
  BY <1>2 DEF Goto, TypeOK, Id
<1>3. CASE \/ CacheHit(c) \/ CacheMiss(c) \/ RouteClosed(c) \/ EnvelopeRefuses(c)
           \/ \E committed \in BOOLEAN :
                ReserveRefused(c, committed) \/ MarkFails(c, committed) \/ Release(c, committed)
  <2>1. /\ UNCHANGED spent
        /\ \/ Goto(c, "done") \/ Goto(c, "reserve")
           \/ Goto(c, "release") /\ call[c].pc \in {"check", "mark"}
    BY <1>3 DEF CacheHit, CacheMiss, RouteClosed, EnvelopeRefuses, ReserveRefused, MarkFails, Release
  <2>2. Known(c)'
    BY <1>2, <2>1 DEF Known, Steps
  <2> QED BY <1>1, <1>2, <2>1, <2>2, QuietStep DEF Steps, Charging
<1>4. CASE Reserve(c)
  <2>1. Goto(c, "check") /\ entry[Id(c)].state = "none" /\ entry'[Id(c)].state = "reserved"
        /\ UNCHANGED spent
    BY <1>1, <1>4 DEF Reserve, Admits, InsertEntry, TypeOK
  <2>2. Known(c)'
    BY <1>2, <2>1 DEF Known, Steps, Dispatched
  <2> QED BY <1>1, <1>2, <2>1, <2>2, QuietStep DEF Steps, Charging
<1>5. CASE CheckEnvelope(c)
  <2>1. Goto(c, "mark") /\ call[c].pc = "check" /\ UNCHANGED <<entry, spent>>
    BY <1>5 DEF CheckEnvelope
  <2>2. Known(c)'
    BY <1>2, <2>1 DEF Known, Steps, EnvelopeInv
  <2> QED BY <1>1, <1>2, <2>1, <2>2, QuietStep DEF Steps, Charging
<1>6. CASE MarkPossiblyDispatched(c)
  <2>1. Goto(c, "send") /\ call[c].pc = "mark" /\ UNCHANGED spent
    BY <1>6 DEF MarkPossiblyDispatched
  <2>2. entry'[Id(c)].state = "possibly_dispatched"
    BY <1>1, <1>6 DEF MarkPossiblyDispatched, MarkEntry, Open, TypeOK
  <2>3. Known(c)'
    BY <1>2, <2>1, <2>2 DEF Known, Steps
  <2> QED BY <1>1, <1>2, <2>1, <2>3, ChargingStep DEF Steps, Charging
<1>7. ASSUME NEW answer \in Usages \cup Faults, Send(c, answer) PROVE EnvelopeInv'
  <2>1. /\ call[c].pc = "send" /\ UNCHANGED <<entry, spent>>
        /\ \A d \in Calls \ {c} : call'[d] = call[d]
        /\ call'[c].route = call[c].route /\ call'[c].pc \in {"send", "settle"}
    <3>1. call[c].pc = "send" /\ UNCHANGED <<entry, spent>>
      BY <1>7 DEF Send
    <3>2. CASE call' = [call EXCEPT ![c].tries = @ + 1]
      <4>1. call'[c] = [call[c] EXCEPT !.tries = call[c].tries + 1]
        BY <3>2 DEF TypeOK
      <4>2. call'[c].route = call[c].route /\ call'[c].pc = call[c].pc
        BY <4>1 DEF TypeOK
      <4> QED BY <3>1, <3>2, <4>2 DEF TypeOK
    <3>3. CASE call' = [call EXCEPT ![c] = [call[c] EXCEPT !.pc = "settle", !.answer = answer]]
      BY <3>1, <3>3 DEF TypeOK
    <3> QED BY <1>7, <3>2, <3>3 DEF Send
  <2>2. Known(c)'
    BY <2>1 DEF Known, EnvelopeInv, Id
  <2> QED BY <1>1, <2>1, <2>2, ChargingStep DEF Charging
<1>8. ASSUME NEW committed \in BOOLEAN, Settle(c, committed) PROVE EnvelopeInv'
  <2>1. Goto(c, "spend") /\ call[c].pc = "settle" /\ UNCHANGED spent
    BY <1>8 DEF Settle
  <2>2. Known(c)'
    BY <1>8, SettleKnown
  <2> QED BY <1>1, <1>2, <2>1, <2>2, ChargingStep DEF Steps, Charging
<1>9. ASSUME NEW fallback \in BOOLEAN,
             AddWorkflowSpend(c, fallback) \/ SkipWorkflowSpend(c, fallback)
      PROVE  EnvelopeInv'
  <2>1. /\ call[c].pc = "spend" /\ UNCHANGED entry
        /\ \A d \in Calls \ {c} : call'[d] = call[d] /\ Id(d)' = Id(d)
        /\ call'[c].pc \in {"reserve", "done"}
    BY <1>9, AfterSpendMoves DEF AddWorkflowSpend, SkipWorkflowSpend
  <2>2. Known(c)'
    BY <2>1 DEF Known
  <2>3. \A d \in Calls : Known(d)'
    BY <2>1, <2>2, KnownKept
  <2>4. SoleCharger'
    BY <2>1 DEF EnvelopeInv, SoleCharger, Charging
  <2>5. CASE AddWorkflowSpend(c, fallback)
    BY <2>3, <2>4, <2>5, AddSpendStep DEF EnvelopeInv
  <2>6. CASE SkipWorkflowSpend(c, fallback)
    <3>1. \A i \in Identities : Charged(i)' => Charged(i)
      BY <2>1 DEF Charged, Charging
    <3>2. EntrySteps /\ UNCHANGED spent
      BY <2>6 DEF EntrySteps, SkipWorkflowSpend
    <3> QED BY <2>3, <2>4, <3>1, <3>2, CoveredKept DEF EnvelopeInv
  <2> QED BY <1>9, <2>5, <2>6
<1> QED BY <1>3, <1>4, <1>5, <1>6, <1>7, <1>8, <1>9 DEF Complete

\* And so does every other step.
LEMMA EnvelopeNext ==
  ASSUME IInv, EnvelopeInv, TypeOK', [Next]_vars
  PROVE  EnvelopeInv'
<1> USE DEF IInv
<1>1. EntrySteps
  BY NextEntrySteps
<1>2. CASE NewDay \/ Recover \/ UNCHANGED vars
  <2>1. UNCHANGED <<spent, call>> /\ (UNCHANGED entry \/ entry' = Reconciled(entry))
    BY <1>2 DEF NewDay, Recover, vars
  <2>2. \A d \in Calls : Id(d)' = Id(d)
    BY <2>1 DEF Id
  <2>3. \A d \in Calls : Known(d)'
    BY <2>1, KnownKept
  <2>4. SoleCharger'
    BY <2>1, <2>2 DEF EnvelopeInv, SoleCharger
  <2>5. \A i \in Identities : Charged(i)' => Charged(i)
    BY <2>1, <2>2 DEF Charged
  <2> QED BY <1>1, <2>1, <2>3, <2>4, <2>5, CoveredKept DEF EnvelopeInv
<1>3. CASE Restart
  <2>1. \A d \in Calls : call'[d].pc \in {"new", "done"}
    BY <1>3 DEF Restart, TypeOK
  <2>2. (\A d \in Calls : Known(d)') /\ SoleCharger' /\ \A i \in Identities : ~Charged(i)'
    BY <2>1 DEF Known, SoleCharger, Charged, Charging
  <2>3. UNCHANGED spent
    BY <1>3 DEF Restart
  <2> QED BY <1>1, <2>2, <2>3, CoveredKept DEF EnvelopeInv
<1>4. ASSUME NEW c \in Calls, Complete(c) PROVE EnvelopeInv'
  BY <1>4, CompleteCovered
<1> QED BY <1>2, <1>3, <1>4 DEF Next

\* No workflow is ever charged what the ledger does not count for its calls, although
\* the ledger and the envelope are written in two transactions, either of which may
\* fail, and another process may settle the entry in between.
THEOREM SpendAlwaysLedgered == Spec => []SpendIsLedgered
<1>1. Init => EnvelopeInv
  <2> SUFFICES ASSUME Init PROVE EnvelopeInv
    OBVIOUS
  <2>1. SoleCharger /\ \A c \in Calls : Known(c)
    BY DEF Init, SoleCharger, Known, Charging
  <2>2. ASSUME NEW f \in Workflows PROVE spent[f] <= SumFunctionOnSet(Firm, OfWorkflow(f))
    <3>1. \A i \in Identities : Firm[i] = 0
      BY DEF Init, Firm, Dispatched
    <3>2. SumFunctionOnSet(Firm, OfWorkflow(f)) = 0
      BY <3>1, IdentitiesFinite, SumOfZeros
    <3> QED BY <3>2 DEF Init
  <2> QED BY <2>1, <2>2 DEF EnvelopeInv, SpendCovered
<1>2. IInv /\ TypeOK' /\ EnvelopeInv /\ [Next]_vars => EnvelopeInv'
  BY EnvelopeNext
<1>3. IInv /\ EnvelopeInv => SpendIsLedgered
  <2> SUFFICES ASSUME IInv, EnvelopeInv, NEW f \in Workflows
               PROVE  spent[f] <= SumFunctionOnSet(Counted, OfWorkflow(f))
    BY DEF SpendIsLedgered
  <2>1. IsFiniteSet(OfWorkflow(f)) /\ OfWorkflow(f) \in SUBSET Identities
    BY IdentitiesFinite
  <2>2. \A i \in OfWorkflow(f) : Firm[i] \in Nat /\ Counted[i] \in Nat /\ Firm[i] <= Counted[i]
    BY <2>1, CountedType DEF IInv, Firm
  <2>3. /\ SumFunctionOnSet(Firm, OfWorkflow(f)) <= SumFunctionOnSet(Counted, OfWorkflow(f))
        /\ SumFunctionOnSet(Firm, OfWorkflow(f)) \in Nat
        /\ SumFunctionOnSet(Counted, OfWorkflow(f)) \in Nat
    BY <2>1, <2>2, SumMonotone, SumType
  <2> QED BY <2>3 DEF IInv, TypeOK, EnvelopeInv, SpendCovered
<1> QED BY <1>1, <1>2, <1>3, BudgetInvariant, TypeCorrect, PTL DEF Spec

\* The ledger's amounts are right in every behaviour: their types hold, every day's
\* caps are kept, and no workflow is charged what is not counted.
THEOREM LedgerAlwaysSound == Spec => []LedgerIsSound
<1>1. TypeOK /\ DailyCapsKept /\ SpendIsLedgered => LedgerIsSound
  BY DEF LedgerIsSound
<1> QED BY <1>1, TypeCorrect, DailyCapsHold, SpendAlwaysLedgered, PTL
=============================================================================
