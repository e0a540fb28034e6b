-------------------------- MODULE WorkerTaskProofs --------------------------
(***************************************************************************)
(* Proofs about what a worker does with a task.  WorkerTask: for every     *)
(* number of rows, batch size, buffer cap, number of attempts of a request *)
(* and number of faults.  StepGuards: for every set of branches and tabs,  *)
(* every window, cooldown, threshold and limit.                            *)
(***************************************************************************)
EXTENDS WorkerTask, StepGuards, InductionLemmas, TLAPS

-----------------------------------------------------------------------------
(* The inductive invariant.                                                 *)

\* The statuses an execution may end with, and the shape of what is kept and sent.
Outcomes == {"none", "success", "failure", "cancelled"}
Phases == {"start", "steps", "flushing", "sending", "drain", "draining", "summary",
           "summarizing", "status", "log", "failing", "idle"}

\* Where the summary may have been sent: the steps and the drain are over.
Late == {"summarizing", "status", "log", "failing", "idle"}
Batches == [kind : {"batch"}, data : Seq(Nat), seq : Nat \ {0}]
Summaries == [kind : {"summary"}, data : {<<"status", r>> : r \in Outcomes}, seq : Nat \ {0}]
Envelopes == Batches \cup Summaries
Posts == {NoPost} \cup [kind : {"batch"}, data : Seq(Nat), seq : Nat \ {0}, attempt : Nat]
   \cup [kind : {"summary"}, data : {<<"status", r>> : r \in Outcomes}, seq : Nat \ {0}, attempt : Nat]
   \cup [kind : {"status"}, data : {<<st>> : st \in Terminal}, seq : {0}, attempt : Nat]

\* The rows an envelope carries, and the rows of all results.
Held(p) == IF p.kind = "batch" THEN ToSet(p.data) ELSE {}
RowsOf(res) == UNION {Held(res[i]) : i \in DOMAIN res}
Distinct(s) == \A k, l \in DOMAIN s : s[k] = s[l] => k = l

\* What the worker holds: its buffer, the failed batch set apart and the pending
\* envelope hold rows that were produced, each once; the failed batch shares rows with
\* the pending envelope only when it is that very batch.
HoldsSound(b, r, p, n, q) ==
  /\ n \in Nat /\ q \in Nat
  /\ b \in Seq(Nat) /\ Distinct(b)
  /\ r \in Seq(Nat) /\ Distinct(r)
  /\ p \in Envelopes \cup {NoEnvelope}
  /\ p.kind = "batch" => p.data # <<>> /\ Distinct(p.data)
  /\ ToSet(b) \cup ToSet(r) \cup Held(p) \subseteq 1..n
  /\ ToSet(b) \cap (ToSet(r) \cup Held(p)) = {}
  /\ (p.kind = "batch" /\ r = p.data) \/ ToSet(r) \cap Held(p) = {}
  /\ p.kind # "none" => p.seq = q

\* What the server stores: numbers given out, each once, no row in two results.
ResultsSound(res, n, q) ==
  /\ res \in Seq(Envelopes)
  /\ \A i \in DOMAIN res :
      /\ res[i].seq <= q /\ Held(res[i]) \subseteq 1..n
      /\ res[i].kind = "batch" => Distinct(res[i].data)
  /\ \A i, j \in DOMAIN res : i # j => res[i].seq # res[j].seq /\ Held(res[i]) \cap Held(res[j]) = {}

\* A stored result with the number in use is the pending envelope; every other one
\* shares no row with what the worker still holds.
Apart(b, r, p, res) ==
  \A i \in DOMAIN res :
    IF p.kind # "none" /\ res[i].seq = p.seq THEN res[i] = p
    ELSE Held(res[i]) \cap (ToSet(b) \cup ToSet(r) \cup Held(p)) = {}

\* Every produced row is stored, given up or still held.
Accounted(b, r, p, res, n, lost) ==
  /\ lost \subseteq 1..n
  /\ 1..n \subseteq RowsOf(res) \cup lost \cup ToSet(b) \cup ToSet(r) \cup Held(p)

\* The four together, over the values they speak of, so that one step of any caller is
\* a step of values.
Sound(b, r, p, res, n, lost, q) ==
  /\ HoldsSound(b, r, p, n, q) /\ ResultsSound(res, n, q)
  /\ Apart(b, r, p, res) /\ Accounted(b, r, p, res, n, lost)

\* Rows are neither lost nor doubled between the worker and the server.
RowsSound == Sound(buffer, retry, pending, server.results, produced, dropped, seqno)

\* Nothing is missing on the server, and the summary says so.
AllKept == 1..produced \subseteq StoredRows \cup dropped
Complete == AllKept /\ \E i \in Stored("summary") : server.results[i].data = <<"status", "success">>

\* The flushes that may wait in the chain, and the shape of the server's side.
Owners == {"tick", "step", "drain", "discard"}
Servers == [results : Seq(Envelopes), status : {"running", "ended"} \cup Terminal]

\* Types, with the bounds that the code keeps.
WorkerTyped ==
  /\ phase \in Phases /\ result \in Outcomes
  /\ chain \in Seq(Owners)
  /\ posts \in [Callers -> Posts]
  /\ taskAborted \in BOOLEAN /\ faults \in 0..MaxFaults
  /\ server \in Servers
  /\ produced <= MaxRows /\ Len(buffer) <= BufferCap

\* A request in flight carries the pending envelope; a status of done is only on its
\* way when everything is stored. The retries of a request were paid for by faults.
Carries(c) == \E n \in 1..faults + 1 :
  posts[c] = [kind |-> pending.kind, data |-> pending.data, seq |-> pending.seq, attempt |-> n]
Carried ==
  /\ InFlight("flush") =>
       /\ pending.kind = "batch" /\ Carries("flush") /\ ~InFlight("step")
       /\ chain # <<>> /\ Head(chain) # "discard" /\ (retry = <<>> \/ retry = pending.data)
  /\ InFlight("step") =>
       /\ pending.kind = "batch" /\ Carries("step") /\ phase = "sending"
       /\ ToSet(retry) \cap ToSet(pending.data) = {}
  /\ InFlight("summary") => pending.kind = "summary" /\ Carries("summary") /\ phase = "summarizing"
  /\ InFlight("status") =>
       /\ phase \in {"status", "failing"}
       /\ \E n \in 1..faults + 1, st \in Terminal :
            /\ (st = "done" => Complete)
            /\ posts["status"] = [kind |-> "status", data |-> <<st>>, seq |-> 0, attempt |-> n]

\* At most one flush of the chain is not a tick, and its owner waits for it.
ChainSound ==
  /\ \A i, j \in DOMAIN chain : i # j => chain[i] = "tick" \/ chain[j] = "tick"
  /\ \A i \in DOMAIN chain :
       /\ chain[i] = "step" => phase = "flushing"
       /\ chain[i] \in {"drain", "discard"} => phase = "draining"
       /\ chain[i] = "discard" => result # "success"

\* With a summary pending or stored, no flush is left and no row is held back from a
\* success; the server has done only with everything stored.
EndSound ==
  /\ result = "cancelled" => taskAborted
  /\ pending.kind = "summary" => phase \in Late /\ chain = <<>> /\ pending.data = <<"status", result>>
  /\ \A i \in Stored("summary") :
       /\ phase \in Late /\ chain = <<>> /\ server.results[i].seq = seqno
       /\ server.results[i].data = <<"status", result>>
  /\ phase \in {"summary", "summarizing", "status"} /\ result = "success" =>
       buffer = <<>> /\ retry = <<>> /\ ~InFlight("flush")
  /\ phase = "status" => \E i \in Stored("summary") : TRUE
  /\ phase = "status" /\ result = "success" => AllKept
  /\ server.status = "done" => Complete /\ phase \in Late

\* The inductive invariant.
WorkerInv == WorkerTyped /\ RowsSound /\ Carried /\ ChainSound /\ EndSound /\ SummaryIsLast /\ TerminalReported

-----------------------------------------------------------------------------
(* Sequences of rows and envelopes.                                         *)

\* An empty sequence holds no row.
LEMMA NothingInEmpty ==
  ASSUME NEW s \in Seq(Nat), s = <<>>
  PROVE  ToSet(s) = {} /\ Distinct(s)
<1>1. DOMAIN s = {}
  OBVIOUS
<1> QED BY <1>1 DEF ToSet, Distinct

\* Appending adds one element and moves none.
LEMMA AppendSet ==
  ASSUME NEW S, NEW s \in Seq(S), NEW x \in S
  PROVE  /\ Append(s, x) \in Seq(S) /\ Len(Append(s, x)) = Len(s) + 1
         /\ DOMAIN Append(s, x) = 1..Len(s) + 1 /\ DOMAIN s = 1..Len(s) /\ Len(s) \in Nat
         /\ Append(s, x)[Len(s) + 1] = x
         /\ \A i \in DOMAIN s : Append(s, x)[i] = s[i]
         /\ ToSet(Append(s, x)) = ToSet(s) \cup {x}
<1>1. /\ Append(s, x) \in Seq(S) /\ Len(Append(s, x)) = Len(s) + 1
      /\ DOMAIN Append(s, x) = 1..Len(s) + 1 /\ DOMAIN s = 1..Len(s) /\ Len(s) \in Nat
  OBVIOUS
<1>2. /\ Append(s, x)[Len(s) + 1] = x
      /\ \A i \in DOMAIN s : Append(s, x)[i] = s[i]
  OBVIOUS
<1>3. ToSet(Append(s, x)) = ToSet(s) \cup {x}
  <2>1. ASSUME NEW y \in ToSet(Append(s, x)) PROVE y \in ToSet(s) \cup {x}
    BY <1>1, <1>2 DEF ToSet
  <2>2. ToSet(s) \subseteq ToSet(Append(s, x))
    BY <1>1, <1>2 DEF ToSet
  <2>3. x \in ToSet(Append(s, x))
    <3>1. Len(s) + 1 \in DOMAIN Append(s, x)
      BY <1>1
    <3> QED BY <3>1, <1>2 DEF ToSet
  <2> QED BY <2>1, <2>2, <2>3
<1> QED BY <1>1, <1>2, <1>3

\* The tail is the sequence without its first element.
LEMMA TailSet ==
  ASSUME NEW S, NEW s \in Seq(S), s # <<>>
  PROVE  /\ Tail(s) \in Seq(S) /\ Len(Tail(s)) = Len(s) - 1 /\ Len(s) \in Nat \ {0}
         /\ DOMAIN s = 1..Len(s) /\ DOMAIN Tail(s) = 1..Len(s) - 1
         /\ \A i \in DOMAIN Tail(s) : Tail(s)[i] = s[i + 1]
         /\ Head(s) = s[1] /\ Head(s) \in S
         /\ ToSet(s) = {Head(s)} \cup ToSet(Tail(s))
<1>1. /\ Tail(s) \in Seq(S) /\ Len(Tail(s)) = Len(s) - 1 /\ Len(s) \in Nat \ {0}
      /\ DOMAIN s = 1..Len(s) /\ DOMAIN Tail(s) = 1..Len(s) - 1
  OBVIOUS
<1>2. /\ \A i \in DOMAIN Tail(s) : Tail(s)[i] = s[i + 1]
      /\ Head(s) = s[1] /\ Head(s) \in S
  BY <1>1
<1>3. ToSet(s) = {Head(s)} \cup ToSet(Tail(s))
  <2>1. ASSUME NEW i \in DOMAIN s PROVE s[i] \in {Head(s)} \cup ToSet(Tail(s))
    <3>1. CASE i = 1
      BY <3>1, <1>2
    <3>2. CASE i # 1
      <4>1. i - 1 \in DOMAIN Tail(s) /\ (i - 1) + 1 = i
        BY <3>2, <1>1
      <4>2. Tail(s)[i - 1] = s[i]
        BY <4>1, <1>2
      <4> QED BY <4>1, <4>2 DEF ToSet
    <3> QED BY <3>1, <3>2
  <2>2. Head(s) \in ToSet(s)
    BY <1>1, <1>2 DEF ToSet
  <2>3. ASSUME NEW i \in DOMAIN Tail(s) PROVE Tail(s)[i] \in ToSet(s)
    <3>1. i + 1 \in DOMAIN s
      BY <1>1
    <3> QED BY <3>1, <1>2 DEF ToSet
  <2>4. ToSet(s) \subseteq {Head(s)} \cup ToSet(Tail(s))
    BY <2>1 DEF ToSet
  <2>5. ToSet(Tail(s)) \subseteq ToSet(s)
    BY <2>3 DEF ToSet
  <2> QED BY <2>2, <2>4, <2>5
<1> QED BY <1>1, <1>2, <1>3

\* The batch of one row that sendResult sends at once.
LEMMA OneRow ==
  ASSUME NEW x \in Nat
  PROVE  <<x>> \in Seq(Nat) /\ <<x>> # <<>> /\ ToSet(<<x>>) = {x} /\ Distinct(<<x>>)
<1>1. ASSUME NEW s \in Seq(Nat), Len(s) = 1, s[1] = x PROVE ToSet(s) = {x} /\ Distinct(s)
  <2>1. DOMAIN s = {1}
    BY <1>1
  <2> QED BY <2>1, <1>1 DEF ToSet, Distinct
<1>2. <<x>> \in Seq(Nat) /\ Len(<<x>>) = 1 /\ <<x>>[1] = x /\ <<x>> # <<>>
  OBVIOUS
<1> QED BY <1>1, <1>2

\* A batch is empty exactly when it has no row.
LEMMA NonEmptySet ==
  ASSUME NEW s \in Seq(Nat)
  PROVE  s = <<>> <=> ToSet(s) = {}
<1>1. ASSUME s # <<>> PROVE s[1] \in ToSet(s)
  BY <1>1 DEF ToSet
<1> QED BY <1>1, NothingInEmpty

\* An envelope is its kind, its data and its number, and is not the missing one.
LEMMA EnvelopeShape ==
  /\ NoEnvelope.kind = "none" /\ Held(NoEnvelope) = {}
  /\ \A e \in Envelopes : /\ e.kind \in {"batch", "summary"} /\ e.seq \in Nat \ {0}
                          /\ e = [kind |-> e.kind, data |-> e.data, seq |-> e.seq]
                          /\ e # NoEnvelope
  /\ \A e \in Envelopes \cup {NoEnvelope} : e.kind # "none" => e \in Envelopes
  BY DEF Envelopes, Batches, Summaries, NoEnvelope, Held

\* A result that is stored adds the rows it carries.
LEMMA RowsOfAppend ==
  ASSUME NEW res \in Seq(Envelopes), NEW e \in Envelopes
  PROVE  RowsOf(Append(res, e)) = RowsOf(res) \cup Held(e)
<1> DEFINE more == Append(res, e)
<1>1. /\ DOMAIN more = 1..Len(res) + 1 /\ DOMAIN res = 1..Len(res) /\ Len(res) \in Nat
      /\ more[Len(res) + 1] = e /\ \A i \in DOMAIN res : more[i] = res[i]
  BY AppendSet
<1> HIDE DEF more
<1>2. Len(res) + 1 \in DOMAIN more /\ DOMAIN res \subseteq DOMAIN more
  BY <1>1
<1>3. \A i \in DOMAIN more : i \in DOMAIN res \/ i = Len(res) + 1
  BY <1>1
<1>4. RowsOf(more) \subseteq RowsOf(res) \cup Held(e)
  BY <1>1, <1>3 DEF RowsOf
<1>5. RowsOf(res) \subseteq RowsOf(more)
  BY <1>1, <1>2 DEF RowsOf
<1>6. Held(e) \subseteq RowsOf(more)
  BY <1>1, <1>2 DEF RowsOf
<1> QED BY <1>4, <1>5, <1>6 DEF more

-----------------------------------------------------------------------------
(* What a step of the worker or of the server does to the rows.             *)

\* The request is stored.
LEMMA SoundStored ==
  ASSUME NEW b, NEW r, NEW p, NEW res, NEW n, NEW lost, NEW q,
         Sound(b, r, p, res, n, lost, q), p.kind # "none",
         \A i \in DOMAIN res : res[i].seq # p.seq
  PROVE  Sound(b, r, p, Append(res, p), n, lost, q)
<1> DEFINE more == Append(res, p)
<1>0. p \in Envelopes /\ res \in Seq(Envelopes)
  BY EnvelopeShape DEF Sound, HoldsSound, ResultsSound
<1>1. /\ DOMAIN more = 1..Len(res) + 1 /\ DOMAIN res = 1..Len(res) /\ Len(res) \in Nat
      /\ more[Len(res) + 1] = p /\ more \in Seq(Envelopes)
      /\ \A i \in DOMAIN res : more[i] = res[i]
  BY <1>0, AppendSet
<1>2. RowsOf(more) = RowsOf(res) \cup Held(p)
  BY <1>0, RowsOfAppend
<1> HIDE DEF more
<1>3. \A i \in DOMAIN more : (i \in DOMAIN res /\ more[i] = res[i]) \/ (i = Len(res) + 1 /\ more[i] = p)
  BY <1>1
<1>4. \A i \in DOMAIN res : res[i] # p /\ Held(res[i]) \cap Held(p) = {}
  BY DEF Sound, Apart
<1>5. ResultsSound(more, n, q)
  <2>1. p.seq = q /\ q \in Nat /\ Held(p) \subseteq 1..n /\ (p.kind = "batch" => Distinct(p.data))
    BY DEF Sound, HoldsSound
  <2>2. \A i \in DOMAIN more :
          /\ more[i].seq <= q /\ Held(more[i]) \subseteq 1..n
          /\ more[i].kind = "batch" => Distinct(more[i].data)
    BY <1>3, <2>1 DEF Sound, ResultsSound
  <2>3. ASSUME NEW i \in DOMAIN more, NEW j \in DOMAIN more, i # j
        PROVE  more[i].seq # more[j].seq /\ Held(more[i]) \cap Held(more[j]) = {}
    <3>1. CASE i \in DOMAIN res /\ j \in DOMAIN res
      BY <3>1, <2>3, <1>1 DEF Sound, ResultsSound
    <3>2. CASE i \in DOMAIN res /\ j = Len(res) + 1
      BY <3>2, <1>1, <1>4
    <3>3. CASE i = Len(res) + 1 /\ j \in DOMAIN res
      BY <3>3, <1>1, <1>4
    <3> QED BY <3>1, <3>2, <3>3, <1>3, <2>3
  <2> QED BY <1>1, <2>2, <2>3 DEF ResultsSound
<1>6. Apart(b, r, p, more)
  BY <1>3 DEF Sound, Apart
<1>7. Accounted(b, r, p, more, n, lost)
  BY <1>2 DEF Sound, Accounted
<1> QED BY <1>5, <1>6, <1>7 DEF more, Sound

\* The envelope that is stored is no longer pending.
LEMMA SoundCleared ==
  ASSUME NEW b, NEW r, NEW p, NEW res, NEW n, NEW lost, NEW q,
         Sound(b, r, p, res, n, lost, q), p.kind # "none",
         \E i \in DOMAIN res : res[i].seq = p.seq,
         ToSet(r) \cap Held(p) = {}
  PROVE  Sound(b, r, NoEnvelope, res, n, lost, q)
<1>1. PICK k \in DOMAIN res : res[k].seq = p.seq
  OBVIOUS
<1>2. res[k] = p
  BY <1>1 DEF Sound, Apart
<1>3. Held(p) \subseteq RowsOf(res)
  BY <1>2 DEF RowsOf
<1>4. NoEnvelope.kind = "none" /\ Held(NoEnvelope) = {}
  BY EnvelopeShape
<1>5. HoldsSound(b, r, NoEnvelope, n, q)
  BY <1>4 DEF Sound, HoldsSound
<1>6. Apart(b, r, NoEnvelope, res)
  <2> SUFFICES ASSUME NEW i \in DOMAIN res
               PROVE  Held(res[i]) \cap (ToSet(b) \cup ToSet(r)) = {}
    BY <1>4 DEF Apart
  <2>1. CASE res[i].seq = p.seq
    <3>1. res[i] = p /\ ToSet(b) \cap Held(p) = {}
      BY <2>1 DEF Sound, Apart, HoldsSound
    <3> QED BY <3>1
  <2>2. CASE res[i].seq # p.seq
    BY <2>2 DEF Sound, Apart
  <2> QED BY <2>1, <2>2
<1>7. Accounted(b, r, NoEnvelope, res, n, lost)
  BY <1>3, <1>4 DEF Sound, Accounted
<1> QED BY <1>5, <1>6, <1>7 DEF Sound

\* A batch that is pending may also be kept for the next flush, or no longer be.
LEMMA SoundKept ==
  ASSUME NEW b, NEW r, NEW p, NEW res, NEW n, NEW lost, NEW q,
         Sound(b, r, p, res, n, lost, q), p.kind = "batch",
         r = <<>> \/ r = p.data
  PROVE  Sound(b, p.data, p, res, n, lost, q) /\ Sound(b, <<>>, p, res, n, lost, q)
<1> DEFINE none == <<>>
<1>1. none = <<>> /\ none \in Seq(Nat)
  OBVIOUS
<1> HIDE DEF none
<1>2. ToSet(none) = {} /\ Distinct(none)
  BY <1>1, NothingInEmpty
<1>3. ToSet(p.data) = Held(p) /\ p.data \in Seq(Nat)
  BY DEF Held, Sound, HoldsSound, Envelopes, Batches, Summaries, NoEnvelope
<1>4. ToSet(r) \subseteq Held(p)
  BY <1>1, <1>2, <1>3
<1>5. HoldsSound(b, p.data, p, n, q) /\ HoldsSound(b, none, p, n, q)
  BY <1>2, <1>3, <1>1 DEF Sound, HoldsSound
<1>6. Apart(b, p.data, p, res) /\ Apart(b, none, p, res)
  BY <1>2, <1>3, <1>4 DEF Sound, Apart
<1>7. Accounted(b, p.data, p, res, n, lost) /\ Accounted(b, none, p, res, n, lost)
  BY <1>2, <1>3, <1>4 DEF Sound, Accounted
<1> QED BY <1>1, <1>5, <1>6, <1>7 DEF Sound

\* A batch that was refused is kept for the next flush.
LEMMA SoundRefused ==
  ASSUME NEW b, NEW r, NEW p, NEW res, NEW n, NEW lost, NEW q,
         Sound(b, r, p, res, n, lost, q), p.kind = "batch",
         r = <<>> \/ r = p.data, \A i \in DOMAIN res : res[i].seq # p.seq
  PROVE  Sound(b, p.data, NoEnvelope, res, n, lost, q)
<1>1. ToSet(p.data) = Held(p) /\ p.data \in Seq(Nat)
  BY DEF Held, Sound, HoldsSound, Envelopes, Batches, Summaries, NoEnvelope
<1>2. NoEnvelope.kind = "none" /\ Held(NoEnvelope) = {}
  BY EnvelopeShape
<1>3. Sound(b, p.data, p, res, n, lost, q)
  BY SoundKept
<1>4. HoldsSound(b, p.data, NoEnvelope, n, q)
  BY <1>1, <1>2, <1>3 DEF Sound, HoldsSound
<1>5. Apart(b, p.data, NoEnvelope, res)
  BY <1>1, <1>2, <1>3 DEF Sound, Apart
<1>6. Accounted(b, p.data, NoEnvelope, res, n, lost)
  BY <1>1, <1>2, <1>3 DEF Sound, Accounted
<1> QED BY <1>3, <1>4, <1>5, <1>6 DEF Sound

\* A row that was refused is given up.
LEMMA SoundGivenUp ==
  ASSUME NEW b, NEW r, NEW p, NEW res, NEW n, NEW lost, NEW q,
         Sound(b, r, p, res, n, lost, q), p.kind = "batch",
         ToSet(r) \cap Held(p) = {}, \A i \in DOMAIN res : res[i].seq # p.seq
  PROVE  Sound(b, r, NoEnvelope, res, n, lost \cup ToSet(p.data), q)
<1>1. ToSet(p.data) = Held(p) /\ p.data \in Seq(Nat)
  BY DEF Held, Sound, HoldsSound, Envelopes, Batches, Summaries, NoEnvelope
<1>2. NoEnvelope.kind = "none" /\ Held(NoEnvelope) = {}
  BY EnvelopeShape
<1>4. HoldsSound(b, r, NoEnvelope, n, q)
  BY <1>1, <1>2 DEF Sound, HoldsSound
<1>5. Apart(b, r, NoEnvelope, res)
  BY <1>1, <1>2 DEF Sound, Apart
<1>6. Accounted(b, r, NoEnvelope, res, n, lost \cup ToSet(p.data))
  BY <1>1, <1>2 DEF Sound, Accounted, HoldsSound
<1> QED BY <1>4, <1>5, <1>6 DEF Sound

\* A new row at the end of the buffer.
LEMMA SoundBuffered ==
  ASSUME NEW b, NEW r, NEW p, NEW res, NEW n, NEW lost, NEW q,
         Sound(b, r, p, res, n, lost, q)
  PROVE  Sound(Append(b, n + 1), r, p, res, n + 1, lost, q)
<1> DEFINE more == Append(b, n + 1)
<1>0. n \in Nat /\ b \in Seq(Nat) /\ 1..n + 1 = 1..n \cup {n + 1} /\ n + 1 \notin 1..n /\ n + 1 \in Nat
  BY DEF Sound, HoldsSound
<1>1. /\ more \in Seq(Nat) /\ DOMAIN more = 1..Len(b) + 1 /\ DOMAIN b = 1..Len(b) /\ Len(b) \in Nat
      /\ more[Len(b) + 1] = n + 1 /\ \A i \in DOMAIN b : more[i] = b[i]
      /\ ToSet(more) = ToSet(b) \cup {n + 1}
  BY <1>0, AppendSet
<1> HIDE DEF more
<1>2. \A i \in DOMAIN b : b[i] # n + 1
  BY <1>0 DEF Sound, HoldsSound, ToSet
<1>3. Distinct(more)
  <2>1. \A i \in DOMAIN more : (i \in DOMAIN b /\ more[i] = b[i]) \/ (i = Len(b) + 1 /\ more[i] = n + 1)
    BY <1>1
  <2>2. Distinct(b)
    BY DEF Sound, HoldsSound
  <2> QED BY <2>1, <2>2, <1>2 DEF Distinct
<1>4. HoldsSound(more, r, p, n + 1, q)
  BY <1>0, <1>1, <1>3 DEF Sound, HoldsSound
<1>5. ResultsSound(res, n + 1, q)
  BY <1>0 DEF Sound, ResultsSound
<1>6. Apart(more, r, p, res)
  <2>1. \A i \in DOMAIN res : n + 1 \notin Held(res[i])
    BY <1>0 DEF Sound, ResultsSound
  <2> QED BY <1>1, <2>1 DEF Sound, Apart
<1>7. Accounted(more, r, p, res, n + 1, lost)
  BY <1>0, <1>1 DEF Sound, Accounted
<1> QED BY <1>4, <1>5, <1>6, <1>7 DEF Sound, more

\* The oldest row of the buffer gives way.
LEMMA SoundOverflow ==
  ASSUME NEW b, NEW r, NEW p, NEW res, NEW n, NEW lost, NEW q,
         Sound(b, r, p, res, n, lost, q), b # <<>>
  PROVE  Sound(Tail(b), r, p, res, n, lost \cup {Head(b)}, q)
<1> DEFINE rest == Tail(b)
<1>0. b \in Seq(Nat) /\ Distinct(b)
  BY DEF Sound, HoldsSound
<1>1. /\ rest \in Seq(Nat) /\ Len(b) \in Nat \ {0}
      /\ DOMAIN b = 1..Len(b) /\ DOMAIN rest = 1..Len(b) - 1
      /\ \A i \in DOMAIN rest : rest[i] = b[i + 1]
      /\ ToSet(b) = {Head(b)} \cup ToSet(rest)
  BY <1>0, TailSet
<1> HIDE DEF rest
<1>2. Distinct(rest)
  <2> SUFFICES ASSUME NEW k \in DOMAIN rest, NEW l \in DOMAIN rest, rest[k] = rest[l] PROVE k = l
    BY DEF Distinct
  <2>1. k + 1 \in DOMAIN b /\ l + 1 \in DOMAIN b /\ b[k + 1] = b[l + 1] /\ k \in Int /\ l \in Int
    BY <1>1
  <2>2. k + 1 = l + 1
    BY <2>1, <1>0 DEF Distinct
  <2> QED BY <2>1, <2>2
<1>3. HoldsSound(rest, r, p, n, q)
  BY <1>1, <1>2 DEF Sound, HoldsSound
<1>4. Apart(rest, r, p, res)
  BY <1>1 DEF Sound, Apart
<1>5. Accounted(rest, r, p, res, n, lost \cup {Head(b)})
  BY <1>1 DEF Sound, Accounted, HoldsSound
<1> QED BY <1>3, <1>4, <1>5 DEF Sound, rest

\* A new row that cannot be sent is given up.
LEMMA SoundUnsent ==
  ASSUME NEW b, NEW r, NEW p, NEW res, NEW n, NEW lost, NEW q,
         Sound(b, r, p, res, n, lost, q)
  PROVE  Sound(b, r, p, res, n + 1, lost \cup {n + 1}, q)
<1>0. n \in Nat /\ 1..n + 1 = 1..n \cup {n + 1} /\ n + 1 \in Nat
  BY DEF Sound, HoldsSound
<1>1. HoldsSound(b, r, p, n + 1, q)
  BY <1>0 DEF Sound, HoldsSound
<1>2. ResultsSound(res, n + 1, q)
  BY <1>0 DEF Sound, ResultsSound
<1>3. Accounted(b, r, p, res, n + 1, lost \cup {n + 1})
  BY <1>0 DEF Sound, Accounted
<1> QED BY <1>1, <1>2, <1>3 DEF Sound

\* An envelope that is new has a number no result has.
LEMMA FreshNumber ==
  ASSUME NEW b, NEW r, NEW p, NEW res, NEW n, NEW lost, NEW q,
         Sound(b, r, p, res, n, lost, q)
  PROVE  /\ q \in Nat /\ q + 1 \in Nat \ {0}
         /\ \A i \in DOMAIN res : res[i].seq # q + 1 /\ res[i].seq <= q + 1 /\ res[i] \in Envelopes
         /\ ResultsSound(res, n, q + 1)
<1>1. q \in Nat
  BY DEF Sound, HoldsSound
<1>2. \A i \in DOMAIN res : res[i] \in Envelopes /\ res[i].seq \in Nat /\ res[i].seq <= q
  BY EnvelopeShape DEF Sound, ResultsSound
<1>3. \A i \in DOMAIN res : res[i].seq # q + 1 /\ res[i].seq <= q + 1
  BY <1>1, <1>2
<1>4. ResultsSound(res, n, q + 1)
  BY <1>1, <1>3 DEF Sound, ResultsSound
<1> QED BY <1>1, <1>2, <1>3, <1>4

\* A new row is sent at once.
LEMMA SoundSent ==
  ASSUME NEW b, NEW r, NEW res, NEW n, NEW lost, NEW q,
         Sound(b, r, NoEnvelope, res, n, lost, q)
  PROVE  Sound(b, r, [kind |-> "batch", data |-> <<n + 1>>, seq |-> q + 1], res, n + 1, lost, q + 1)
<1> DEFINE p == [kind |-> "batch", data |-> <<n + 1>>, seq |-> q + 1]
<1>0. n \in Nat /\ 1..n + 1 = 1..n \cup {n + 1} /\ n + 1 \notin 1..n /\ n + 1 \in Nat
  BY DEF Sound, HoldsSound
<1>1. /\ q \in Nat /\ q + 1 \in Nat \ {0}
      /\ \A i \in DOMAIN res : res[i].seq # q + 1
      /\ ResultsSound(res, n, q + 1)
  BY FreshNumber
<1>2. <<n + 1>> \in Seq(Nat) /\ <<n + 1>> # <<>> /\ ToSet(<<n + 1>>) = {n + 1} /\ Distinct(<<n + 1>>)
  BY <1>0, OneRow
<1>3. /\ p.kind = "batch" /\ p.data = <<n + 1>> /\ p.seq = q + 1 /\ p \in Envelopes
      /\ Held(p) = {n + 1}
  BY <1>1, <1>2 DEF Envelopes, Batches, Held
<1>4. NoEnvelope.kind = "none" /\ Held(NoEnvelope) = {}
  BY EnvelopeShape
<1> HIDE DEF p
<1>5. HoldsSound(b, r, p, n + 1, q + 1)
  <2>1. n + 1 \notin ToSet(b) \cup ToSet(r)
    BY <1>0 DEF Sound, HoldsSound
  <2> QED BY <1>0, <1>1, <1>2, <1>3, <1>4, <2>1 DEF Sound, HoldsSound
<1>6. ResultsSound(res, n + 1, q + 1)
  BY <1>0, <1>1 DEF ResultsSound
<1>7. Apart(b, r, p, res)
  <2>1. \A i \in DOMAIN res : n + 1 \notin Held(res[i])
    BY <1>0 DEF Sound, ResultsSound
  <2> QED BY <1>1, <1>3, <1>4, <2>1 DEF Sound, Apart
<1>8. Accounted(b, r, p, res, n + 1, lost)
  BY <1>0, <1>3, <1>4 DEF Sound, Accounted
<1> QED BY <1>5, <1>6, <1>7, <1>8 DEF Sound, p

\* A flush takes the batch that failed, or else the buffer.
LEMMA SoundTaken ==
  ASSUME NEW b, NEW r, NEW res, NEW n, NEW lost, NEW q,
         Sound(b, r, NoEnvelope, res, n, lost, q)
  PROVE  /\ r # <<>> => Sound(b, r, [kind |-> "batch", data |-> r, seq |-> q + 1], res, n, lost, q + 1)
         /\ r = <<>> /\ b # <<>> =>
              Sound(<<>>, r, [kind |-> "batch", data |-> b, seq |-> q + 1], res, n, lost, q + 1)
<1> DEFINE p(d) == [kind |-> "batch", data |-> d, seq |-> q + 1]
           none == <<>>
<1>1. /\ q \in Nat /\ q + 1 \in Nat \ {0}
      /\ \A i \in DOMAIN res : res[i].seq # q + 1
      /\ ResultsSound(res, n, q + 1)
  BY FreshNumber
<1>2. NoEnvelope.kind = "none" /\ Held(NoEnvelope) = {}
  BY EnvelopeShape
<1>3. none = <<>> /\ none \in Seq(Nat)
  OBVIOUS
<1>4. ASSUME NEW d \in Seq(Nat)
      PROVE  /\ p(d).kind = "batch" /\ p(d).data = d /\ p(d).seq = q + 1 /\ p(d) \in Envelopes
             /\ Held(p(d)) = ToSet(d)
  BY <1>1 DEF Envelopes, Batches, Held
<1> HIDE DEF none, p
<1>5. ToSet(none) = {} /\ Distinct(none)
  BY <1>3, NothingInEmpty
<1>6. b \in Seq(Nat) /\ r \in Seq(Nat)
  BY DEF Sound, HoldsSound
<1>7. ASSUME r # none PROVE Sound(b, r, p(r), res, n, lost, q + 1)
  <2>1. HoldsSound(b, r, p(r), n, q + 1)
    BY <1>1, <1>2, <1>3, <1>4, <1>6, <1>7 DEF Sound, HoldsSound
  <2>2. Apart(b, r, p(r), res)
    BY <1>1, <1>2, <1>4, <1>6 DEF Sound, Apart
  <2>3. Accounted(b, r, p(r), res, n, lost)
    BY <1>2, <1>4, <1>6 DEF Sound, Accounted
  <2> QED BY <1>1, <2>1, <2>2, <2>3 DEF Sound
<1>8. ASSUME r = none, b # none PROVE Sound(none, r, p(b), res, n, lost, q + 1)
  <2>0. ToSet(r) = {}
    BY <1>5, <1>8
  <2>1. HoldsSound(none, r, p(b), n, q + 1)
    BY <2>0, <1>1, <1>2, <1>3, <1>4, <1>5, <1>6, <1>8 DEF Sound, HoldsSound
  <2>2. Apart(none, r, p(b), res)
    BY <2>0, <1>1, <1>2, <1>4, <1>5, <1>6 DEF Sound, Apart
  <2>3. Accounted(none, r, p(b), res, n, lost)
    BY <2>0, <1>2, <1>4, <1>5, <1>6 DEF Sound, Accounted
  <2> QED BY <1>1, <2>1, <2>2, <2>3 DEF Sound
<1> QED BY <1>3, <1>7, <1>8 DEF p

\* A flush that could not send keeps the buffer's rows apart.
LEMMA SoundSetApart ==
  ASSUME NEW b, NEW r, NEW p, NEW res, NEW n, NEW lost, NEW q,
         Sound(b, r, p, res, n, lost, q), r = <<>>
  PROVE  Sound(r, b, p, res, n, lost, q)
<1>1. r \in Seq(Nat)
  BY DEF Sound, HoldsSound
<1>2. ToSet(r) = {} /\ Distinct(r)
  BY <1>1, NothingInEmpty
<1>3. HoldsSound(r, b, p, n, q)
  BY <1>1, <1>2 DEF Sound, HoldsSound
<1>4. Apart(r, b, p, res)
  BY <1>2 DEF Sound, Apart
<1>5. Accounted(r, b, p, res, n, lost)
  BY <1>2 DEF Sound, Accounted
<1> QED BY <1>3, <1>4, <1>5 DEF Sound

\* The rows that are held back are given up.
LEMMA SoundDiscarded ==
  ASSUME NEW b, NEW r, NEW p, NEW res, NEW n, NEW lost, NEW q,
         Sound(b, r, p, res, n, lost, q), NEW none, none = <<>>
  PROVE  Sound(none, none, p, res, n, lost \cup ToSet(b) \cup ToSet(r), q)
<1>1. none \in Seq(Nat)
  OBVIOUS
<1>2. ToSet(none) = {} /\ Distinct(none)
  BY <1>1, NothingInEmpty
<1>3. HoldsSound(none, none, p, n, q)
  BY <1>1, <1>2 DEF Sound, HoldsSound
<1>4. Apart(none, none, p, res)
  BY <1>2 DEF Sound, Apart
<1>5. Accounted(none, none, p, res, n, lost \cup ToSet(b) \cup ToSet(r))
  BY <1>2 DEF Sound, Accounted, HoldsSound
<1> QED BY <1>3, <1>4, <1>5 DEF Sound

\* The summary is pending.
LEMMA SoundSummary ==
  ASSUME NEW b, NEW r, NEW res, NEW n, NEW lost, NEW q, NEW o \in Outcomes,
         Sound(b, r, NoEnvelope, res, n, lost, q)
  PROVE  Sound(b, r, [kind |-> "summary", data |-> <<"status", o>>, seq |-> q + 1], res, n, lost, q + 1)
<1> DEFINE p == [kind |-> "summary", data |-> <<"status", o>>, seq |-> q + 1]
<1>1. /\ q \in Nat /\ q + 1 \in Nat \ {0}
      /\ \A i \in DOMAIN res : res[i].seq # q + 1
      /\ ResultsSound(res, n, q + 1)
  BY FreshNumber
<1>2. NoEnvelope.kind = "none" /\ Held(NoEnvelope) = {}
  BY EnvelopeShape
<1>3. p.kind = "summary" /\ p.seq = q + 1 /\ p \in Envelopes /\ Held(p) = {}
  BY <1>1 DEF Envelopes, Summaries, Held
<1> HIDE DEF p
<1>4. HoldsSound(b, r, p, n, q + 1)
  BY <1>1, <1>2, <1>3 DEF Sound, HoldsSound
<1>5. Apart(b, r, p, res)
  BY <1>1, <1>2, <1>3 DEF Sound, Apart
<1>6. Accounted(b, r, p, res, n, lost)
  BY <1>2, <1>3 DEF Sound, Accounted
<1> QED BY <1>1, <1>4, <1>5, <1>6 DEF Sound, p

-----------------------------------------------------------------------------
(* The request in flight and its effect on the server.                      *)

\* The rows the server has are those of its results.
LEMMA Rows == StoredRows = RowsOf(server.results)
  BY DEF StoredRows, RowsOf, Held

\* The same after a step.
LEMMA RowsNext == StoredRows' = RowsOf(server'.results)
  BY DEF StoredRows, RowsOf, Held

\* While a flush or the executor is at work there is no summary.
LEMMA Unfinished ==
  ASSUME WorkerInv, chain # <<>> \/ phase \notin Late
  PROVE  /\ pending.kind # "summary" /\ Stored("summary") = {} /\ phase # "status"
         /\ server.status # "done" /\ ~Complete
<1>1. Stored("summary") = {}
  BY DEF WorkerInv, EndSound
<1>2. ~Complete
  BY <1>1 DEF Complete
<1>3. pending.kind # "summary"
  BY DEF WorkerInv, EndSound
<1>4. phase # "status"
  BY <1>1 DEF WorkerInv, EndSound
<1>5. server.status # "done"
  BY <1>2 DEF WorkerInv, EndSound
<1> QED BY <1>1, <1>2, <1>3, <1>4, <1>5

\* A request carries what is pending.
LEMMA RequestShape ==
  ASSUME WorkerInv, NEW c \in {"flush", "step", "summary"}, InFlight(c)
  PROVE  /\ posts[c].kind = pending.kind /\ posts[c].data = pending.data /\ posts[c].seq = pending.seq
         /\ posts[c].attempt \in 1..faults + 1
         /\ pending.kind = IF c = "summary" THEN "summary" ELSE "batch"
         /\ pending \in Envelopes /\ pending.seq = seqno
<1>1. Carries(c) /\ pending.kind = IF c = "summary" THEN "summary" ELSE "batch"
  BY DEF WorkerInv, Carried
<1>2. PICK n \in 1..faults + 1 :
        posts[c] = [kind |-> pending.kind, data |-> pending.data, seq |-> pending.seq, attempt |-> n]
  BY <1>1 DEF Carries
<1>3. pending \in Envelopes /\ pending.seq = seqno
  BY <1>1, EnvelopeShape DEF WorkerInv, RowsSound, Sound, HoldsSound
<1> QED BY <1>1, <1>2, <1>3

\* What the server does with a result.
LEMMA ResultApplied ==
  ASSUME WorkerInv, NEW c \in {"flush", "step", "summary"}, InFlight(c),
         server' = server \/ server' = Apply(server, posts[c])
  PROVE  /\ server' \in Servers /\ server'.status = server.status
         /\ \/ server'.results = server.results
            \/ /\ server'.results = Append(server.results, pending)
               /\ \A i \in DOMAIN server.results : server.results[i].seq # pending.seq
         /\ server' = Apply(server, posts[c]) /\ server.status = "running" =>
              \E i \in DOMAIN server'.results : server'.results[i].seq = pending.seq
<1>1. /\ posts[c].kind = pending.kind /\ posts[c].data = pending.data /\ posts[c].seq = pending.seq
      /\ pending.kind # "status" /\ pending \in Envelopes
      /\ pending = [kind |-> pending.kind, data |-> pending.data, seq |-> pending.seq]
  BY RequestShape, EnvelopeShape
<1>2. server \in Servers /\ server.results \in Seq(Envelopes)
  BY DEF WorkerInv, WorkerTyped, Servers
<1> DEFINE known == \E i \in DOMAIN server.results : server.results[i].seq = pending.seq
<1>3. CASE server.status # "running" \/ known \/ server' = server
  <2>1. server' = server
    BY <1>1, <1>3 DEF Apply
  <2>2. server' = Apply(server, posts[c]) /\ server.status = "running" => server' = server
    BY <2>1
  <2>3. CASE known
    BY <2>1, <2>3, <1>2
  <2>4. CASE ~known
    <3>1. server.status = "running" => server # Apply(server, posts[c])
      <4> SUFFICES ASSUME server.status = "running" PROVE server # Apply(server, posts[c])
        OBVIOUS
      <4>1. Apply(server, posts[c]) = [server EXCEPT !.results = Append(@, pending)]
        BY <2>4, <1>1 DEF Apply
      <4>2. [server EXCEPT !.results = Append(@, pending)].results = Append(server.results, pending)
        BY <1>2 DEF Servers
      <4>3. Len(Append(server.results, pending)) # Len(server.results)
        BY <1>1, <1>2, AppendSet
      <4> QED BY <4>1, <4>2, <4>3
    <3> QED BY <2>1, <3>1, <1>2
  <2> QED BY <2>3, <2>4
<1>4. CASE server.status = "running" /\ ~known /\ server' # server
  <2>1. server' = [server EXCEPT !.results = Append(@, pending)]
    BY <1>1, <1>4 DEF Apply
  <2>2. /\ Append(server.results, pending) \in Seq(Envelopes)
        /\ Len(server.results) + 1 \in DOMAIN Append(server.results, pending)
        /\ Append(server.results, pending)[Len(server.results) + 1] = pending
    BY <1>1, <1>2, AppendSet
  <2>3. /\ server' \in Servers /\ server'.status = server.status
        /\ server'.results = Append(server.results, pending)
    BY <2>1, <2>2, <1>2 DEF Servers
  <2> QED BY <2>2, <2>3, <1>4
<1> QED BY <1>3, <1>4

\* What the server knows of the rows stays sound.
LEMMA ResultSound ==
  ASSUME WorkerInv, NEW c \in {"flush", "step", "summary"}, InFlight(c),
         server' = server \/ server' = Apply(server, posts[c])
  PROVE  /\ Sound(buffer, retry, pending, server'.results, produced, dropped, seqno)
         /\ RowsOf(server.results) \subseteq RowsOf(server'.results)
<1>1. \/ server'.results = server.results
      \/ /\ server'.results = Append(server.results, pending)
         /\ \A i \in DOMAIN server.results : server.results[i].seq # pending.seq
  BY ResultApplied
<1>2. pending.kind # "none" /\ pending \in Envelopes
  BY RequestShape
<1>3. server.results \in Seq(Envelopes)
  BY DEF WorkerInv, WorkerTyped, Servers
<1>4. Sound(buffer, retry, pending, server.results, produced, dropped, seqno)
  BY DEF WorkerInv, RowsSound
<1>5. CASE server'.results = server.results
  BY <1>5, <1>4
<1>6. CASE /\ server'.results = Append(server.results, pending)
           /\ \A i \in DOMAIN server.results : server.results[i].seq # pending.seq
  BY <1>6, <1>4, <1>2, <1>3, SoundStored, RowsOfAppend
<1> QED BY <1>1, <1>5, <1>6

\* A batch is no summary.
LEMMA BatchApplied ==
  ASSUME WorkerInv, NEW c \in {"flush", "step"}, InFlight(c),
         server' = server \/ server' = Apply(server, posts[c])
  PROVE  Stored("summary")' = {} /\ server'.status # "done"
<1>1. pending.kind = "batch" /\ pending \in Envelopes
  BY RequestShape
<1>2. chain # <<>> \/ phase \notin Late
  BY DEF WorkerInv, Carried, Late
<1>3. Stored("summary") = {} /\ server.status # "done"
  BY <1>2, Unfinished
<1>4. /\ server'.status = server.status
      /\ server'.results = server.results \/ server'.results = Append(server.results, pending)
  BY ResultApplied
<1>5. server.results \in Seq(Envelopes)
  BY DEF WorkerInv, WorkerTyped, Servers
<1>6. ASSUME NEW i \in DOMAIN server'.results PROVE server'.results[i].kind # "summary"
  <2>1. \A k \in DOMAIN server.results : server.results[k].kind # "summary"
    BY <1>3 DEF Stored
  <2>2. CASE server'.results = server.results
    BY <2>1, <2>2
  <2>3. CASE server'.results = Append(server.results, pending)
    <3>1. i \in DOMAIN server.results \/ i = Len(server.results) + 1
      BY <2>3, <1>1, <1>5, AppendSet
    <3> QED BY <3>1, <2>1, <2>3, <1>1, <1>5, AppendSet
  <2> QED BY <2>2, <2>3, <1>4
<1> QED BY <1>3, <1>4, <1>6 DEF Stored

-----------------------------------------------------------------------------
(* A flush, a step, the summary or the status settles.                      *)

\* What is left of the chain.
LEMMA ChainTail ==
  ASSUME WorkerTyped, ChainSound, chain # <<>>
  PROVE  /\ Tail(chain) \in Seq(Owners) /\ Head(chain) \in Owners
         /\ \A i \in DOMAIN Tail(chain) : \E k \in DOMAIN chain : k # 1 /\ Tail(chain)[i] = chain[k]
         /\ 1 \in DOMAIN chain /\ chain[1] = Head(chain)
         /\ \A i, j \in DOMAIN Tail(chain) :
              i # j => Tail(chain)[i] = "tick" \/ Tail(chain)[j] = "tick"
         /\ Head(chain) # "tick" => \A i \in DOMAIN Tail(chain) : Tail(chain)[i] = "tick"
<1>0. chain \in Seq(Owners)
  BY DEF WorkerTyped
<1>1. /\ Tail(chain) \in Seq(Owners) /\ Head(chain) \in Owners
      /\ DOMAIN chain = 1..Len(chain) /\ DOMAIN Tail(chain) = 1..Len(chain) - 1 /\ Len(chain) \in Nat \ {0}
      /\ \A i \in DOMAIN Tail(chain) : Tail(chain)[i] = chain[i + 1]
      /\ Head(chain) = chain[1]
  BY <1>0, TailSet
<1>2. \A i \in DOMAIN Tail(chain) : i + 1 \in DOMAIN chain /\ i + 1 # 1 /\ i \in Int
  BY <1>1
<1>3. 1 \in DOMAIN chain
  BY <1>1
<1>4. \A i, j \in DOMAIN Tail(chain) :
         i # j => Tail(chain)[i] = "tick" \/ Tail(chain)[j] = "tick"
  <2> SUFFICES ASSUME NEW i \in DOMAIN Tail(chain), NEW j \in DOMAIN Tail(chain), i # j
               PROVE  Tail(chain)[i] = "tick" \/ Tail(chain)[j] = "tick"
    OBVIOUS
  <2>1. i + 1 \in DOMAIN chain /\ j + 1 \in DOMAIN chain /\ i + 1 # j + 1
    BY <1>2
  <2>2. chain[i + 1] = "tick" \/ chain[j + 1] = "tick"
    BY <2>1 DEF ChainSound
  <2> QED BY <2>2, <1>1
<1>5. Head(chain) # "tick" => \A i \in DOMAIN Tail(chain) : Tail(chain)[i] = "tick"
  BY <1>1, <1>2, <1>3 DEF ChainSound
<1> QED BY <1>1, <1>2, <1>3, <1>4, <1>5

\* The flush at the head of the chain is over: its owner goes on, a tick has none.
LEMMA FlushOver ==
  ASSUME WorkerInv, chain # <<>>, Head(chain) # "discard", NEW ok \in BOOLEAN, FlushReturns(ok)
  PROVE  /\ chain' \in Seq(Owners) /\ phase' \in Phases /\ result' \in Outcomes /\ ChainSound'
         /\ result' = "cancelled" => taskAborted
         /\ \/ phase' = phase /\ result' = result
            \/ /\ phase \in {"flushing", "draining"} /\ phase' \in {"steps", "drain", "summary"}
               /\ phase' = "summary" /\ result' = "success" => ok
<1>0. WorkerTyped /\ ChainSound /\ phase \in Phases /\ result \in Outcomes /\ chain' = Tail(chain)
  BY DEF WorkerInv, WorkerTyped, FlushReturns
<1>1. /\ Tail(chain) \in Seq(Owners) /\ Head(chain) \in Owners
      /\ \A i \in DOMAIN Tail(chain) : \E k \in DOMAIN chain : k # 1 /\ Tail(chain)[i] = chain[k]
      /\ 1 \in DOMAIN chain /\ chain[1] = Head(chain)
      /\ \A i, j \in DOMAIN Tail(chain) :
           i # j => Tail(chain)[i] = "tick" \/ Tail(chain)[j] = "tick"
      /\ Head(chain) # "tick" => \A i \in DOMAIN Tail(chain) : Tail(chain)[i] = "tick"
  BY <1>0, ChainTail
<1>2. CASE Head(chain) = "tick"
  <2>1. phase' = phase /\ result' = result
    BY <1>2 DEF FlushReturns
  <2>2. ChainSound'
    BY <1>0, <1>1, <2>1 DEF ChainSound
  <2> QED BY <1>0, <1>1, <2>1, <2>2 DEF WorkerInv, EndSound
<1>3. CASE Head(chain) # "tick"
  <2>1. Head(chain) \in {"step", "drain"}
    BY <1>1, <1>3 DEF Owners
  <2>2. ChainSound'
    BY <1>0, <1>1, <1>3 DEF ChainSound
  <2>3. Head(chain) = "step" => phase = "flushing"
    BY <1>0, <1>1 DEF ChainSound
  <2>4. Head(chain) = "drain" => phase = "draining"
    BY <1>0, <1>1 DEF ChainSound
  <2>5. Head(chain) = "step" => phase' \in {"steps", "drain"} /\ result' \in {result, "failure"}
    BY DEF FlushReturns, StepFailed
  <2>6. Head(chain) = "drain" => phase' = "summary" /\ result' = IF ok THEN result ELSE "failure"
    BY DEF FlushReturns
  <2>7. result' \in {result, "failure"} /\ phase' \in {"steps", "drain", "summary"}
    BY <2>1, <2>5, <2>6
  <2> QED BY <1>0, <1>1, <2>1, <2>2, <2>3, <2>4, <2>5, <2>6, <2>7 DEF WorkerInv, EndSound, Phases, Outcomes
<1> QED BY <1>2, <1>3

\* Before there is a summary little is to be shown of the end.
LEMMA BeforeTheEnd ==
  ASSUME pending'.kind # "summary", Stored("summary")' = {}, phase' # "status", server'.status # "done",
         result' = "cancelled" => taskAborted',
         phase' \in {"summary", "summarizing"} /\ result' = "success" =>
           buffer' = <<>> /\ retry' = <<>> /\ ~InFlight("flush")'
  PROVE  EndSound' /\ SummaryIsLast'
  BY DEF EndSound, SummaryIsLast

\* A request for which its caller has stopped waiting.
LEMMA CalleeGone ==
  ASSUME WorkerTyped, NEW c \in Callers, Callee(c)
  PROVE  /\ posts' \in [Callers -> Posts] /\ ~InFlight(c)'
         /\ \A d \in Callers : d # c => posts'[d] = posts[d] /\ (InFlight(d)' <=> InFlight(d))
<1>1. NoPost \in Posts /\ NoPost.kind = "none"
  BY DEF Posts, NoPost
<1>2. posts \in [Callers -> Posts]
  BY DEF WorkerTyped
<1>3. posts' = [posts EXCEPT ![c] = NoPost]
  BY DEF Callee
<1>4. posts' \in [Callers -> Posts] /\ posts'[c] = NoPost /\ \A d \in Callers : d # c => posts'[d] = posts[d]
  BY <1>1, <1>2, <1>3
<1>5. (InFlight(c)' <=> posts'[c].kind # "none")
  BY DEF InFlight
<1>6. ASSUME NEW d \in Callers, d # c PROVE InFlight(d)' <=> InFlight(d)
  BY <1>4, <1>6 DEF InFlight
<1> QED BY <1>1, <1>4, <1>5, <1>6

\* An attempt stays one as the faults grow.
LEMMA MoreAttempts ==
  ASSUME NEW f \in Nat, NEW g \in Nat, f <= g
  PROVE  1..f + 1 \subseteq 1..g + 1
  OBVIOUS

\* The request of a flush is over.
LEMMA FlushSettled ==
  ASSUME WorkerInv, InFlight("flush"), server' = server \/ server' = Apply(server, posts["flush"]),
         Callee("flush"), UNCHANGED <<produced, buffer, taskAborted>>,
         faults' \in {faults, faults + 1}, faults' <= MaxFaults, RowsSound',
         pending' = pending \/ pending' = NoEnvelope,
         NEW ok \in BOOLEAN, FlushReturns(ok) \/ UNCHANGED <<phase, result, chain>>,
         ok => buffer = <<>> /\ retry' = <<>>
  PROVE  WorkerInv'
<1>0. chain # <<>> /\ Head(chain) # "discard" /\ pending.kind = "batch" /\ ~InFlight("step")
      /\ ~InFlight("summary")
  BY DEF WorkerInv, Carried
<1>1. /\ pending.kind # "summary" /\ Stored("summary") = {} /\ phase # "status"
      /\ server.status # "done" /\ ~Complete
  BY <1>0, Unfinished
<1>2. server' \in Servers /\ server'.status = server.status
  BY ResultApplied
<1>3. Stored("summary")' = {}
  BY BatchApplied
<1>4. /\ posts' \in [Callers -> Posts] /\ ~InFlight("flush")'
      /\ \A d \in Callers : d # "flush" => posts'[d] = posts[d] /\ (InFlight(d)' <=> InFlight(d))
  BY CalleeGone DEF WorkerInv, Callers
<1>5. /\ chain' \in Seq(Owners) /\ phase' \in Phases /\ result' \in Outcomes /\ ChainSound'
      /\ result' = "cancelled" => taskAborted
      /\ \/ phase' = phase /\ result' = result
         \/ /\ phase \in {"flushing", "draining"} /\ phase' \in {"steps", "drain", "summary"}
            /\ phase' = "summary" /\ result' = "success" => ok
  <2>1. CASE FlushReturns(ok)
    BY <2>1, <1>0, FlushOver
  <2>2. CASE UNCHANGED <<phase, result, chain>>
    BY <2>2 DEF WorkerInv, WorkerTyped, ChainSound, EndSound
  <2> QED BY <2>1, <2>2
<1>12. faults \in Nat /\ faults' \in Nat /\ faults <= faults' /\ MaxSendAttempts \in Nat
  <2>1. faults \in Nat
    BY WorkerTaskAssumption DEF WorkerInv, WorkerTyped
  <2> QED BY <2>1, WorkerTaskAssumption
<1>6. WorkerTyped'
  BY <1>2, <1>4, <1>5 DEF WorkerInv, WorkerTyped
<1>7. Carried'
  <2>1. ~InFlight("step")' /\ ~InFlight("summary")'
    BY <1>0, <1>4 DEF Callers
  <2>2. ASSUME InFlight("status")'
        PROVE  /\ phase' \in {"status", "failing"}
               /\ \E n \in 1..faults' + 1, st \in Terminal :
                    /\ st = "done" => Complete'
                    /\ posts'["status"] = [kind |-> "status", data |-> <<st>>, seq |-> 0, attempt |-> n]
    <3>1. InFlight("status") /\ posts'["status"] = posts["status"]
      BY <2>2, <1>4 DEF Callers
    <3>2. PICK n \in 1..faults + 1, st \in Terminal :
            /\ st = "done" => Complete
            /\ posts["status"] = [kind |-> "status", data |-> <<st>>, seq |-> 0, attempt |-> n]
      BY <3>1 DEF WorkerInv, Carried
    <3>3. n \in 1..faults' + 1
      BY <1>12, MoreAttempts
    <3>5. st # "done"
      BY <3>2, <1>1
    <3>4. phase' \in {"status", "failing"}
      BY <3>1, <1>5 DEF WorkerInv, Carried
    <3> QED BY <3>1, <3>2, <3>3, <3>4, <3>5
  <2> QED BY <2>1, <2>2, <1>4 DEF Carried
<1>8. EndSound' /\ SummaryIsLast'
  <2>1. pending'.kind # "summary"
    BY <1>1, EnvelopeShape
  <2>2. phase' # "status" /\ server'.status # "done"
    BY <1>1, <1>2, <1>5
  <2>3. phase' \in {"summary", "summarizing"} /\ result' = "success" =>
           buffer' = <<>> /\ retry' = <<>> /\ ~InFlight("flush")'
    BY <1>4, <1>5 DEF WorkerInv, EndSound
  <2> QED BY <2>1, <2>2, <2>3, <1>3, <1>5, BeforeTheEnd
<1>9. TerminalReported'
  BY <1>2, <1>5, <1>12 DEF WorkerInv, TerminalReported
<1> QED BY <1>5, <1>6, <1>7, <1>8, <1>9 DEF WorkerInv

\* The request of a step that sent its row at once is over.
LEMMA StepSettled ==
  ASSUME WorkerInv, InFlight("step"), server' = server \/ server' = Apply(server, posts["step"]),
         Callee("step"), UNCHANGED <<produced, buffer, retry, chain, taskAborted>>,
         faults' \in {faults, faults + 1}, faults' <= MaxFaults, RowsSound',
         pending' = pending \/ pending' = NoEnvelope,
         StepFailed \/ (phase' = "steps" /\ UNCHANGED result)
  PROVE  WorkerInv'
<1>0. phase = "sending" /\ pending.kind = "batch"
      /\ ~InFlight("summary") /\ ~InFlight("flush") /\ ~InFlight("status")
  BY DEF WorkerInv, Carried
<1>1. /\ pending.kind # "summary" /\ Stored("summary") = {} /\ phase # "status"
      /\ server.status # "done" /\ ~Complete
  BY <1>0, Unfinished DEF Late
<1>2. server' \in Servers /\ server'.status = server.status
  BY ResultApplied
<1>3. Stored("summary")' = {}
  BY BatchApplied
<1>4. /\ posts' \in [Callers -> Posts] /\ ~InFlight("step")'
      /\ \A d \in Callers : d # "step" => posts'[d] = posts[d] /\ (InFlight(d)' <=> InFlight(d))
  BY CalleeGone DEF WorkerInv, Callers
<1>5. phase' \in {"steps", "drain"} /\ result' \in {result, "failure"}
  BY DEF StepFailed
<1>6. WorkerTyped'
  BY <1>2, <1>4, <1>5 DEF WorkerInv, WorkerTyped, Phases, Outcomes
<1>7. Carried'
  <2>1. ~InFlight("flush")' /\ ~InFlight("summary")' /\ ~InFlight("status")'
    BY <1>0, <1>4 DEF Callers
  <2> QED BY <2>1, <1>4 DEF Carried
<1>8. EndSound' /\ SummaryIsLast'
  <2>1. pending'.kind # "summary"
    BY <1>1, EnvelopeShape
  <2>2. result' = "cancelled" => taskAborted'
    BY <1>5 DEF WorkerInv, EndSound
  <2> QED BY <2>1, <2>2, <1>1, <1>2, <1>3, <1>5, BeforeTheEnd
<1>9. TerminalReported'
  BY <1>5 DEF TerminalReported
<1>10. ChainSound'
  BY <1>0, <1>5 DEF WorkerInv, ChainSound
<1> QED BY <1>6, <1>7, <1>8, <1>9, <1>10 DEF WorkerInv

\* The request of another caller is still what it was.
LEMMA CarriesOn ==
  ASSUME NEW c \in Callers, Carries(c), pending' = pending, posts'[c] = posts[c],
         faults \in Nat, faults' \in Nat, faults <= faults'
  PROVE  Carries(c)'
<1>1. PICK n \in 1..faults + 1 :
        posts[c] = [kind |-> pending.kind, data |-> pending.data, seq |-> pending.seq, attempt |-> n]
  BY DEF Carries
<1>2. n \in 1..faults' + 1
  BY MoreAttempts
<1> QED BY <1>1, <1>2 DEF Carries

\* Faults are counted.
LEMMA FaultsCounted ==
  ASSUME WorkerInv, faults' \in {faults, faults + 1}
  PROVE  faults \in Nat /\ faults' \in Nat /\ faults <= faults' /\ MaxSendAttempts \in Nat \ {0}
<1>1. faults \in Nat
  BY WorkerTaskAssumption DEF WorkerInv, WorkerTyped
<1> QED BY <1>1, WorkerTaskAssumption

\* What is stored once is the summary, and it is the last.
LEMMA SummaryApplied ==
  ASSUME WorkerInv, InFlight("summary"), server' = server \/ server' = Apply(server, posts["summary"]),
         UNCHANGED <<result, chain, produced, dropped, seqno>>, phase' \in Late
  PROVE  /\ \A i \in Stored("summary")' :
              /\ phase' \in Late /\ chain' = <<>> /\ server'.results[i].seq = seqno'
              /\ server'.results[i].data = <<"status", result'>>
         /\ SummaryIsLast'
         /\ server'.status = "done" => Complete'
         /\ chain = <<>> /\ pending.data = <<"status", result>>
<1>1. pending.kind = "summary" /\ pending.seq = seqno /\ pending \in Envelopes
  BY RequestShape
<1>2. chain = <<>> /\ pending.data = <<"status", result>>
  BY <1>1 DEF WorkerInv, EndSound
<1>3. /\ server'.status = server.status
      /\ \/ server'.results = server.results
         \/ /\ server'.results = Append(server.results, pending)
            /\ \A i \in DOMAIN server.results : server.results[i].seq # pending.seq
  BY ResultApplied
<1>4. server.results \in Seq(Envelopes)
  BY DEF WorkerInv, WorkerTyped, Servers
<1>5. \A i \in Stored("summary") :
        server.results[i].seq = seqno /\ server.results[i].data = <<"status", result>> /\ i = Len(server.results)
  BY DEF WorkerInv, EndSound, SummaryIsLast
<1>6. RowsOf(server.results) \subseteq RowsOf(server'.results)
  BY ResultSound
<1>7. CASE server'.results = server.results
  <2>1. Stored("summary")' = Stored("summary")
    BY <1>7 DEF Stored
  <2>2. SummaryIsLast'
    BY <2>1, <1>5, <1>7 DEF SummaryIsLast
  <2>3. Complete => Complete'
    BY <2>1, <1>7, Rows, RowsNext DEF Complete, AllKept
  <2> QED BY <2>1, <2>2, <2>3, <1>2, <1>3, <1>5, <1>7 DEF WorkerInv, EndSound
<1>8. CASE /\ server'.results = Append(server.results, pending)
           /\ \A i \in DOMAIN server.results : server.results[i].seq # pending.seq
  <2>1. /\ DOMAIN server'.results = 1..Len(server.results) + 1 /\ DOMAIN server.results = 1..Len(server.results)
        /\ Len(server.results) \in Nat /\ Len(server'.results) = Len(server.results) + 1
        /\ server'.results[Len(server.results) + 1] = pending
        /\ \A i \in DOMAIN server.results : server'.results[i] = server.results[i]
    BY <1>8, <1>1, <1>4, AppendSet
  <2>2. Stored("summary") = {}
    BY <1>8, <1>1, <1>5 DEF Stored
  <2>3. \A i \in Stored("summary")' : i = Len(server.results) + 1
    BY <2>1, <2>2 DEF Stored
  <2>4. SummaryIsLast'
    BY <2>1, <2>3 DEF SummaryIsLast
  <2>5. server'.status # "done"
    BY <2>2, <1>3 DEF WorkerInv, EndSound, Complete
  <2> QED BY <2>1, <2>3, <2>4, <2>5, <1>1, <1>2
<1> QED BY <1>3, <1>7, <1>8

\* A status of the attempt.
LEMMA StatusApplied ==
  ASSUME WorkerInv, InFlight("status"), server' = server \/ server' = Apply(server, posts["status"])
  PROVE  /\ server' \in Servers /\ server'.results = server.results
         /\ \/ server'.status = server.status
            \/ server'.status \in Terminal /\ (server'.status = "done" => Complete)
         /\ server' = Apply(server, posts["status"]) /\ server.status = "running" =>
              server'.status \in Terminal
         /\ phase \in {"status", "failing"}
         /\ posts["status"].attempt \in 1..faults + 1 /\ posts["status"].kind = "status"
<1>1. phase \in {"status", "failing"}
  BY DEF WorkerInv, Carried
<1>2. PICK n \in 1..faults + 1, st \in Terminal :
        /\ st = "done" => Complete
        /\ posts["status"] = [kind |-> "status", data |-> <<st>>, seq |-> 0, attempt |-> n]
  BY DEF WorkerInv, Carried
<1>3. /\ posts["status"].kind = "status" /\ posts["status"].data[1] = st
      /\ posts["status"].attempt \in 1..faults + 1
  BY <1>2
<1>4. server \in Servers
  BY DEF WorkerInv, WorkerTyped
<1>5. CASE server' = server
  <2>1. server' = Apply(server, posts["status"]) /\ server.status = "running" => server'.status \in Terminal
    <3> SUFFICES ASSUME server' = Apply(server, posts["status"]), server.status = "running"
                 PROVE  server'.status \in Terminal
      OBVIOUS
    <3>1. server' = [server EXCEPT !.status = st]
      BY <1>3 DEF Apply
    <3> QED BY <3>1, <1>4 DEF Servers
  <2> QED BY <2>1, <1>1, <1>3, <1>4, <1>5
<1>6. CASE server' = Apply(server, posts["status"]) /\ server.status = "running"
  <2>1. server' = [server EXCEPT !.status = st]
    BY <1>3, <1>6 DEF Apply
  <2>2. server' \in Servers /\ server'.results = server.results /\ server'.status = st
    BY <2>1, <1>4 DEF Servers
  <2>3. server'.status = "done" => Complete
    BY <2>2, <1>2
  <2>4. server'.status \in Terminal
    BY <2>2
  <2> QED BY <2>2, <2>3, <2>4, <1>1, <1>3
<1>7. CASE server' = Apply(server, posts["status"]) /\ server.status # "running"
  <2>1. server' = server
    BY <1>7 DEF Apply
  <2> QED BY <2>1, <1>1, <1>3, <1>4, <1>7
<1> QED BY <1>5, <1>6, <1>7

\* The request with the summary is over.
LEMMA SummarySettled ==
  ASSUME WorkerInv, InFlight("summary"), server' = server \/ server' = Apply(server, posts["summary"]),
         Callee("summary"),
         UNCHANGED <<result, produced, buffer, retry, chain, seqno, taskAborted, dropped>>,
         faults' \in {faults, faults + 1}, faults' <= MaxFaults,
         phase' \in {"log", "idle", "status"}, phase' = "idle" => result = "cancelled",
         \/ pending' = pending /\ phase' # "status"
         \/ pending' = NoEnvelope /\ \E i \in DOMAIN server'.results : server'.results[i].seq = pending.seq
  PROVE  WorkerInv'
<1>0. phase = "summarizing" /\ pending.kind = "summary" /\ pending \in Envelopes
      /\ ~InFlight("step") /\ ~InFlight("flush") /\ ~InFlight("status")
  BY RequestShape DEF WorkerInv, Carried
<1>1. phase' \in Late /\ phase' \in Phases
  BY DEF Late, Phases
<1>2. server' \in Servers /\ server'.status = server.status
  BY ResultApplied
<1>3. /\ \A i \in Stored("summary")' :
           /\ phase' \in Late /\ chain' = <<>> /\ server'.results[i].seq = seqno'
           /\ server'.results[i].data = <<"status", result'>>
      /\ SummaryIsLast'
      /\ server'.status = "done" => Complete'
      /\ chain = <<>> /\ pending.data = <<"status", result>>
  BY <1>1, SummaryApplied
<1>4. /\ posts' \in [Callers -> Posts] /\ ~InFlight("summary")'
      /\ \A d \in Callers : d # "summary" => posts'[d] = posts[d] /\ (InFlight(d)' <=> InFlight(d))
  BY CalleeGone DEF WorkerInv, Callers
<1>5. Sound(buffer, retry, pending, server'.results, produced, dropped, seqno)
  BY ResultSound
<1>6. Held(pending) = {}
  BY <1>0 DEF Held
<1>7. RowsSound'
  <2>1. pending' = NoEnvelope => Sound(buffer, retry, NoEnvelope, server'.results, produced, dropped, seqno)
    BY <1>0, <1>5, <1>6, SoundCleared, EnvelopeShape
  <2> QED BY <2>1, <1>5 DEF RowsSound
<1>8. WorkerTyped'
  BY <1>1, <1>2, <1>4 DEF WorkerInv, WorkerTyped
<1>9. Carried'
  <2>1. ~InFlight("flush")' /\ ~InFlight("step")' /\ ~InFlight("status")'
    BY <1>0, <1>4 DEF Callers
  <2> QED BY <2>1, <1>4 DEF Carried
<1>10. ChainSound'
  BY <1>3 DEF ChainSound
<1>11. EndSound'
  <2>1. pending'.kind = "summary" => phase' \in Late /\ chain' = <<>> /\ pending'.data = <<"status", result'>>
    BY <1>1, <1>3, EnvelopeShape
  <2>2. result = "success" => buffer = <<>> /\ retry = <<>>
    BY <1>0 DEF WorkerInv, EndSound
  <2>3. ~InFlight("flush")'
    BY <1>0, <1>4 DEF Callers
  <2>4. ASSUME phase' = "status" PROVE \E i \in Stored("summary")' : TRUE
    <3>1. PICK i \in DOMAIN server'.results : server'.results[i].seq = pending.seq
      BY <2>4
    <3>2. server'.results[i] = pending
      BY <3>1, <1>0, <1>5 DEF Sound, Apart
    <3> QED BY <3>1, <3>2, <1>0 DEF Stored
  <2>5. result = "success" => AllKept'
    <3> SUFFICES ASSUME result = "success" PROVE AllKept'
      OBVIOUS
    <3>1. ToSet(buffer) = {} /\ ToSet(retry) = {}
      BY <2>2, NothingInEmpty DEF WorkerInv, RowsSound, Sound, HoldsSound
    <3>2. 1..produced \subseteq RowsOf(server'.results) \cup dropped
      BY <3>1, <1>5, <1>6 DEF Sound, Accounted
    <3> QED BY <3>2, RowsNext DEF AllKept
  <2>6. result' = "cancelled" => taskAborted'
    BY DEF WorkerInv, EndSound
  <2> QED BY <2>1, <2>2, <2>3, <2>4, <2>5, <2>6, <1>1, <1>3 DEF EndSound
<1>12. TerminalReported'
  BY DEF WorkerInv, EndSound, TerminalReported
<1> QED BY <1>3, <1>7, <1>8, <1>9, <1>10, <1>11, <1>12 DEF WorkerInv

\* The request with the status is over.
LEMMA StatusSettled ==
  ASSUME WorkerInv, InFlight("status"), server' = server \/ server' = Apply(server, posts["status"]),
         Callee("status"),
         UNCHANGED <<result, produced, buffer, retry, chain, seqno, pending, taskAborted, dropped>>,
         faults' \in {faults, faults + 1}, faults' <= MaxFaults,
         phase' \in {"log", "idle"},
         phase' = "idle" => server'.status # "running" \/ faults' >= MaxSendAttempts
  PROVE  WorkerInv'
<1>1. phase' \in Late /\ phase' \in Phases /\ phase \in {"status", "failing"} /\ phase \in Late
  BY StatusApplied DEF Late, Phases
<1>2. /\ server' \in Servers /\ server'.results = server.results
      /\ \/ server'.status = server.status
         \/ server'.status \in Terminal /\ (server'.status = "done" => Complete)
  BY StatusApplied
<1>3. faults \in Nat /\ faults' \in Nat /\ faults <= faults' /\ MaxSendAttempts \in Nat \ {0}
  BY FaultsCounted
<1>4. /\ posts' \in [Callers -> Posts] /\ ~InFlight("status")'
      /\ \A d \in Callers : d # "status" => posts'[d] = posts[d] /\ (InFlight(d)' <=> InFlight(d))
  BY CalleeGone DEF WorkerInv, Callers
<1>5. RowsSound'
  BY <1>2 DEF WorkerInv, RowsSound
<1>6. Stored("summary")' = Stored("summary") /\ (Complete => Complete')
  <2>1. Stored("summary")' = Stored("summary")
    BY <1>2 DEF Stored
  <2>2. StoredRows' = StoredRows
    BY <1>2 DEF StoredRows
  <2> QED BY <2>1, <2>2, <1>2 DEF Complete, AllKept
<1>7. WorkerTyped'
  BY <1>1, <1>2, <1>4 DEF WorkerInv, WorkerTyped
<1>8. Carried'
  <2>1. ~InFlight("step")' /\ ~InFlight("summary")'
    <3>1. ~InFlight("step") /\ ~InFlight("summary")
      BY <1>1 DEF WorkerInv, Carried
    <3> QED BY <3>1, <1>4 DEF Callers
  <2>2. ASSUME InFlight("flush")'
        PROVE  /\ pending'.kind = "batch" /\ Carries("flush")'
               /\ chain' # <<>> /\ Head(chain') # "discard" /\ (retry' = <<>> \/ retry' = pending'.data)
    <3>1. InFlight("flush") /\ posts'["flush"] = posts["flush"]
      BY <2>2, <1>4 DEF Callers
    <3>2. Carries("flush")'
      BY <3>1, <1>3, CarriesOn DEF WorkerInv, Carried, Callers
    <3> QED BY <3>1, <3>2 DEF WorkerInv, Carried
  <2> QED BY <2>1, <2>2, <1>4 DEF Carried
<1>9. ChainSound'
  <2>1. \A i \in DOMAIN chain : chain[i] # "step" /\ chain[i] \notin {"drain", "discard"}
    BY <1>1 DEF WorkerInv, ChainSound
  <2> QED BY <2>1 DEF WorkerInv, ChainSound
<1>10. EndSound'
  <2>1. pending'.kind = "summary" => phase' \in Late /\ chain' = <<>> /\ pending'.data = <<"status", result'>>
    BY <1>1 DEF WorkerInv, EndSound
  <2>2. \A i \in Stored("summary")' :
          /\ phase' \in Late /\ chain' = <<>> /\ server'.results[i].seq = seqno'
          /\ server'.results[i].data = <<"status", result'>>
    BY <1>1, <1>2, <1>6 DEF WorkerInv, EndSound
  <2>3. server.status = "done" => Complete
    BY DEF WorkerInv, EndSound
  <2>4. server'.status = "done" => Complete
    BY <1>2, <2>3
  <2>5. server'.status = "done" => Complete' /\ phase' \in Late
    BY <2>4, <1>1, <1>6
  <2>6. result' = "cancelled" => taskAborted'
    BY DEF WorkerInv, EndSound
  <2>7. phase' \notin {"summary", "summarizing", "status"}
    OBVIOUS
  <2> QED BY <2>1, <2>2, <2>5, <2>6, <2>7 DEF EndSound
<1>11. SummaryIsLast'
  BY <1>2, <1>6 DEF WorkerInv, SummaryIsLast
<1>12. TerminalReported'
  <2>1. server'.status \in {"running", "ended"} \cup Terminal
    BY <1>2 DEF Servers
  <2>2. phase' = "idle" /\ faults' < MaxSendAttempts => server'.status # "running"
    BY <1>3
  <2> QED BY <2>1, <2>2 DEF TerminalReported
<1> QED BY <1>5, <1>7, <1>8, <1>9, <1>10, <1>11, <1>12 DEF WorkerInv

\* The next attempt of a request.
LEMMA Repeated ==
  ASSUME WorkerInv, NEW c \in Callers, InFlight(c), server' = server \/ server' = Apply(server, posts[c]),
         posts' = [posts EXCEPT ![c].attempt = @ + 1], faults' = faults + 1, faults' <= MaxFaults,
         UNCHANGED <<phase, result, produced, buffer, retry, chain, seqno, pending, taskAborted, dropped>>
  PROVE  WorkerInv'
<1>1. faults \in Nat /\ faults' \in Nat /\ faults <= faults' /\ MaxSendAttempts \in Nat \ {0}
  BY FaultsCounted
<1>2. posts \in [Callers -> Posts]
  BY DEF WorkerInv, WorkerTyped
<1>3. posts' = [posts EXCEPT ![c] = [posts[c] EXCEPT !.attempt = @ + 1]]
  OBVIOUS
<1>4. ASSUME NEW k, NEW d, NEW q, NEW n \in 1..faults + 1,
             posts[c] = [kind |-> k, data |-> d, seq |-> q, attempt |-> n]
      PROVE  posts'[c] = [kind |-> k, data |-> d, seq |-> q, attempt |-> n + 1] /\ n + 1 \in 1..faults' + 1
  <2>1. posts'[c] = [posts[c] EXCEPT !.attempt = @ + 1]
    BY <1>2, <1>3
  <2>2. posts'[c] = [kind |-> k, data |-> d, seq |-> q, attempt |-> n + 1]
    BY <2>1, <1>4
  <2>3. n + 1 \in 1..faults' + 1
    BY <1>1
  <2> QED BY <2>2, <2>3
<1>5. /\ posts[c].kind # "none" /\ posts[c].attempt \in Nat
      /\ posts[c] = [kind |-> posts[c].kind, data |-> posts[c].data, seq |-> posts[c].seq,
                     attempt |-> posts[c].attempt]
      /\ posts'[c] = [kind |-> posts[c].kind, data |-> posts[c].data, seq |-> posts[c].seq,
                      attempt |-> posts[c].attempt + 1]
  <2>1. posts[c].kind # "none" /\ posts[c] \in Posts
    BY <1>2 DEF InFlight
  <2>2. /\ posts[c] = [kind |-> posts[c].kind, data |-> posts[c].data, seq |-> posts[c].seq,
                      attempt |-> posts[c].attempt]
        /\ posts[c].attempt \in Nat
    BY <2>1 DEF Posts, NoPost
  <2>3. posts'[c] = [posts[c] EXCEPT !.attempt = @ + 1]
    BY <1>2, <1>3
  <2> QED BY <2>1, <2>2, <2>3
<1>6. posts' \in [Callers -> Posts]
  <2>1. posts[c] \in Posts
    BY <1>2
  <2>2. [posts[c] EXCEPT !.attempt = @ + 1] \in Posts
    BY <2>1, <1>5 DEF Posts, NoPost
  <2> QED BY <2>2, <1>2, <1>3
<1>7. \A d \in Callers : InFlight(d)' <=> InFlight(d)
  <2>1. \A d \in Callers : posts'[d].kind = posts[d].kind
    BY <1>2, <1>3, <1>5
  <2> QED BY <2>1 DEF InFlight
<1>8. \A d \in Callers : d # c => posts'[d] = posts[d]
  BY <1>2, <1>3
<1>9. ASSUME NEW d \in {"flush", "step", "summary"}, InFlight(d) PROVE Carries(d)'
  <2>1. Carries(d) /\ d \in Callers
    BY <1>9 DEF WorkerInv, Carried, Callers
  <2>2. CASE d # c
    BY <2>1, <2>2, <1>1, <1>8, CarriesOn
  <2>3. CASE d = c
    <3>1. PICK n \in 1..faults + 1 :
            posts[c] = [kind |-> pending.kind, data |-> pending.data, seq |-> pending.seq, attempt |-> n]
      BY <2>1, <2>3 DEF Carries
    <3>2. /\ posts'[c] = [kind |-> pending.kind, data |-> pending.data, seq |-> pending.seq, attempt |-> n + 1]
          /\ n + 1 \in 1..faults' + 1
      BY <3>1, <1>4
    <3> QED BY <3>2, <2>3 DEF Carries
  <2> QED BY <2>2, <2>3
<1>10. Stored("summary")' = Stored("summary") => (server'.results = server.results => (Complete => Complete'))
  BY RowsNext, Rows DEF Complete, AllKept
<1>11. CASE c \in {"flush", "step"}
  <2>1. /\ server' \in Servers /\ server'.status = server.status
        /\ Sound(buffer, retry, pending, server'.results, produced, dropped, seqno)
    BY <1>11, ResultApplied, ResultSound
  <2>2. Stored("summary")' = {} /\ server'.status # "done"
    BY <1>11, BatchApplied
  <2>3. chain # <<>> \/ phase \notin Late
    BY <1>11 DEF WorkerInv, Carried, Late
  <2>4. /\ pending.kind # "summary" /\ phase # "status" /\ ~Complete
    BY <2>3, Unfinished
  <2>5. WorkerTyped' /\ RowsSound' /\ ChainSound'
    BY <2>1, <1>6 DEF WorkerInv, WorkerTyped, RowsSound, ChainSound
  <2>6. EndSound' /\ SummaryIsLast'
    <3>1. phase' \in {"summary", "summarizing"} /\ result' = "success" =>
            buffer' = <<>> /\ retry' = <<>> /\ ~InFlight("flush")'
      BY <1>7 DEF WorkerInv, EndSound, Callers
    <3>2. result' = "cancelled" => taskAborted'
      BY DEF WorkerInv, EndSound
    <3> QED BY <2>2, <2>4, <3>1, <3>2, BeforeTheEnd
  <2>7. Carried'
    <3>1. ASSUME InFlight("status")'
          PROVE  /\ phase' \in {"status", "failing"}
                 /\ \E n \in 1..faults' + 1, st \in Terminal :
                      /\ st = "done" => Complete'
                      /\ posts'["status"] = [kind |-> "status", data |-> <<st>>, seq |-> 0, attempt |-> n]
      <4>1. InFlight("status") /\ posts'["status"] = posts["status"]
        BY <3>1, <1>7, <1>8, <1>11 DEF Callers
      <4>2. PICK n \in 1..faults + 1, st \in Terminal :
              /\ st = "done" => Complete
              /\ posts["status"] = [kind |-> "status", data |-> <<st>>, seq |-> 0, attempt |-> n]
        BY <4>1 DEF WorkerInv, Carried
      <4>3. n \in 1..faults' + 1
        BY <1>1, MoreAttempts
      <4>4. st # "done"
        BY <4>2, <2>4
      <4> QED BY <4>1, <4>2, <4>3, <4>4 DEF WorkerInv, Carried
    <3>2. InFlight("summary")' => FALSE
      BY <2>4, <1>7 DEF WorkerInv, Carried, Callers
    <3> QED BY <3>1, <3>2, <1>7, <1>9 DEF WorkerInv, Carried, Callers
  <2>8. TerminalReported'
    BY <2>1, <1>1 DEF WorkerInv, TerminalReported
  <2> QED BY <2>5, <2>6, <2>7, <2>8 DEF WorkerInv
<1>12. CASE c = "summary"
  <2>0. phase = "summarizing" /\ ~InFlight("flush") /\ ~InFlight("step") /\ ~InFlight("status")
        /\ pending.kind = "summary"
    BY <1>12 DEF WorkerInv, Carried
  <2>1. /\ server' \in Servers /\ server'.status = server.status
        /\ Sound(buffer, retry, pending, server'.results, produced, dropped, seqno)
    BY <1>12, ResultApplied, ResultSound
  <2>2. /\ \A i \in Stored("summary")' :
             /\ phase' \in Late /\ chain' = <<>> /\ server'.results[i].seq = seqno'
             /\ server'.results[i].data = <<"status", result'>>
        /\ SummaryIsLast'
        /\ server'.status = "done" => Complete'
        /\ chain = <<>> /\ pending.data = <<"status", result>>
    BY <2>0, <1>12, SummaryApplied DEF Late
  <2>3. WorkerTyped' /\ RowsSound' /\ ChainSound'
    BY <2>1, <1>6 DEF WorkerInv, WorkerTyped, RowsSound, ChainSound
  <2>4. EndSound'
    <3>1. phase' \in Late /\ phase' = "summarizing"
      BY <2>0 DEF Late
    <3>2. ~InFlight("flush")'
      BY <2>0, <1>7 DEF Callers
    <3>3. result = "success" => buffer = <<>> /\ retry = <<>>
      BY <2>0 DEF WorkerInv, EndSound
    <3>4. result' = "cancelled" => taskAborted'
      BY DEF WorkerInv, EndSound
    <3> QED BY <2>2, <3>1, <3>2, <3>3, <3>4 DEF EndSound
  <2>5. Carried'
    <3>1. ~InFlight("flush")' /\ ~InFlight("step")' /\ ~InFlight("status")'
      BY <2>0, <1>7 DEF Callers
    <3>2. Carries("summary")'
      BY <1>9, <1>12
    <3> QED BY <3>1, <3>2, <2>0 DEF Carried
  <2>6. TerminalReported'
    BY <2>0 DEF TerminalReported
  <2> QED BY <2>2, <2>3, <2>4, <2>5, <2>6 DEF WorkerInv
<1>13. CASE c = "status"
  <2>0. phase \in {"status", "failing"} /\ phase \in Late /\ ~InFlight("step") /\ ~InFlight("summary")
    BY <1>13 DEF WorkerInv, Carried, Late
  <2>1. /\ server' \in Servers /\ server'.results = server.results
        /\ \/ server'.status = server.status
           \/ server'.status \in Terminal /\ (server'.status = "done" => Complete)
    BY <1>13, StatusApplied
  <2>2. Stored("summary")' = Stored("summary")
    BY <2>1 DEF Stored
  <2>3. Complete => Complete'
    BY <2>1, <2>2, <1>10
  <2>4. WorkerTyped' /\ RowsSound' /\ ChainSound' /\ SummaryIsLast'
    <3>1. SummaryIsLast'
      BY <2>1, <2>2 DEF WorkerInv, SummaryIsLast
    <3> QED BY <3>1, <2>1, <1>6 DEF WorkerInv, WorkerTyped, RowsSound, ChainSound
  <2>5. EndSound'
    <3>1. server.status = "done" => Complete
      BY DEF WorkerInv, EndSound
    <3>2. server'.status = "done" => Complete
      BY <2>1, <3>1
    <3>3. server'.status = "done" => Complete' /\ phase' \in Late
      BY <3>2, <2>0, <2>3
    <3>4. AllKept => AllKept'
      BY <2>1, Rows, RowsNext DEF AllKept
    <3>5. InFlight("flush")' <=> InFlight("flush")
      BY <1>7 DEF Callers
    <3>6. \A i \in Stored("summary")' :
             /\ phase' \in Late /\ chain' = <<>> /\ server'.results[i].seq = seqno'
             /\ server'.results[i].data = <<"status", result'>>
      BY <2>1, <2>2 DEF WorkerInv, EndSound
    <3>7. /\ result' = "cancelled" => taskAborted'
          /\ pending'.kind = "summary" => phase' \in Late /\ chain' = <<>> /\ pending'.data = <<"status", result'>>
          /\ phase' = "status" => \E i \in Stored("summary")' : TRUE
      BY <2>2 DEF WorkerInv, EndSound
    <3>8. phase' \in {"summary", "summarizing", "status"} /\ result' = "success" =>
            buffer' = <<>> /\ retry' = <<>> /\ ~InFlight("flush")'
      BY <3>5 DEF WorkerInv, EndSound
    <3>9. phase' = "status" /\ result' = "success" => AllKept'
      BY <3>4 DEF WorkerInv, EndSound
    <3> QED BY <3>3, <3>6, <3>7, <3>8, <3>9 DEF EndSound
  <2>6. Carried'
    <3>1. ~InFlight("step")' /\ ~InFlight("summary")'
      BY <2>0, <1>7 DEF Callers
    <3>2. /\ phase' \in {"status", "failing"}
          /\ \E n \in 1..faults' + 1, st \in Terminal :
               /\ st = "done" => Complete'
               /\ posts'["status"] = [kind |-> "status", data |-> <<st>>, seq |-> 0, attempt |-> n]
      <4>1. PICK n \in 1..faults + 1, st \in Terminal :
              /\ st = "done" => Complete
              /\ posts["status"] = [kind |-> "status", data |-> <<st>>, seq |-> 0, attempt |-> n]
        BY <1>13 DEF WorkerInv, Carried
      <4>2. /\ posts'["status"] = [kind |-> "status", data |-> <<st>>, seq |-> 0, attempt |-> n + 1]
            /\ n + 1 \in 1..faults' + 1
        BY <4>1, <1>4, <1>13
      <4>3. st = "done" => Complete'
        BY <4>1, <2>3
      <4> QED BY <4>2, <4>3, <2>0
    <3> QED BY <3>1, <3>2, <1>7, <1>9 DEF WorkerInv, Carried, Callers
  <2>7. TerminalReported'
    BY <2>0 DEF TerminalReported
  <2> QED BY <2>4, <2>5, <2>6, <2>7 DEF WorkerInv
<1> QED BY <1>11, <1>12, <1>13 DEF Callers

-----------------------------------------------------------------------------
(* The network.                                                             *)

\* A caller's request has failed for good.
LEMMA ThrownAway ==
  ASSUME WorkerInv, NEW c \in Callers, InFlight(c), server' = server \/ server' = Apply(server, posts[c]),
         Callee(c), FlushThrows(c, posts[c].data), UNCHANGED <<produced, buffer, seqno, pending, taskAborted>>,
         faults' \in {faults, faults + 1}, faults' <= MaxFaults,
         c = "status" => server'.status # "running" \/ faults' >= MaxSendAttempts
  PROVE  WorkerInv'
<1>1. CASE c = "flush"
  <2>1. pending.kind = "batch" /\ posts["flush"].data = pending.data
    BY <1>1, RequestShape
  <2>2. retry = <<>> \/ retry = pending.data
    BY <1>1 DEF WorkerInv, Carried
  <2>3. retry' = pending.data /\ FlushReturns(FALSE) /\ dropped' = dropped
    BY <1>1, <2>1 DEF FlushThrows, KeepBatch
  <2>4. Sound(buffer, retry, pending, server'.results, produced, dropped, seqno)
    BY <1>1, ResultSound
  <2>5. Sound(buffer, pending.data, pending, server'.results, produced, dropped, seqno)
    BY <2>1, <2>2, <2>4, SoundKept
  <2>6. RowsSound'
    BY <2>3, <2>5 DEF RowsSound
  <2> QED BY <1>1, <2>3, <2>6, FlushSettled
<1>2. CASE c = "step"
  <2>1. StepFailed /\ UNCHANGED <<retry, chain, dropped>>
    BY <1>2 DEF FlushThrows
  <2>2. Sound(buffer, retry, pending, server'.results, produced, dropped, seqno)
    BY <1>2, ResultSound
  <2>3. RowsSound'
    BY <2>1, <2>2 DEF RowsSound
  <2> QED BY <1>2, <2>1, <2>3, StepSettled
<1>3. CASE c = "summary"
  <2>1. phase' = "log" /\ UNCHANGED <<result, retry, chain, dropped>>
    BY <1>3 DEF FlushThrows
  <2> QED BY <1>3, <2>1, SummarySettled
<1>4. CASE c = "status"
  <2>1. phase' \in {"log", "idle"} /\ UNCHANGED <<result, retry, chain, dropped>>
    BY <1>4 DEF FlushThrows
  <2> QED BY <1>4, <2>1, StatusSettled
<1> QED BY <1>1, <1>2, <1>3, <1>4 DEF Callers

\* pending after the acknowledgement of a result.
LEMMA PendingCleared ==
  ASSUME WorkerInv, NEW c \in {"flush", "step", "summary"}, InFlight(c), ClearPending(posts[c])
  PROVE  pending' = NoEnvelope
<1>1. posts[c].kind = pending.kind /\ posts[c].seq = pending.seq /\ pending.kind # "status" /\ pending # NoEnvelope
  BY RequestShape, EnvelopeShape
<1> QED BY <1>1 DEF ClearPending

\* An acknowledgement clears what was pending once the server has it.
LEMMA AcknowledgedKeeps ==
  ASSUME WorkerInv, NEW c \in Callers, Acknowledged(c)
  PROVE  WorkerInv'
<1>0. /\ InFlight(c) /\ server.status = "running" /\ server' = Apply(server, posts[c])
      /\ Callee(c) /\ ClearPending(posts[c]) /\ Returns(c)
      /\ UNCHANGED <<produced, buffer, seqno, taskAborted, faults, dropped>>
  BY DEF Acknowledged
<1>9. faults' \in {faults, faults + 1} /\ faults' <= MaxFaults
  BY <1>0, WorkerTaskAssumption DEF WorkerInv, WorkerTyped
<1>1. ASSUME c \in {"flush", "step", "summary"}
      PROVE  /\ pending' = NoEnvelope /\ pending.kind # "none"
             /\ \E i \in DOMAIN server'.results : server'.results[i].seq = pending.seq
             /\ Sound(buffer, retry, pending, server'.results, produced, dropped, seqno)
  BY <1>0, <1>1, RequestShape, PendingCleared, ResultApplied, ResultSound
<1>2. CASE c = "flush"
  <2>1. retry' = <<>> /\ (FlushReturns(TRUE) \/ UNCHANGED <<phase, result, chain>>)
        /\ (buffer # <<>> => UNCHANGED <<phase, result, chain>>)
    BY <1>0, <1>2 DEF Returns
  <2>2. pending.kind = "batch" /\ (retry = <<>> \/ retry = pending.data)
    BY <1>0, <1>2 DEF WorkerInv, Carried
  <2>3. Sound(buffer, <<>>, pending, server'.results, produced, dropped, seqno)
    BY <1>1, <1>2, <2>2, SoundKept
  <2>4. ToSet(<<>>) \cap Held(pending) = {}
    <3>1. ToSet(<<>>) = {}
      BY NothingInEmpty, <<>> \in Seq(Nat)
    <3> QED BY <3>1
  <2>5. Sound(buffer, <<>>, NoEnvelope, server'.results, produced, dropped, seqno)
    BY <1>1, <1>2, <2>3, <2>4, SoundCleared
  <2>6. RowsSound'
    BY <1>0, <1>1, <1>2, <2>1, <2>5 DEF RowsSound
  <2>7. CASE buffer = <<>>
    BY <1>0, <1>1, <1>2, <1>9, <2>1, <2>6, <2>7, FlushSettled
  <2>8. CASE buffer # <<>>
    BY <1>0, <1>1, <1>2, <1>9, <2>1, <2>6, <2>8, FlushSettled
  <2> QED BY <2>7, <2>8
<1>3. CASE c = "step"
  <2>1. phase' = "steps" /\ UNCHANGED <<result, retry, chain>>
    BY <1>0, <1>3 DEF Returns
  <2>2. pending.kind = "batch" /\ ToSet(retry) \cap ToSet(pending.data) = {}
    BY <1>0, <1>3 DEF WorkerInv, Carried
  <2>3. Sound(buffer, retry, NoEnvelope, server'.results, produced, dropped, seqno)
    BY <1>1, <1>3, <2>2, SoundCleared DEF Held
  <2>4. RowsSound'
    BY <1>0, <1>1, <1>3, <2>1, <2>3 DEF RowsSound
  <2> QED BY <1>0, <1>1, <1>3, <1>9, <2>1, <2>4, StepSettled
<1>4. CASE c = "summary"
  <2>1. phase' \in {"idle", "status"} /\ (phase' = "idle" => result = "cancelled") /\ UNCHANGED <<result, retry, chain>>
    BY <1>0, <1>4 DEF Returns
  <2> QED BY <1>0, <1>1, <1>4, <1>9, <2>1, SummarySettled
<1>5. CASE c = "status"
  <2>1. phase' = "idle" /\ UNCHANGED <<result, retry, chain>>
    BY <1>0, <1>5 DEF Returns
  <2>2. server'.status \in Terminal
    BY <1>0, <1>5, StatusApplied
  <2>3. pending' = pending
    <3>1. posts["status"].kind = "status"
      BY <1>0, <1>5, StatusApplied
    <3> QED BY <3>1, <1>0, <1>5 DEF ClearPending
  <2>4. server'.status # "running"
    BY <2>2 DEF Terminal
  <2> QED BY <1>0, <1>5, <1>9, <2>1, <2>3, <2>4, StatusSettled
<1> QED BY <1>2, <1>3, <1>4, <1>5 DEF Callers

\* A payload the server refuses is acknowledged without being stored: a flush keeps
\* the batch, a step gives its row up.
LEMMA RefusedKeeps ==
  ASSUME WorkerInv, NEW c \in Callers, Refused(c)
  PROVE  WorkerInv'
<1>0. /\ InFlight(c) /\ posts[c].kind = "batch" /\ server' = server
      /\ faults' = faults + 1 /\ faults' <= MaxFaults
      /\ \A i \in DOMAIN server.results : server.results[i].seq # posts[c].seq
      /\ Callee(c) /\ ClearPending(posts[c])
      /\ UNCHANGED <<produced, buffer, seqno, taskAborted>>
  BY WorkerTaskAssumption DEF Refused, WorkerInv, WorkerTyped
<1>1. c \in {"flush", "step"}
  <2>1. c # "status"
    BY <1>0, StatusApplied
  <2>2. c # "summary"
    BY <1>0, RequestShape
  <2> QED BY <2>1, <2>2 DEF Callers
<1>2. /\ pending' = NoEnvelope /\ pending.kind = "batch" /\ posts[c].data = pending.data
      /\ \A i \in DOMAIN server.results : server.results[i].seq # pending.seq
      /\ Sound(buffer, retry, pending, server.results, produced, dropped, seqno)
  BY <1>0, <1>1, RequestShape, PendingCleared DEF WorkerInv, RowsSound
<1>3. CASE c = "flush"
  <2>1. retry' = pending.data /\ FlushReturns(FALSE) /\ dropped' = dropped
    BY <1>2, <1>3 DEF Refused, KeepBatch
  <2>2. retry = <<>> \/ retry = pending.data
    BY <1>0, <1>3 DEF WorkerInv, Carried
  <2>3. Sound(buffer, pending.data, NoEnvelope, server.results, produced, dropped, seqno)
    BY <1>2, <2>2, SoundRefused
  <2>4. RowsSound'
    BY <1>0, <1>2, <2>1, <2>3 DEF RowsSound
  <2> QED BY <1>0, <1>2, <1>3, <2>1, <2>4, FlushSettled
<1>4. CASE c = "step"
  <2>1. dropped' = dropped \cup ToSet(pending.data) /\ StepFailed /\ UNCHANGED <<retry, chain>>
    BY <1>2, <1>4 DEF Refused
  <2>2. ToSet(retry) \cap Held(pending) = {}
    BY <1>0, <1>2, <1>4 DEF WorkerInv, Carried, Held
  <2>3. Sound(buffer, retry, NoEnvelope, server.results, produced, dropped \cup ToSet(pending.data), seqno)
    BY <1>2, <2>2, SoundGivenUp
  <2>4. RowsSound'
    BY <1>0, <1>2, <2>1, <2>3 DEF RowsSound
  <2> QED BY <1>0, <1>2, <1>4, <2>1, <2>4, StepSettled
<1> QED BY <1>1, <1>3, <1>4

\* A request that fails keeps its envelope pending, whatever the server did with it.
LEMMA FailingKeeps ==
  ASSUME WorkerInv, NEW c \in Callers, Rejected(c) \/ Lost(c) \/ AbortedRequest(c)
  PROVE  WorkerInv'
<1>9. faults \in Nat /\ MaxSendAttempts \in Nat /\ MaxFaults \in Nat /\ faults <= MaxFaults
  BY WorkerTaskAssumption DEF WorkerInv, WorkerTyped
<1>1. CASE Rejected(c)
  <2>1. /\ InFlight(c) /\ server.status # "running" /\ server' = server
        /\ Callee(c) /\ FlushThrows(c, posts[c].data)
        /\ UNCHANGED <<produced, buffer, seqno, pending, taskAborted, faults>>
    BY <1>1 DEF Rejected
  <2> QED BY <2>1, <1>9, ThrownAway
<1>2. CASE Lost(c)
  <2>1. /\ InFlight(c) /\ faults' = faults + 1 /\ faults < MaxFaults
        /\ server' = server \/ server' = Apply(server, posts[c])
        /\ UNCHANGED <<produced, buffer, seqno, pending, taskAborted>>
    BY <1>2 DEF Lost
  <2>2. faults' <= MaxFaults
    BY <2>1, <1>9
  <2>3. CASE posts[c].attempt < MaxSendAttempts
    <3>1. /\ posts' = [posts EXCEPT ![c].attempt = @ + 1]
          /\ UNCHANGED <<phase, result, retry, chain, dropped>>
      BY <1>2, <2>3 DEF Lost
    <3> QED BY <2>1, <2>2, <3>1, Repeated
  <2>4. CASE ~(posts[c].attempt < MaxSendAttempts)
    <3>1. Callee(c) /\ FlushThrows(c, posts[c].data)
      BY <1>2, <2>4 DEF Lost
    <3>2. ASSUME c = "status" PROVE faults' >= MaxSendAttempts
      <4>1. posts[c].attempt \in 1..faults + 1
        BY <2>1, <3>2, StatusApplied
      <4> QED BY <4>1, <2>1, <2>4, <1>9
    <3> QED BY <2>1, <2>2, <3>1, <3>2, ThrownAway
  <2> QED BY <2>3, <2>4
<1>3. CASE AbortedRequest(c)
  <2>1. /\ InFlight(c) /\ c # "status" /\ (server' = server \/ server' = Apply(server, posts[c]))
        /\ Callee(c) /\ FlushThrows(c, posts[c].data)
        /\ UNCHANGED <<produced, buffer, seqno, pending, taskAborted, faults>>
    BY <1>3 DEF AbortedRequest
  <2> QED BY <2>1, <1>9, ThrownAway
<1> QED BY <1>1, <1>2, <1>3

-----------------------------------------------------------------------------
(* The rows of the executor.                                                *)

\* The chain of ticks while the executor is at work.
LEMMA OnlyTicks ==
  ASSUME WorkerInv, phase \notin {"flushing", "draining"}
  PROVE  \A i \in DOMAIN chain : chain[i] = "tick"
<1>1. \A i \in DOMAIN chain : chain[i] \in Owners
  BY DEF WorkerInv, WorkerTyped
<1> QED BY <1>1 DEF WorkerInv, ChainSound, Owners

\* One more caller at the end of the chain.
LEMMA ChainGrows ==
  ASSUME WorkerInv, NEW x \in Owners
  PROVE  /\ Append(chain, x) \in Seq(Owners) /\ Append(chain, x) # <<>>
         /\ chain # <<>> => Head(Append(chain, x)) = Head(chain)
         /\ \A i \in DOMAIN Append(chain, x) :
              (i \in DOMAIN chain /\ Append(chain, x)[i] = chain[i]) \/ (i = Len(chain) + 1 /\ Append(chain, x)[i] = x)
<1>1. chain \in Seq(Owners)
  BY DEF WorkerInv, WorkerTyped
<1>2. /\ Append(chain, x) \in Seq(Owners) /\ Len(Append(chain, x)) = Len(chain) + 1
      /\ DOMAIN Append(chain, x) = 1..Len(chain) + 1 /\ DOMAIN chain = 1..Len(chain) /\ Len(chain) \in Nat
      /\ Append(chain, x)[Len(chain) + 1] = x
      /\ \A i \in DOMAIN chain : Append(chain, x)[i] = chain[i]
  BY <1>1, AppendSet
<1>3. Append(chain, x) # <<>>
  BY <1>2
<1>4. chain # <<>> => Head(Append(chain, x)) = Head(chain)
  <2>1. chain # <<>> => 1 \in DOMAIN chain /\ Head(chain) = chain[1]
    BY <1>1, TailSet
  <2>2. Head(Append(chain, x)) = Append(chain, x)[1]
    BY <1>2, <1>3, TailSet
  <2> QED BY <2>1, <2>2, <1>2
<1> QED BY <1>2, <1>3, <1>4

\* What the requests carry, in a step that sends none.
LEMMA CarriedOn ==
  ASSUME WorkerInv, UNCHANGED <<posts, pending, faults, retry>>,
         InFlight("flush") => chain' # <<>> /\ Head(chain') # "discard",
         InFlight("step") => phase' = "sending",
         InFlight("summary") => phase' = "summarizing",
         InFlight("status") => phase' \in {"status", "failing"},
         Complete => Complete'
  PROVE  Carried'
<1>1. \A d \in Callers : InFlight(d)' <=> InFlight(d)
  BY DEF InFlight
<1>2. \A d \in Callers : Carries(d) => Carries(d)'
  BY DEF Carries
<1>3. ASSUME InFlight("status")
      PROVE  \E n \in 1..faults' + 1, st \in Terminal :
               /\ st = "done" => Complete'
               /\ posts'["status"] = [kind |-> "status", data |-> <<st>>, seq |-> 0, attempt |-> n]
  <2>1. PICK n \in 1..faults + 1, st \in Terminal :
          /\ st = "done" => Complete
          /\ posts["status"] = [kind |-> "status", data |-> <<st>>, seq |-> 0, attempt |-> n]
    BY <1>3 DEF WorkerInv, Carried
  <2>2. st = "done" => Complete'
    BY <2>1
  <2> QED BY <2>1, <2>2
<1> QED BY <1>1, <1>2, <1>3 DEF WorkerInv, Carried, Callers

\* The end is as far as it was.
LEMMA CompleteOn ==
  ASSUME server'.results = server.results, produced' = produced, dropped \subseteq dropped'
  PROVE  (Complete => Complete') /\ (AllKept => AllKept') /\ Stored("summary")' = Stored("summary")
<1>1. Stored("summary")' = Stored("summary")
  BY DEF Stored
<1>2. AllKept => AllKept'
  BY Rows, RowsNext DEF AllKept
<1> QED BY <1>1, <1>2 DEF Complete

\* runTask starts the rule or fails before it.
LEMMA StartKeeps ==
  ASSUME WorkerInv, Start
  PROVE  WorkerInv'
<1>0. /\ phase = "start" /\ phase' \in {"steps", "log"}
      /\ UNCHANGED <<result, produced, buffer, retry, chain, posts, seqno, pending, taskAborted,
                     faults, server, dropped>>
  BY DEF Start
<1>1. phase \notin Late /\ phase' \in Phases
  BY <1>0 DEF Late, Phases
<1>2. /\ pending.kind # "summary" /\ Stored("summary") = {} /\ phase # "status"
      /\ server.status # "done" /\ ~Complete
  BY <1>1, Unfinished
<1>3. WorkerTyped' /\ RowsSound'
  BY <1>0, <1>1 DEF WorkerInv, WorkerTyped, RowsSound
<1>4. ChainSound'
  <2>1. \A i \in DOMAIN chain : chain[i] = "tick"
    BY <1>0, OnlyTicks
  <2> QED BY <2>1, <1>0 DEF ChainSound
<1>5. Carried'
  <2>1. ~InFlight("step") /\ ~InFlight("summary") /\ ~InFlight("status")
    BY <1>0 DEF WorkerInv, Carried
  <2>2. InFlight("flush") => chain' # <<>> /\ Head(chain') # "discard"
    BY <1>0 DEF WorkerInv, Carried
  <2> QED BY <2>1, <2>2, <1>0, <1>2, CarriedOn
<1>6. EndSound' /\ SummaryIsLast'
  <2>1. Stored("summary")' = {}
    BY <1>0, <1>2 DEF Stored
  <2>2. result' = "cancelled" => taskAborted'
    BY <1>0 DEF WorkerInv, EndSound
  <2> QED BY <2>1, <2>2, <1>0, <1>2, BeforeTheEnd
<1>7. TerminalReported'
  BY <1>0 DEF TerminalReported
<1> QED BY <1>3, <1>4, <1>5, <1>6, <1>7 DEF WorkerInv

\* sendResult buffers a row, giving the oldest up at the cap.
LEMMA BufferRowKeeps ==
  ASSUME WorkerInv, BufferRow
  PROVE  WorkerInv'
<1> DEFINE full == Len(buffer) >= BufferCap
<1>0. /\ phase = "steps" /\ produced < MaxRows /\ produced' = produced + 1
      /\ buffer' = Append(IF full THEN Tail(buffer) ELSE buffer, produced + 1)
      /\ dropped' = IF full THEN dropped \cup {Head(buffer)} ELSE dropped
      /\ \/ phase' = "flushing" /\ chain' = Append(chain, "step")
         \/ phase' = phase /\ chain' = chain
      /\ UNCHANGED <<result, retry, posts, seqno, pending, taskAborted, faults, server>>
  BY DEF BufferRow
<1>1. phase \notin Late /\ phase' \in Phases /\ "step" \in Owners /\ "step" # "discard"
  BY <1>0 DEF Late, Phases, Owners
<1>2. /\ pending.kind # "summary" /\ Stored("summary") = {} /\ phase # "status"
      /\ server.status # "done" /\ ~Complete
  BY <1>1, Unfinished
<1>3. /\ Sound(buffer, retry, pending, server.results, produced, dropped, seqno)
      /\ buffer \in Seq(Nat) /\ produced \in Nat /\ BufferCap \in Nat \ {0} /\ MaxRows \in Nat
      /\ Len(buffer) <= BufferCap
  BY WorkerTaskAssumption DEF WorkerInv, WorkerTyped, RowsSound, Sound, HoldsSound
<1>4. RowsSound' /\ Len(buffer') <= BufferCap
  <2>1. CASE full
    <3>1. buffer # <<>>
      BY <2>1, <1>3
    <3>2. Tail(buffer) \in Seq(Nat) /\ Len(Tail(buffer)) = Len(buffer) - 1 /\ Len(buffer) \in Nat
      BY <3>1, <1>3, TailSet
    <3>3. Sound(Tail(buffer), retry, pending, server.results, produced, dropped \cup {Head(buffer)}, seqno)
      BY <3>1, <1>3, SoundOverflow
    <3>4. Sound(Append(Tail(buffer), produced + 1), retry, pending, server.results, produced + 1,
                dropped \cup {Head(buffer)}, seqno)
      BY <3>3, SoundBuffered
    <3>5. buffer' = Append(Tail(buffer), produced + 1) /\ dropped' = dropped \cup {Head(buffer)}
      BY <1>0, <2>1
    <3>6. Len(buffer') = Len(buffer)
      BY <3>2, <3>5, <1>3
    <3> QED BY <3>4, <3>5, <3>6, <1>0, <1>3 DEF RowsSound
  <2>2. CASE ~full
    <3>1. Sound(Append(buffer, produced + 1), retry, pending, server.results, produced + 1, dropped, seqno)
      BY <1>3, SoundBuffered
    <3>2. buffer' = Append(buffer, produced + 1) /\ dropped' = dropped
      BY <1>0, <2>2
    <3>3. Len(buffer') = Len(buffer) + 1 /\ Len(buffer) \in Nat
      BY <3>2, <1>3
    <3>4. Len(buffer') <= BufferCap
      BY <3>3, <2>2, <1>3
    <3> QED BY <3>1, <3>2, <3>4, <1>0 DEF RowsSound
  <2> QED BY <2>1, <2>2
<1>5. chain' \in Seq(Owners) /\ ChainSound'
      /\ (chain # <<>> => chain' # <<>> /\ Head(chain') = Head(chain))
  <2>1. \A i \in DOMAIN chain : chain[i] = "tick"
    BY <1>0, OnlyTicks
  <2>2. CASE phase' = "flushing" /\ chain' = Append(chain, "step")
    <3>1. /\ chain' \in Seq(Owners) /\ chain' # <<>> /\ (chain # <<>> => Head(chain') = Head(chain))
          /\ \A i \in DOMAIN chain' :
               (i \in DOMAIN chain /\ chain'[i] = chain[i]) \/ (i = Len(chain) + 1 /\ chain'[i] = "step")
      BY <2>2, <1>1, ChainGrows
    <3>2. ChainSound'
      BY <3>1, <2>1, <2>2 DEF ChainSound
    <3> QED BY <3>1, <3>2
  <2>3. CASE phase' = phase /\ chain' = chain
    BY <2>1, <2>3 DEF WorkerInv, WorkerTyped, ChainSound
  <2> QED BY <2>2, <2>3, <1>0
<1>6. WorkerTyped'
  <2>1. produced' <= MaxRows
    BY <1>0, <1>3
  <2> QED BY <2>1, <1>0, <1>1, <1>4, <1>5 DEF WorkerInv, WorkerTyped
<1>7. Carried'
  <2>1. ~InFlight("step") /\ ~InFlight("summary") /\ ~InFlight("status")
    BY <1>0 DEF WorkerInv, Carried
  <2>2. InFlight("flush") => chain' # <<>> /\ Head(chain') # "discard"
    BY <1>5 DEF WorkerInv, Carried
  <2> QED BY <2>1, <2>2, <1>0, <1>2, CarriedOn
<1>8. EndSound' /\ SummaryIsLast'
  <2>1. Stored("summary")' = {}
    BY <1>0, <1>2 DEF Stored
  <2>2. result' = "cancelled" => taskAborted'
    BY <1>0 DEF WorkerInv, EndSound
  <2> QED BY <2>1, <2>2, <1>0, <1>2, BeforeTheEnd
<1>9. TerminalReported'
  BY <1>0 DEF TerminalReported
<1> QED BY <1>4, <1>5, <1>6, <1>7, <1>8, <1>9 DEF WorkerInv

\* sendResult sends a row past the buffer, unless another envelope is pending.
LEMMA SendRowKeeps ==
  ASSUME WorkerInv, SendRow
  PROVE  WorkerInv'
<1>0. /\ phase = "steps" /\ produced < MaxRows /\ produced' = produced + 1
      /\ UNCHANGED <<buffer, retry, chain, taskAborted, faults, server>>
  BY DEF SendRow
<1>1. phase \notin Late
  BY <1>0 DEF Late
<1>2. /\ pending.kind # "summary" /\ Stored("summary") = {} /\ phase # "status"
      /\ server.status # "done" /\ ~Complete
  BY <1>1, Unfinished
<1>3. /\ Sound(buffer, retry, pending, server.results, produced, dropped, seqno)
      /\ produced \in Nat /\ MaxRows \in Nat /\ seqno \in Nat
  BY WorkerTaskAssumption DEF WorkerInv, WorkerTyped, RowsSound, Sound, HoldsSound
<1>4. ~InFlight("step") /\ ~InFlight("summary") /\ ~InFlight("status")
  BY <1>0 DEF WorkerInv, Carried
<1>5. \A i \in DOMAIN chain : chain[i] = "tick"
  BY <1>0, OnlyTicks
<1>6. Stored("summary")' = {} /\ server'.status # "done"
  BY <1>0, <1>2 DEF Stored
<1>7. faults \in Nat /\ faults' = faults
  BY <1>0, WorkerTaskAssumption DEF WorkerInv, WorkerTyped
<1>8. CASE MaySend("batch", <<produced + 1>>)
  <2> DEFINE d == <<produced + 1>>
  <2>1. d \in Seq(Nat) /\ d # <<>> /\ ToSet(d) = {produced + 1} /\ produced + 1 \notin 1..produced
    BY <1>3, OneRow
  <2>2. SendVersionedResult("step", "batch", d) /\ phase' = "sending" /\ UNCHANGED <<result, dropped>>
    BY <1>8 DEF SendRow
  <2> HIDE DEF d
  <2>3. pending = NoEnvelope
    <3>1. Held(pending) \subseteq 1..produced
      BY <1>3 DEF Sound, HoldsSound
    <3>2. ~(pending.kind = "batch" /\ pending.data = d)
      BY <3>1, <2>1 DEF Held
    <3>3. MaySend("batch", d)
      BY <1>8 DEF d
    <3> QED BY <3>2, <3>3 DEF MaySend
  <2>4. /\ pending' = [kind |-> "batch", data |-> d, seq |-> seqno + 1]
        /\ posts' = [posts EXCEPT !["step"] = [kind |-> "batch", data |-> d, seq |-> seqno + 1, attempt |-> 1]]
        /\ seqno' = seqno + 1
    <3>1. Envelope("batch", d) = [kind |-> "batch", data |-> d, seq |-> seqno + 1]
      BY <2>3 DEF Envelope, NoEnvelope
    <3>2. Envelope("batch", d).seq = seqno + 1 /\ seqno + 1 > seqno
      BY <3>1, <1>3
    <3>3. seqno' = seqno + 1
      BY <3>2, <2>2 DEF SendVersionedResult
    <3>4. /\ pending' = Envelope("batch", d)
          /\ posts' = [posts EXCEPT !["step"] =
                         [kind |-> "batch", data |-> d, seq |-> Envelope("batch", d).seq, attempt |-> 1]]
      BY <2>2 DEF SendVersionedResult
    <3> QED BY <3>1, <3>2, <3>3, <3>4
  <2>5. RowsSound'
    <3>1. Sound(buffer, retry, [kind |-> "batch", data |-> d, seq |-> seqno + 1], server.results,
                produced + 1, dropped, seqno + 1)
      BY <1>3, <2>3, SoundSent DEF d
    <3> QED BY <3>1, <2>2, <2>4, <1>0 DEF RowsSound
  <2>6. [kind |-> "batch", data |-> d, seq |-> seqno + 1, attempt |-> 1] \in Posts
    BY <2>1, <1>3 DEF Posts
  <2>7. posts \in [Callers -> Posts] /\ "step" \in Callers
    BY DEF WorkerInv, WorkerTyped, Callers
  <2>8. /\ posts' \in [Callers -> Posts]
        /\ posts'["step"] = [kind |-> "batch", data |-> d, seq |-> seqno + 1, attempt |-> 1]
        /\ \A c \in Callers : c # "step" => posts'[c] = posts[c]
    BY <2>4, <2>6, <2>7
  <2>9. WorkerTyped'
    <3>1. produced' <= MaxRows /\ phase' \in Phases
      BY <1>0, <1>3, <2>2 DEF Phases
    <3> QED BY <3>1, <2>2, <2>8, <1>0 DEF WorkerInv, WorkerTyped
  <2>10. ~InFlight("flush")
    BY <2>3 DEF WorkerInv, Carried, NoEnvelope
  <2>11. ~InFlight("flush")' /\ ~InFlight("summary")' /\ ~InFlight("status")'
    BY <2>8, <2>10, <1>4 DEF InFlight, Callers
  <2>12. Carried'
    <3>1. Carries("step")'
      <4>1. 1 \in 1..faults' + 1
        BY <1>7
      <4> QED BY <4>1, <2>4, <2>8 DEF Carries
    <3>2. ToSet(retry) \cap ToSet(d) = {}
      BY <2>1, <1>3 DEF Sound, HoldsSound
    <3>3. ToSet(retry') \cap ToSet(pending'.data) = {}
      BY <3>2, <2>4, <1>0
    <3> QED BY <3>1, <3>3, <2>2, <2>4, <2>11 DEF Carried
  <2>13. ChainSound'
    BY <1>0, <1>5 DEF ChainSound
  <2>14. EndSound' /\ SummaryIsLast'
    <3>1. result' = "cancelled" => taskAborted'
      BY <1>0, <2>2 DEF WorkerInv, EndSound
    <3> QED BY <3>1, <1>6, <2>2, <2>4, BeforeTheEnd
  <2>15. TerminalReported'
    BY <2>2 DEF TerminalReported
  <2> QED BY <2>5, <2>9, <2>12, <2>13, <2>14, <2>15 DEF WorkerInv
<1>9. CASE ~MaySend("batch", <<produced + 1>>)
  <2>1. /\ StepFailed /\ dropped' = dropped \cup {produced + 1}
        /\ UNCHANGED <<posts, seqno, pending>>
    BY <1>9 DEF SendRow
  <2>2. phase' \in {"steps", "drain"} /\ result' \in {result, "failure"}
    BY <2>1 DEF StepFailed
  <2>3. RowsSound'
    <3>1. Sound(buffer, retry, pending, server.results, produced + 1, dropped \cup {produced + 1}, seqno)
      BY <1>3, SoundUnsent
    <3> QED BY <3>1, <2>1, <1>0 DEF RowsSound
  <2>4. WorkerTyped'
    <3>1. produced' <= MaxRows /\ phase' \in Phases /\ result' \in Outcomes
      BY <1>0, <1>3, <2>2 DEF Phases, Outcomes, WorkerInv, WorkerTyped
    <3> QED BY <3>1, <2>1, <1>0 DEF WorkerInv, WorkerTyped
  <2>5. ChainSound'
    BY <1>0, <1>5 DEF ChainSound
  <2>6. Carried'
    <3>1. InFlight("flush") => chain' # <<>> /\ Head(chain') # "discard"
      BY <1>0 DEF WorkerInv, Carried
    <3> QED BY <3>1, <2>1, <1>0, <1>2, <1>4, CarriedOn
  <2>7. EndSound' /\ SummaryIsLast'
    <3>1. result' = "cancelled" => taskAborted'
      BY <1>0, <2>2 DEF WorkerInv, EndSound
    <3> QED BY <3>1, <1>2, <1>6, <2>1, <2>2, BeforeTheEnd
  <2>8. TerminalReported'
    BY <2>2 DEF TerminalReported
  <2> QED BY <2>3, <2>4, <2>5, <2>6, <2>7, <2>8 DEF WorkerInv
<1> QED BY <1>8, <1>9

-----------------------------------------------------------------------------
(* The end of the steps, the timer and the flushes.                         *)

\* The steps are over, with whatever result.
LEMMA StepsOverKeeps ==
  ASSUME WorkerInv, StepsOver
  PROVE  WorkerInv'
<1>0. /\ phase = "steps" /\ phase' = "drain"
      /\ result' \in {"success", "failure", "cancelled"} /\ (result' = "cancelled" => taskAborted)
      /\ UNCHANGED <<produced, buffer, retry, chain, posts, seqno, pending, taskAborted, faults, server, dropped>>
  BY DEF StepsOver
<1>1. phase \notin Late /\ phase' \in Phases /\ result' \in Outcomes
  BY <1>0 DEF Late, Phases, Outcomes
<1>2. /\ pending.kind # "summary" /\ Stored("summary") = {} /\ phase # "status"
      /\ server.status # "done" /\ ~Complete
  BY <1>1, Unfinished
<1>3. WorkerTyped' /\ RowsSound'
  BY <1>0, <1>1 DEF WorkerInv, WorkerTyped, RowsSound
<1>4. ChainSound'
  <2>1. \A i \in DOMAIN chain : chain[i] = "tick"
    BY <1>0, OnlyTicks
  <2> QED BY <2>1, <1>0 DEF ChainSound
<1>5. Carried'
  <2>1. ~InFlight("step") /\ ~InFlight("summary") /\ ~InFlight("status")
    BY <1>0 DEF WorkerInv, Carried
  <2>2. InFlight("flush") => chain' # <<>> /\ Head(chain') # "discard"
    BY <1>0 DEF WorkerInv, Carried
  <2> QED BY <2>1, <2>2, <1>0, <1>2, CarriedOn
<1>6. EndSound' /\ SummaryIsLast'
  <2>1. Stored("summary")' = {}
    BY <1>0, <1>2 DEF Stored
  <2> QED BY <2>1, <1>0, <1>2, BeforeTheEnd
<1>7. TerminalReported'
  BY <1>0 DEF TerminalReported
<1> QED BY <1>3, <1>4, <1>5, <1>6, <1>7 DEF WorkerInv

\* The timer starts a flush behind those that wait.
LEMMA TickKeeps ==
  ASSUME WorkerInv, Tick
  PROVE  WorkerInv'
<1>0. /\ phase \in {"steps", "flushing", "sending", "drain", "draining"}
      /\ chain' = Append(chain, "tick")
      /\ UNCHANGED <<phase, result, produced, buffer, retry, posts, seqno, pending, taskAborted,
                     faults, server, dropped>>
  BY DEF Tick
<1>1. phase \notin Late /\ "tick" \in Owners
  BY <1>0 DEF Late, Owners
<1>2. /\ pending.kind # "summary" /\ Stored("summary") = {} /\ phase # "status"
      /\ server.status # "done" /\ ~Complete
  BY <1>1, Unfinished
<1>3. /\ chain' \in Seq(Owners) /\ chain' # <<>> /\ (chain # <<>> => Head(chain') = Head(chain))
      /\ \A i \in DOMAIN chain' :
           (i \in DOMAIN chain /\ chain'[i] = chain[i]) \/ (i = Len(chain) + 1 /\ chain'[i] = "tick")
  BY <1>0, <1>1, ChainGrows
<1>4. WorkerTyped' /\ RowsSound'
  BY <1>0, <1>3 DEF WorkerInv, WorkerTyped, RowsSound
<1>5. ChainSound'
  BY <1>0, <1>3 DEF WorkerInv, ChainSound
<1>6. Carried'
  <2>1. InFlight("flush") => chain' # <<>> /\ Head(chain') # "discard"
    BY <1>3 DEF WorkerInv, Carried
  <2>2. InFlight("step") => phase' = "sending"
    BY <1>0 DEF WorkerInv, Carried
  <2>3. ~InFlight("summary") /\ ~InFlight("status")
    BY <1>0 DEF WorkerInv, Carried
  <2> QED BY <2>1, <2>2, <2>3, <1>0, <1>2, CarriedOn
<1>7. EndSound' /\ SummaryIsLast'
  <2>1. Stored("summary")' = {}
    BY <1>0, <1>2 DEF Stored
  <2>2. result' = "cancelled" => taskAborted'
    BY <1>0 DEF WorkerInv, EndSound
  <2> QED BY <2>1, <2>2, <1>0, <1>2, BeforeTheEnd
<1>8. TerminalReported'
  BY <1>0 DEF TerminalReported
<1> QED BY <1>4, <1>5, <1>6, <1>7, <1>8 DEF WorkerInv

\* The drain waits behind the flushes of the chain.
LEMMA DrainKeeps ==
  ASSUME WorkerInv, Drain
  PROVE  WorkerInv'
<1>0. /\ phase = "drain" /\ phase' = "draining"
      /\ UNCHANGED <<result, produced, buffer, retry, posts, seqno, pending, taskAborted, faults, server, dropped>>
  BY DEF Drain
<1>1. PICK x \in {"drain", "discard"} : chain' = Append(chain, x) /\ (x = "discard" => result # "success")
  BY DEF Drain
<1>2. phase \notin Late /\ phase' \in Phases /\ x \in Owners
  BY <1>0 DEF Late, Phases, Owners
<1>3. /\ pending.kind # "summary" /\ Stored("summary") = {} /\ phase # "status"
      /\ server.status # "done" /\ ~Complete
  BY <1>2, Unfinished
<1>4. /\ chain' \in Seq(Owners) /\ chain' # <<>> /\ (chain # <<>> => Head(chain') = Head(chain))
      /\ \A i \in DOMAIN chain' :
           (i \in DOMAIN chain /\ chain'[i] = chain[i]) \/ (i = Len(chain) + 1 /\ chain'[i] = x)
  BY <1>1, <1>2, ChainGrows
<1>5. WorkerTyped' /\ RowsSound'
  BY <1>0, <1>2, <1>4 DEF WorkerInv, WorkerTyped, RowsSound
<1>6. ChainSound'
  <2>1. \A i \in DOMAIN chain : chain[i] = "tick"
    BY <1>0, OnlyTicks
  <2> QED BY <2>1, <1>0, <1>1, <1>4 DEF ChainSound
<1>7. Carried'
  <2>1. InFlight("flush") => chain' # <<>> /\ Head(chain') # "discard"
    BY <1>4 DEF WorkerInv, Carried
  <2>2. ~InFlight("step") /\ ~InFlight("summary") /\ ~InFlight("status")
    BY <1>0 DEF WorkerInv, Carried
  <2> QED BY <2>1, <2>2, <1>0, <1>3, CarriedOn
<1>8. EndSound' /\ SummaryIsLast'
  <2>1. Stored("summary")' = {}
    BY <1>0, <1>3 DEF Stored
  <2>2. result' = "cancelled" => taskAborted'
    BY <1>0 DEF WorkerInv, EndSound
  <2> QED BY <2>1, <2>2, <1>0, <1>3, BeforeTheEnd
<1>9. TerminalReported'
  BY <1>0 DEF TerminalReported
<1> QED BY <1>5, <1>6, <1>7, <1>8, <1>9 DEF WorkerInv

\* A run that failed and does not send gives its rows up.
LEMMA DrainDiscardsKeeps ==
  ASSUME WorkerInv, DrainDiscards
  PROVE  WorkerInv'
<1>0. /\ chain # <<>> /\ Head(chain) = "discard" /\ ~InFlight("flush")
      /\ dropped' = dropped \cup ToSet(buffer) \cup ToSet(retry) /\ buffer' = <<>> /\ retry' = <<>>
      /\ phase' = "summary" /\ chain' = Tail(chain)
      /\ UNCHANGED <<result, produced, posts, seqno, pending, taskAborted, faults, server>>
  BY DEF DrainDiscards, Discard
<1>1. /\ Tail(chain) \in Seq(Owners)
      /\ 1 \in DOMAIN chain /\ chain[1] = Head(chain)
      /\ \A i \in DOMAIN Tail(chain) : Tail(chain)[i] = "tick"
  BY <1>0, ChainTail DEF WorkerInv
<1>2. phase = "draining" /\ result # "success"
  BY <1>0, <1>1 DEF WorkerInv, ChainSound
<1>3. /\ pending.kind # "summary" /\ Stored("summary") = {} /\ phase # "status"
      /\ server.status # "done" /\ ~Complete
  BY <1>0, Unfinished
<1>4. RowsSound'
  <2>1. Sound(buffer, retry, pending, server.results, produced, dropped, seqno)
    BY DEF WorkerInv, RowsSound
  <2>2. Sound(buffer', buffer', pending, server.results, produced, dropped \cup ToSet(buffer) \cup ToSet(retry), seqno)
    BY <2>1, <1>0, SoundDiscarded
  <2> QED BY <2>2, <1>0 DEF RowsSound
<1>5. WorkerTyped'
  <2>1. phase' \in Phases /\ Len(buffer') <= BufferCap
    BY <1>0, WorkerTaskAssumption DEF Phases
  <2> QED BY <2>1, <1>0, <1>1 DEF WorkerInv, WorkerTyped
<1>6. ChainSound'
  BY <1>0, <1>1 DEF ChainSound
<1>7. Carried'
  <2>1. ~InFlight("step") /\ ~InFlight("summary") /\ ~InFlight("status")
    BY <1>2 DEF WorkerInv, Carried
  <2>2. \A c \in Callers : ~InFlight(c)'
    BY <2>1, <1>0 DEF InFlight, Callers
  <2> QED BY <2>2 DEF Carried, Callers
<1>8. EndSound' /\ SummaryIsLast'
  <2>1. Stored("summary")' = {}
    BY <1>0, <1>3 DEF Stored
  <2>2. result' = "cancelled" => taskAborted'
    BY <1>0 DEF WorkerInv, EndSound
  <2> QED BY <2>1, <2>2, <1>0, <1>2, <1>3, BeforeTheEnd
<1>9. TerminalReported'
  BY <1>0 DEF TerminalReported
<1> QED BY <1>4, <1>5, <1>6, <1>7, <1>8, <1>9 DEF WorkerInv

\* doFlush takes its batch: nothing to send, a batch sent, or a batch set apart because
\* the task is aborted or something else is pending.
LEMMA FlushKeeps ==
  ASSUME WorkerInv, Flush
  PROVE  WorkerInv'
<1>0. /\ chain # <<>> /\ Head(chain) # "discard" /\ ~InFlight("flush")
      /\ UNCHANGED <<produced, taskAborted, faults, server, dropped>>
  BY DEF Flush
<1>1. /\ pending.kind # "summary" /\ Stored("summary") = {} /\ phase # "status"
      /\ server.status # "done" /\ ~Complete
  BY <1>0, Unfinished
<1>2. /\ Sound(buffer, retry, pending, server.results, produced, dropped, seqno)
      /\ buffer \in Seq(Nat) /\ retry \in Seq(Nat) /\ seqno \in Nat
      /\ faults \in Nat /\ faults' = faults /\ BufferCap \in Nat
  BY <1>0, WorkerTaskAssumption DEF WorkerInv, WorkerTyped, RowsSound, Sound, HoldsSound
<1>3. Stored("summary")' = {} /\ server'.status # "done"
  BY <1>0, <1>1 DEF Stored
<1>4. ~InFlight("summary") /\ (InFlight("step") => phase = "sending")
      /\ (InFlight("status") => phase \in {"status", "failing"})
  BY <1>1 DEF WorkerInv, Carried
<1>5. phase \in {"summary", "summarizing"} /\ result = "success" => buffer = <<>> /\ retry = <<>>
  BY DEF WorkerInv, EndSound
<1>6. CASE FlushItems = <<>>
  <2>1. FlushReturns(TRUE) /\ UNCHANGED <<buffer, retry, posts, seqno, pending>>
    BY <1>6 DEF Flush
  <2>2. buffer = <<>> /\ retry = <<>>
    BY <1>6 DEF FlushItems
  <2>3. /\ chain' \in Seq(Owners) /\ phase' \in Phases /\ result' \in Outcomes /\ ChainSound'
        /\ result' = "cancelled" => taskAborted
        /\ \/ phase' = phase /\ result' = result
           \/ /\ phase \in {"flushing", "draining"} /\ phase' \in {"steps", "drain", "summary"}
              /\ phase' = "summary" /\ result' = "success" => TRUE
    BY <1>0, <2>1, FlushOver
  <2>4. WorkerTyped' /\ RowsSound'
    BY <1>0, <2>1, <2>3 DEF WorkerInv, WorkerTyped, RowsSound
  <2>5. Carried'
    <3>1. InFlight("step") => phase' = "sending"
      BY <1>4, <2>3
    <3>2. InFlight("status") => phase' \in {"status", "failing"}
      BY <1>4, <2>3
    <3> QED BY <3>1, <3>2, <1>0, <1>1, <1>4, <2>1, CarriedOn
  <2>6. EndSound' /\ SummaryIsLast'
    <3>1. ~InFlight("flush")'
      BY <1>0, <2>1 DEF InFlight
    <3>2. phase' # "status"
      BY <1>1, <2>3
    <3>3. pending'.kind # "summary" /\ buffer' = <<>> /\ retry' = <<>>
      BY <1>1, <2>1, <2>2
    <3>4. result' = "cancelled" => taskAborted'
      BY <1>0, <2>3
    <3> QED BY <3>1, <3>2, <3>3, <3>4, <1>3, BeforeTheEnd
  <2>7. TerminalReported'
    BY <1>0, <2>3 DEF WorkerInv, TerminalReported
  <2> QED BY <2>3, <2>4, <2>5, <2>6, <2>7 DEF WorkerInv
<1>7. CASE FlushItems # <<>> /\ ~taskAborted /\ MaySend("batch", FlushItems)
  <2>1. /\ buffer' = (IF retry # <<>> THEN buffer ELSE <<>>)
        /\ SendVersionedResult("flush", "batch", FlushItems)
        /\ UNCHANGED <<phase, result, chain, retry>>
    BY <1>7 DEF Flush
  <2> DEFINE d == FlushItems
  <2>2. d = (IF retry # <<>> THEN retry ELSE buffer) /\ d \in Seq(Nat) /\ d # <<>>
    BY <1>2, <1>7 DEF FlushItems
  <2> HIDE DEF d
  <2>3. ToSet(d) # {}
    BY <2>2, NonEmptySet
  <2>4. pending = NoEnvelope \/ (pending.kind = "batch" /\ pending.data = d)
    BY <1>7 DEF MaySend, d
  <2>5. ASSUME pending # NoEnvelope PROVE retry # <<>> /\ retry = pending.data
    <3>1. pending.kind = "batch" /\ pending.data = d /\ Held(pending) = ToSet(d)
      BY <2>4, <2>5 DEF Held
    <3>2. ToSet(buffer) \cap Held(pending) = {}
      BY <1>2 DEF Sound, HoldsSound
    <3>3. d # buffer
      BY <2>3, <3>1, <3>2
    <3> QED BY <3>1, <3>3, <2>2
  <2>6. ~InFlight("step")
    <3> SUFFICES ASSUME InFlight("step") PROVE FALSE
      OBVIOUS
    <3>1. pending.kind = "batch" /\ ToSet(retry) \cap ToSet(pending.data) = {}
      BY DEF WorkerInv, Carried
    <3>2. retry = pending.data /\ retry = d
      BY <2>2, <2>5, <3>1, EnvelopeShape
    <3> QED BY <3>1, <3>2, <2>3
  <2>7. /\ pending' = Envelope("batch", d)
        /\ posts' = [posts EXCEPT !["flush"] =
                       [kind |-> "batch", data |-> d, seq |-> Envelope("batch", d).seq, attempt |-> 1]]
        /\ seqno' = IF Envelope("batch", d).seq > seqno THEN Envelope("batch", d).seq ELSE seqno
    BY <2>1 DEF SendVersionedResult, d
  <2>8. /\ pending'.kind = "batch" /\ pending'.data = d /\ pending'.seq \in Nat \ {0}
        /\ Sound(buffer', retry, pending', server.results, produced, dropped, seqno')
    <3>1. CASE pending = NoEnvelope
      <4>1. Envelope("batch", d) = [kind |-> "batch", data |-> d, seq |-> seqno + 1]
        BY <3>1 DEF Envelope, NoEnvelope
      <4>2. Envelope("batch", d).seq = seqno + 1 /\ seqno + 1 > seqno /\ seqno + 1 \in Nat \ {0}
        BY <4>1, <1>2
      <4>3. seqno' = seqno + 1
        BY <4>2, <2>7
      <4>4. Sound(buffer', retry, [kind |-> "batch", data |-> d, seq |-> seqno + 1], server.results,
                  produced, dropped, seqno + 1)
        <5>1. CASE retry # <<>>
          <6>1. d = retry /\ buffer' = buffer
            BY <5>1, <2>1, <2>2
          <6> QED BY <6>1, <5>1, <3>1, <1>2, SoundTaken
        <5>2. CASE retry = <<>>
          <6>1. d = buffer /\ buffer' = <<>> /\ buffer # <<>>
            BY <5>2, <2>1, <2>2
          <6> QED BY <6>1, <5>2, <3>1, <1>2, SoundTaken
        <5> QED BY <5>1, <5>2
      <4> QED BY <4>1, <4>2, <4>3, <4>4, <2>7
    <3>2. CASE pending # NoEnvelope
      <4>1. retry # <<>> /\ retry = pending.data /\ pending.kind = "batch" /\ pending.data = d
        BY <3>2, <2>4, <2>5
      <4>2. Envelope("batch", d) = pending
        BY <4>1 DEF Envelope
      <4>3. pending.seq = seqno /\ pending.seq \in Nat \ {0}
        BY <4>1, <1>2, EnvelopeShape DEF Sound, HoldsSound
      <4>4. pending' = pending /\ seqno' = seqno /\ buffer' = buffer
        BY <4>1, <4>2, <4>3, <2>1, <2>7
      <4> QED BY <4>1, <4>3, <4>4, <1>2
    <3> QED BY <3>1, <3>2
  <2>9. RowsSound'
    BY <2>1, <2>8, <1>0 DEF RowsSound
  <2>10. /\ posts \in [Callers -> Posts] /\ "flush" \in Callers
         /\ [kind |-> "batch", data |-> d, seq |-> pending'.seq, attempt |-> 1] \in Posts
    BY <2>2, <2>8 DEF WorkerInv, WorkerTyped, Callers, Posts
  <2>11. /\ posts' \in [Callers -> Posts]
         /\ posts'["flush"] = [kind |-> "batch", data |-> d, seq |-> pending'.seq, attempt |-> 1]
         /\ \A c \in Callers : c # "flush" => posts'[c] = posts[c]
    BY <2>7, <2>10
  <2>12. Len(buffer') <= BufferCap
    BY <2>1, <1>2 DEF WorkerInv, WorkerTyped
  <2>13. WorkerTyped'
    BY <2>1, <2>11, <2>12, <1>0 DEF WorkerInv, WorkerTyped
  <2>14. ChainSound'
    BY <2>1 DEF WorkerInv, ChainSound
  <2>15. \A c \in Callers : c # "flush" => (InFlight(c)' <=> InFlight(c))
    BY <2>11 DEF InFlight
  <2>16. Carried'
    <3>1. Carries("flush")'
      <4>1. 1 \in 1..faults' + 1
        BY <1>2
      <4> QED BY <4>1, <2>8, <2>11 DEF Carries
    <3>2. ~InFlight("step")' /\ ~InFlight("summary")'
      BY <2>6, <2>15, <1>4 DEF Callers
    <3>3. retry' = <<>> \/ retry' = pending'.data
      BY <2>1, <2>2, <2>8
    <3>4. ASSUME InFlight("status")'
          PROVE  /\ phase' \in {"status", "failing"}
                 /\ \E n \in 1..faults' + 1, st \in Terminal :
                      /\ st = "done" => Complete'
                      /\ posts'["status"] = [kind |-> "status", data |-> <<st>>, seq |-> 0, attempt |-> n]
      <4>1. InFlight("status") /\ posts'["status"] = posts["status"]
        BY <3>4, <2>11, <2>15 DEF Callers
      <4>2. PICK n \in 1..faults + 1, st \in Terminal :
              /\ st = "done" => Complete
              /\ posts["status"] = [kind |-> "status", data |-> <<st>>, seq |-> 0, attempt |-> n]
        BY <4>1 DEF WorkerInv, Carried
      <4>3. st # "done"
        BY <4>2, <1>1
      <4> QED BY <4>1, <4>2, <4>3, <2>1, <1>2, <1>4
    <3> QED BY <3>1, <3>2, <3>3, <3>4, <2>1, <2>8, <1>0 DEF Carried
  <2>17. EndSound' /\ SummaryIsLast'
    <3>1. ~(phase' \in {"summary", "summarizing"} /\ result' = "success")
      BY <1>5, <1>7, <2>1 DEF FlushItems
    <3>2. result' = "cancelled" => taskAborted'
      BY <1>0, <2>1 DEF WorkerInv, EndSound
    <3>3. pending'.kind # "summary" /\ phase' # "status"
      BY <1>1, <2>1, <2>8
    <3> QED BY <3>1, <3>2, <3>3, <1>3, BeforeTheEnd
  <2>18. TerminalReported'
    BY <1>0, <2>1 DEF WorkerInv, TerminalReported
  <2> QED BY <2>9, <2>13, <2>14, <2>16, <2>17, <2>18 DEF WorkerInv
<1>8. CASE FlushItems # <<>> /\ ~(~taskAborted /\ MaySend("batch", FlushItems))
  <2>1. /\ buffer' = (IF retry # <<>> THEN buffer ELSE <<>>)
        /\ retry' = (IF retry # <<>> THEN retry ELSE buffer) /\ FlushReturns(FALSE)
        /\ UNCHANGED <<posts, seqno, pending>>
    BY <1>8 DEF Flush, KeepBatch, FlushItems
  <2>2. RowsSound'
    <3>1. CASE retry # <<>>
      BY <3>1, <2>1, <1>0, <1>2 DEF RowsSound
    <3>2. CASE retry = <<>>
      <4>1. Sound(retry, buffer, pending, server.results, produced, dropped, seqno)
        BY <3>2, <1>2, SoundSetApart
      <4>2. buffer' = retry /\ retry' = buffer
        BY <3>2, <2>1
      <4> QED BY <4>1, <4>2, <2>1, <1>0 DEF RowsSound
    <3> QED BY <3>1, <3>2
  <2>3. /\ chain' \in Seq(Owners) /\ phase' \in Phases /\ result' \in Outcomes /\ ChainSound'
        /\ result' = "cancelled" => taskAborted
        /\ \/ phase' = phase /\ result' = result
           \/ /\ phase \in {"flushing", "draining"} /\ phase' \in {"steps", "drain", "summary"}
              /\ ~(phase' = "summary" /\ result' = "success")
    BY <1>0, <2>1, FlushOver
  <2>4. Len(buffer') <= BufferCap
    BY <2>1, <1>2 DEF WorkerInv, WorkerTyped
  <2>5. WorkerTyped'
    BY <1>0, <2>1, <2>3, <2>4 DEF WorkerInv, WorkerTyped
  <2>6. \A c \in Callers : InFlight(c)' <=> InFlight(c)
    BY <2>1 DEF InFlight
  <2>7. Carried'
    <3>1. ~InFlight("flush")' /\ ~InFlight("summary")'
      BY <2>6, <1>0, <1>4 DEF Callers
    <3>2. ASSUME InFlight("step")'
          PROVE  /\ pending'.kind = "batch" /\ Carries("step")' /\ phase' = "sending"
                 /\ ToSet(retry') \cap ToSet(pending'.data) = {}
      <4>1. InFlight("step")
        BY <3>2, <2>6 DEF Callers
      <4>2. pending.kind = "batch" /\ Carries("step") /\ ToSet(retry) \cap ToSet(pending.data) = {}
        BY <4>1 DEF WorkerInv, Carried
      <4>3. ToSet(buffer) \cap ToSet(pending.data) = {}
        BY <4>2, <1>2 DEF Sound, HoldsSound, Held
      <4>4. ToSet(retry') \cap ToSet(pending.data) = {}
        BY <4>2, <4>3, <2>1
      <4>5. Carries("step")'
        BY <4>2, <2>1, <1>0 DEF Carries
      <4>6. phase' = "sending"
        BY <4>1, <1>4, <2>3
      <4> QED BY <4>2, <4>4, <4>5, <4>6, <2>1
    <3>3. ASSUME InFlight("status")'
          PROVE  /\ phase' \in {"status", "failing"}
                 /\ \E n \in 1..faults' + 1, st \in Terminal :
                      /\ st = "done" => Complete'
                      /\ posts'["status"] = [kind |-> "status", data |-> <<st>>, seq |-> 0, attempt |-> n]
      <4>1. InFlight("status") /\ posts'["status"] = posts["status"]
        BY <3>3, <2>1, <2>6 DEF Callers
      <4>2. PICK n \in 1..faults + 1, st \in Terminal :
              /\ st = "done" => Complete
              /\ posts["status"] = [kind |-> "status", data |-> <<st>>, seq |-> 0, attempt |-> n]
        BY <4>1 DEF WorkerInv, Carried
      <4>3. st # "done"
        BY <4>2, <1>1
      <4>4. phase' \in {"status", "failing"}
        BY <4>1, <1>4, <2>3
      <4> QED BY <4>1, <4>2, <4>3, <4>4, <1>2
    <3> QED BY <3>1, <3>2, <3>3 DEF Carried
  <2>8. EndSound' /\ SummaryIsLast'
    <3>1. ~(phase' \in {"summary", "summarizing"} /\ result' = "success")
      BY <1>5, <1>8, <2>3 DEF FlushItems
    <3>2. result' = "cancelled" => taskAborted'
      BY <1>0, <2>3
    <3>3. pending'.kind # "summary" /\ phase' # "status"
      BY <1>1, <2>1, <2>3
    <3> QED BY <3>1, <3>2, <3>3, <1>3, BeforeTheEnd
  <2>9. TerminalReported'
    BY <1>0, <2>3 DEF WorkerInv, TerminalReported
  <2> QED BY <2>2, <2>3, <2>5, <2>7, <2>8, <2>9 DEF WorkerInv
<1> QED BY <1>6, <1>7, <1>8

-----------------------------------------------------------------------------
(* The end of the task.                                                     *)

\* The summary is sent when nothing is pending and no flush is left.
LEMMA SummaryKeeps ==
  ASSUME WorkerInv, Summary
  PROVE  WorkerInv'
<1>0. /\ phase = "summary" /\ FlushesStarted
      /\ UNCHANGED <<result, produced, buffer, retry, chain, taskAborted, faults, server, dropped>>
  BY DEF Summary
<1>1. phase \notin Late
  BY <1>0 DEF Late
<1>2. /\ pending.kind # "summary" /\ Stored("summary") = {} /\ phase # "status"
      /\ server.status # "done" /\ ~Complete
  BY <1>1, Unfinished
<1>3. /\ Sound(buffer, retry, pending, server.results, produced, dropped, seqno)
      /\ seqno \in Nat /\ faults \in Nat /\ faults' = faults /\ result \in Outcomes
  BY <1>0, WorkerTaskAssumption DEF WorkerInv, WorkerTyped, RowsSound, Sound, HoldsSound
<1>4. ~InFlight("step") /\ ~InFlight("summary") /\ ~InFlight("status")
  BY <1>0 DEF WorkerInv, Carried
<1>5. \A i \in DOMAIN chain : chain[i] = "tick"
  BY <1>0, OnlyTicks
<1>6. ChainSound'
  BY <1>0, <1>5 DEF ChainSound
<1>7. Stored("summary")' = {} /\ server'.status # "done"
  BY <1>0, <1>2 DEF Stored
<1>8. CASE MaySend("summary", <<"status", result>>)
  <2>1. SendVersionedResult("summary", "summary", <<"status", result>>) /\ phase' = "summarizing"
    BY <1>8 DEF Summary
  <2>2. pending = NoEnvelope
    BY <1>2, <1>8 DEF MaySend
  <2>3. ~InFlight("flush")
    BY <2>2 DEF WorkerInv, Carried, NoEnvelope
  <2>4. chain = <<>>
    BY <1>0, <2>3 DEF FlushesStarted
  <2> DEFINE d == <<"status", result>>
  <2>5. Envelope("summary", d) = [kind |-> "summary", data |-> d, seq |-> seqno + 1]
    BY <2>2 DEF Envelope, NoEnvelope
  <2>6. Envelope("summary", d).seq = seqno + 1 /\ seqno + 1 > seqno /\ seqno + 1 \in Nat \ {0}
    BY <2>5, <1>3
  <2>7. seqno' = seqno + 1
    BY <2>1, <2>6 DEF SendVersionedResult
  <2>8. /\ pending' = Envelope("summary", d)
        /\ posts' = [posts EXCEPT !["summary"] =
                       [kind |-> "summary", data |-> d, seq |-> Envelope("summary", d).seq, attempt |-> 1]]
    BY <2>1 DEF SendVersionedResult
  <2>9. RowsSound'
    <3>1. Sound(buffer, retry, [kind |-> "summary", data |-> <<"status", result>>, seq |-> seqno + 1],
                server.results, produced, dropped, seqno + 1)
      BY <1>3, <2>2, SoundSummary
    <3> QED BY <3>1, <2>5, <2>7, <2>8, <1>0 DEF RowsSound
  <2>10. /\ posts \in [Callers -> Posts] /\ "summary" \in Callers
         /\ [kind |-> "summary", data |-> d, seq |-> seqno + 1, attempt |-> 1] \in Posts
    BY <1>3, <2>6 DEF WorkerInv, WorkerTyped, Callers, Posts
  <2> HIDE DEF d
  <2>11. /\ posts' \in [Callers -> Posts]
         /\ posts'["summary"] = [kind |-> "summary", data |-> d, seq |-> seqno + 1, attempt |-> 1]
         /\ \A c \in Callers : c # "summary" => posts'[c] = posts[c]
    BY <2>6, <2>8, <2>10
  <2>12. pending'.kind = "summary" /\ pending'.data = d /\ pending'.seq = seqno + 1
    BY <2>5, <2>8
  <2>13. ~InFlight("flush")' /\ ~InFlight("step")' /\ ~InFlight("status")'
    BY <1>4, <2>3, <2>11 DEF InFlight, Callers
  <2>14. Carried'
    <3>1. Carries("summary")'
      <4>1. 1 \in 1..faults' + 1
        BY <1>3
      <4> QED BY <4>1, <2>11, <2>12 DEF Carries
    <3> QED BY <3>1, <2>1, <2>12, <2>13 DEF Carried
  <2>15. WorkerTyped'
    <3>1. phase' \in Phases
      BY <2>1 DEF Phases
    <3> QED BY <3>1, <2>11, <1>0 DEF WorkerInv, WorkerTyped
  <2>16. EndSound'
    <3>1. phase' \in Late
      BY <2>1 DEF Late
    <3>2. result = "success" => buffer = <<>> /\ retry = <<>>
      BY <1>0 DEF WorkerInv, EndSound
    <3>3. result' = "cancelled" => taskAborted'
      BY <1>0 DEF WorkerInv, EndSound
    <3> QED BY <3>1, <3>2, <3>3, <1>0, <1>7, <2>1, <2>4, <2>12, <2>13 DEF EndSound, d
  <2>17. SummaryIsLast'
    BY <1>7 DEF SummaryIsLast
  <2>18. TerminalReported'
    BY <2>1 DEF TerminalReported
  <2> QED BY <1>6, <2>9, <2>14, <2>15, <2>16, <2>17, <2>18 DEF WorkerInv
<1>9. CASE ~MaySend("summary", <<"status", result>>)
  <2>1. phase' = "log" /\ UNCHANGED <<posts, seqno, pending>>
    BY <1>9 DEF Summary
  <2>2. WorkerTyped' /\ RowsSound'
    <3>1. phase' \in Phases
      BY <2>1 DEF Phases
    <3> QED BY <3>1, <2>1, <1>0 DEF WorkerInv, WorkerTyped, RowsSound
  <2>3. Carried'
    <3>1. InFlight("flush") => chain' # <<>> /\ Head(chain') # "discard"
      BY <1>0 DEF WorkerInv, Carried
    <3> QED BY <3>1, <1>0, <1>2, <1>4, <2>1, CarriedOn
  <2>4. EndSound' /\ SummaryIsLast'
    <3>1. result' = "cancelled" => taskAborted'
      BY <1>0 DEF WorkerInv, EndSound
    <3> QED BY <3>1, <1>2, <1>7, <2>1, BeforeTheEnd
  <2>5. TerminalReported'
    BY <2>1 DEF TerminalReported
  <2> QED BY <1>6, <2>2, <2>3, <2>4, <2>5 DEF WorkerInv
<1> QED BY <1>8, <1>9

\* A status is sent: done only when everything is stored.
LEMMA StatusPosted ==
  ASSUME WorkerInv, NEW st \in Terminal, st = "done" => Complete, PostStatus(st),
         phase \in {"status", "log"}, phase' \in {"status", "failing"}, phase' = "status" => phase = "status",
         UNCHANGED <<result, produced, buffer, retry, chain, seqno, pending, taskAborted, faults, server, dropped>>
  PROVE  WorkerInv'
<1>1. phase \in Late /\ phase' \in Late /\ phase' \in Phases
  BY DEF Late, Phases
<1>2. /\ posts \in [Callers -> Posts] /\ "status" \in Callers
      /\ [kind |-> "status", data |-> <<st>>, seq |-> 0, attempt |-> 1] \in Posts
  BY DEF WorkerInv, WorkerTyped, Callers, Posts
<1>3. /\ posts' \in [Callers -> Posts]
      /\ posts'["status"] = [kind |-> "status", data |-> <<st>>, seq |-> 0, attempt |-> 1]
      /\ \A c \in Callers : c # "status" => posts'[c] = posts[c]
  BY <1>2 DEF PostStatus
<1>4. (Complete => Complete') /\ (AllKept => AllKept') /\ Stored("summary")' = Stored("summary")
  BY CompleteOn
<1>5. \A c \in Callers : c # "status" => (InFlight(c)' <=> InFlight(c))
  BY <1>3 DEF InFlight
<1>6. faults \in Nat /\ faults' = faults
  BY WorkerTaskAssumption DEF WorkerInv, WorkerTyped
<1>7. Carried'
  <2>1. ~InFlight("step")' /\ ~InFlight("summary")'
    BY <1>5 DEF WorkerInv, Carried, Callers
  <2>2. ASSUME InFlight("flush")'
        PROVE  /\ pending'.kind = "batch" /\ Carries("flush")'
               /\ chain' # <<>> /\ Head(chain') # "discard" /\ (retry' = <<>> \/ retry' = pending'.data)
    <3>1. InFlight("flush") /\ posts'["flush"] = posts["flush"] /\ "flush" \in Callers
      BY <2>2, <1>3, <1>5 DEF Callers
    <3>2. Carries("flush")'
      BY <3>1, <1>6, CarriesOn DEF WorkerInv, Carried
    <3> QED BY <3>1, <3>2 DEF WorkerInv, Carried
  <2>3. \E n \in 1..faults' + 1, s \in Terminal :
          /\ s = "done" => Complete'
          /\ posts'["status"] = [kind |-> "status", data |-> <<s>>, seq |-> 0, attempt |-> n]
    <3>1. 1 \in 1..faults' + 1
      BY <1>6
    <3>2. st = "done" => Complete'
      BY <1>4
    <3> QED BY <3>1, <3>2, <1>3
  <2> QED BY <2>1, <2>2, <2>3 DEF Carried
<1>8. WorkerTyped' /\ RowsSound'
  BY <1>1, <1>3 DEF WorkerInv, WorkerTyped, RowsSound
<1>9. ChainSound'
  <2>1. \A i \in DOMAIN chain : chain[i] = "tick"
    BY OnlyTicks
  <2> QED BY <2>1 DEF ChainSound
<1>10. EndSound' /\ SummaryIsLast'
  <2>1. SummaryIsLast'
    BY <1>4 DEF WorkerInv, SummaryIsLast
  <2>2. server'.status = "done" => Complete'
    BY <1>4 DEF WorkerInv, EndSound
  <2>3. InFlight("flush")' <=> InFlight("flush")
    BY <1>5 DEF Callers
  <2>4. phase' = "status" /\ result' = "success" => AllKept'
    BY <1>4 DEF WorkerInv, EndSound
  <2>5. /\ result' = "cancelled" => taskAborted'
        /\ pending'.kind = "summary" => phase' \in Late /\ chain' = <<>> /\ pending'.data = <<"status", result'>>
        /\ phase' = "status" => \E i \in Stored("summary")' : TRUE
    BY <1>1, <1>4 DEF WorkerInv, EndSound
  <2>6. \A i \in Stored("summary")' :
          /\ phase' \in Late /\ chain' = <<>> /\ server'.results[i].seq = seqno'
          /\ server'.results[i].data = <<"status", result'>>
    BY <1>1, <1>4 DEF WorkerInv, EndSound
  <2>7. phase' \in {"summary", "summarizing", "status"} /\ result' = "success" =>
          buffer' = <<>> /\ retry' = <<>> /\ ~InFlight("flush")'
    BY <2>3 DEF WorkerInv, EndSound
  <2> QED BY <2>1, <2>2, <2>4, <2>5, <2>6, <2>7, <1>1 DEF EndSound
<1>11. TerminalReported'
  BY DEF TerminalReported
<1> QED BY <1>7, <1>8, <1>9, <1>10, <1>11 DEF WorkerInv

\* Both ways a status is sent: after the summary, and from the catch.
LEMMA StatusKeeps ==
  ASSUME WorkerInv, Status \/ Catch
  PROVE  WorkerInv'
<1>1. CASE Status
  <2>1. /\ phase = "status" /\ PostStatus(StatusOf(result)) /\ phase' = phase
        /\ UNCHANGED <<result, produced, buffer, retry, chain, seqno, pending, taskAborted, faults, server, dropped>>
    BY <1>1 DEF Status
  <2>2. StatusOf(result) \in Terminal
    BY DEF StatusOf, Terminal
  <2>3. ASSUME StatusOf(result) = "done" PROVE Complete
    <3>1. result = "success"
      BY <2>3 DEF StatusOf
    <3>2. AllKept
      BY <3>1, <2>1 DEF WorkerInv, EndSound
    <3>3. PICK i \in Stored("summary") : server.results[i].data = <<"status", result>>
      BY <2>1 DEF WorkerInv, EndSound
    <3> QED BY <3>1, <3>2, <3>3 DEF Complete
  <2>4. PICK st \in Terminal : st = StatusOf(result)
    BY <2>2
  <2>5. PostStatus(st) /\ (st = "done" => Complete)
    BY <2>1, <2>3, <2>4
  <2> QED BY <2>1, <2>5, StatusPosted
<1>2. CASE Catch
  <2>1. /\ phase = "log" /\ phase' = "failing" /\ PostStatus("failed")
        /\ UNCHANGED <<result, produced, buffer, retry, chain, seqno, pending, taskAborted, faults, server, dropped>>
    BY <1>2 DEF Catch
  <2>2. "failed" \in Terminal /\ "failed" # "done"
    BY DEF Terminal
  <2> QED BY <2>1, <2>2, StatusPosted
<1> QED BY <1>1, <1>2

\* The worker is told to stop, or the attempt ends on the server.
LEMMA OutsideKeeps ==
  ASSUME WorkerInv, Abort \/ AttemptEnds
  PROVE  WorkerInv'
<1>0. /\ phase # "idle" /\ taskAborted' \in BOOLEAN /\ (taskAborted => taskAborted')
      /\ server' \in Servers /\ server'.results = server.results
      /\ server'.status = server.status \/ server'.status = "ended"
      /\ UNCHANGED <<phase, result, produced, buffer, retry, chain, posts, seqno, pending, faults, dropped>>
  BY DEF Abort, AttemptEnds, WorkerInv, WorkerTyped, Servers
<1>1. (Complete => Complete') /\ (AllKept => AllKept') /\ Stored("summary")' = Stored("summary")
  BY <1>0, CompleteOn
<1>2. WorkerTyped' /\ RowsSound'
  BY <1>0 DEF WorkerInv, WorkerTyped, RowsSound
<1>3. ChainSound'
  BY <1>0 DEF WorkerInv, ChainSound
<1>4. Carried'
  <2>1. InFlight("flush") => chain' # <<>> /\ Head(chain') # "discard"
    BY <1>0 DEF WorkerInv, Carried
  <2>2. InFlight("step") => phase' = "sending"
    BY <1>0 DEF WorkerInv, Carried
  <2>3. InFlight("summary") => phase' = "summarizing"
    BY <1>0 DEF WorkerInv, Carried
  <2>4. InFlight("status") => phase' \in {"status", "failing"}
    BY <1>0 DEF WorkerInv, Carried
  <2> QED BY <2>1, <2>2, <2>3, <2>4, <1>0, <1>1, CarriedOn
<1>5. EndSound' /\ SummaryIsLast'
  <2>1. SummaryIsLast'
    BY <1>0, <1>1 DEF WorkerInv, SummaryIsLast
  <2>2. server'.status = "done" => Complete' /\ phase' \in Late
    <3>1. server'.status = "done" => server.status = "done"
      BY <1>0
    <3>2. server.status = "done" => Complete /\ phase \in Late
      BY DEF WorkerInv, EndSound
    <3> QED BY <3>1, <3>2, <1>0, <1>1
  <2>3. InFlight("flush")' <=> InFlight("flush")
    BY <1>0 DEF InFlight
  <2>4. phase' = "status" /\ result' = "success" => AllKept'
    BY <1>0, <1>1 DEF WorkerInv, EndSound
  <2>5. /\ result' = "cancelled" => taskAborted'
        /\ pending'.kind = "summary" => phase' \in Late /\ chain' = <<>> /\ pending'.data = <<"status", result'>>
        /\ phase' = "status" => \E i \in Stored("summary")' : TRUE
    BY <1>0, <1>1 DEF WorkerInv, EndSound
  <2>6. \A i \in Stored("summary")' :
          /\ phase' \in Late /\ chain' = <<>> /\ server'.results[i].seq = seqno'
          /\ server'.results[i].data = <<"status", result'>>
    BY <1>0, <1>1 DEF WorkerInv, EndSound
  <2>7. phase' \in {"summary", "summarizing", "status"} /\ result' = "success" =>
          buffer' = <<>> /\ retry' = <<>> /\ ~InFlight("flush")'
    BY <1>0, <2>3 DEF WorkerInv, EndSound
  <2> QED BY <2>1, <2>2, <2>4, <2>5, <2>6, <2>7 DEF EndSound
<1>6. TerminalReported'
  BY <1>0 DEF TerminalReported
<1> QED BY <1>2, <1>3, <1>4, <1>5, <1>6 DEF WorkerInv

\* A run that is aborted early goes quiet.
LEMMA RunAbortedKeeps ==
  ASSUME WorkerInv, RunAborted
  PROVE  WorkerInv'
<1>0. /\ taskAborted /\ phase \in {"start", "steps"} /\ phase' = "idle" /\ result' = "cancelled"
      /\ UNCHANGED <<produced, buffer, retry, chain, posts, seqno, pending, taskAborted, faults, server, dropped>>
  BY DEF RunAborted
<1>1. phase \notin Late /\ phase' \in Phases /\ result' \in Outcomes
  BY <1>0 DEF Late, Phases, Outcomes
<1>2. /\ pending.kind # "summary" /\ Stored("summary") = {} /\ phase # "status"
      /\ server.status # "done" /\ ~Complete
  BY <1>1, Unfinished
<1>3. WorkerTyped' /\ RowsSound'
  BY <1>0, <1>1 DEF WorkerInv, WorkerTyped, RowsSound
<1>4. ChainSound'
  <2>1. \A i \in DOMAIN chain : chain[i] = "tick"
    BY <1>0, OnlyTicks
  <2> QED BY <2>1, <1>0 DEF ChainSound
<1>5. Carried'
  <2>1. ~InFlight("step") /\ ~InFlight("summary") /\ ~InFlight("status")
    BY <1>0 DEF WorkerInv, Carried
  <2>2. InFlight("flush") => chain' # <<>> /\ Head(chain') # "discard"
    BY <1>0 DEF WorkerInv, Carried
  <2> QED BY <2>1, <2>2, <1>0, <1>2, CarriedOn
<1>6. EndSound' /\ SummaryIsLast'
  <2>1. Stored("summary")' = {}
    BY <1>0, <1>2 DEF Stored
  <2> QED BY <2>1, <1>0, <1>2, BeforeTheEnd
<1>7. TerminalReported'
  BY <1>0 DEF TerminalReported
<1> QED BY <1>3, <1>4, <1>5, <1>6, <1>7 DEF WorkerInv

\* A step that changes nothing.
LEMMA StutterKeeps ==
  ASSUME WorkerInv, UNCHANGED workerVars
  PROVE  WorkerInv'
<1>0. UNCHANGED <<phase, result, produced, buffer, retry, chain, posts, seqno, pending, taskAborted, faults,
                  server, dropped>>
  BY DEF workerVars
<1>1. (Complete => Complete') /\ (AllKept => AllKept') /\ Stored("summary")' = Stored("summary")
  BY <1>0, CompleteOn
<1>2. WorkerTyped' /\ RowsSound' /\ ChainSound'
  BY <1>0 DEF WorkerInv, WorkerTyped, RowsSound, ChainSound
<1>3. Carried'
  <2>1. InFlight("flush") => chain' # <<>> /\ Head(chain') # "discard"
    BY <1>0 DEF WorkerInv, Carried
  <2>2. InFlight("step") => phase' = "sending"
    BY <1>0 DEF WorkerInv, Carried
  <2>3. InFlight("summary") => phase' = "summarizing"
    BY <1>0 DEF WorkerInv, Carried
  <2>4. InFlight("status") => phase' \in {"status", "failing"}
    BY <1>0 DEF WorkerInv, Carried
  <2> QED BY <2>1, <2>2, <2>3, <2>4, <1>0, <1>1, CarriedOn
<1>4. EndSound' /\ SummaryIsLast' /\ TerminalReported'
  <2>1. InFlight("flush")' <=> InFlight("flush")
    BY <1>0 DEF InFlight
  <2>2. server'.status = "done" => Complete' /\ phase' \in Late
    BY <1>0, <1>1 DEF WorkerInv, EndSound
  <2>3. EndSound'
    BY <2>1, <2>2, <1>0, <1>1 DEF WorkerInv, EndSound
  <2> QED BY <2>3, <1>0, <1>1 DEF WorkerInv, SummaryIsLast, TerminalReported
<1> QED BY <1>2, <1>3, <1>4 DEF WorkerInv

-----------------------------------------------------------------------------
(* The results of an attempt.                                               *)

\* WorkerInit of a task that was just claimed: nothing is held, in flight or stored.
LEMMA WorkerInitSound == WorkerInit => WorkerInv
<1> SUFFICES ASSUME WorkerInit PROVE WorkerInv
  OBVIOUS
<1>1. /\ phase = "start" /\ result = "none" /\ produced = 0
      /\ buffer = <<>> /\ retry = <<>> /\ chain = <<>>
      /\ posts = [c \in Callers |-> NoPost]
      /\ seqno = 0 /\ pending = NoEnvelope /\ taskAborted = FALSE /\ faults = 0
      /\ server = [results |-> <<>>, status |-> "running"] /\ dropped = {}
  BY DEF WorkerInit
<1>2. \A c \in Callers : ~InFlight(c)
  BY <1>1 DEF InFlight, NoPost
<1>3. Stored("summary") = {}
  BY <1>1 DEF Stored
<1>4. WorkerTyped
  <2>1. phase \in Phases /\ result \in Outcomes /\ chain \in Seq(Owners)
    BY <1>1 DEF Phases, Outcomes
  <2>2. posts \in [Callers -> Posts]
    BY <1>1 DEF Posts
  <2>3. server \in Servers
    BY <1>1 DEF Servers
  <2>4. taskAborted \in BOOLEAN /\ faults \in 0..MaxFaults /\ produced <= MaxRows /\ Len(buffer) <= BufferCap
    <3>1. Len(buffer) = 0
      BY <1>1
    <3>2. 0 \in 0..MaxFaults /\ 0 <= MaxRows /\ 0 <= BufferCap
      BY WorkerTaskAssumption
    <3>3. taskAborted = FALSE /\ faults = 0 /\ produced = 0
      BY <1>1
    <3> QED BY <3>1, <3>2, <3>3
  <2> QED BY <2>1, <2>2, <2>3, <2>4 DEF WorkerTyped
<1>5. RowsSound
  <2>1. HoldsSound(buffer, retry, pending, produced, seqno)
    <3>1. Held(pending) = {} /\ pending.kind = "none"
      BY <1>1 DEF Held, NoEnvelope
    <3>2. buffer \in Seq(Nat) /\ retry \in Seq(Nat)
      BY <1>1
    <3>3. /\ ToSet(buffer) = {} /\ ToSet(retry) = {}
          /\ Distinct(buffer) /\ Distinct(retry)
      BY <1>1, <3>2, NothingInEmpty
    <3> QED BY <3>1, <3>2, <3>3, <1>1 DEF HoldsSound
  <2>2. ResultsSound(server.results, produced, seqno)
    BY <1>1 DEF ResultsSound
  <2>3. Apart(buffer, retry, pending, server.results)
    BY <1>1 DEF Apart
  <2>4. Accounted(buffer, retry, pending, server.results, produced, dropped)
    BY <1>1 DEF Accounted
  <2> QED BY <2>1, <2>2, <2>3, <2>4 DEF RowsSound, Sound
<1>6. Carried
  BY <1>2 DEF Carried, Callers
<1>7. ChainSound
  BY <1>1 DEF ChainSound
<1>8. EndSound /\ SummaryIsLast /\ TerminalReported
  BY <1>1, <1>3 DEF EndSound, SummaryIsLast, TerminalReported, NoEnvelope
<1> QED BY <1>4, <1>5, <1>6, <1>7, <1>8 DEF WorkerInv

\* The invariant gives what a reader of the stored results relies on.
LEMMA WorkerInvExact == WorkerInv => ResultsAreExact
<1> SUFFICES ASSUME WorkerInv PROVE ResultsAreExact
  OBVIOUS
<1>1. /\ HoldsSound(buffer, retry, pending, produced, seqno)
      /\ ResultsSound(server.results, produced, seqno) /\ dropped \subseteq 1..produced
  BY DEF WorkerInv, RowsSound, Sound, Accounted
<1>2. WorkerTypeOK
  <2>1. pending.seq \in {0, seqno}
    <3>1. CASE pending = NoEnvelope
      BY <3>1 DEF NoEnvelope
    <3>2. CASE pending # NoEnvelope
      <4>1. pending \in Envelopes
        BY <1>1, <3>2 DEF HoldsSound
      <4>2. pending.kind # "none"
        BY <4>1 DEF Envelopes, Batches, Summaries
      <4> QED BY <4>2, <1>1 DEF HoldsSound
    <3> QED BY <3>1, <3>2
  <2>2. produced \in 0..MaxRows
    BY <1>1, WorkerTaskAssumption DEF WorkerInv, WorkerTyped, HoldsSound
  <2>3. ToSet(buffer) \cup ToSet(retry) \subseteq 1..produced /\ seqno \in Nat
    BY <1>1 DEF HoldsSound
  <2>4. server.status \in {"running", "ended"} \cup Terminal
    BY DEF WorkerInv, WorkerTyped, Servers
  <2> QED BY <1>1, <2>1, <2>2, <2>3, <2>4 DEF WorkerTypeOK, WorkerInv, WorkerTyped, Phases, Outcomes
<1>3. DoneMeansAllStored
  BY DEF WorkerInv, EndSound, Complete, AllKept, DoneMeansAllStored
<1>4. NoRowTwice
  <2> SUFFICES ASSUME NEW i \in Stored("batch"), NEW j \in Stored("batch"),
                      NEW k \in DOMAIN server.results[i].data, NEW l \in DOMAIN server.results[j].data,
                      server.results[i].data[k] = server.results[j].data[l]
               PROVE  i = j /\ k = l
    BY DEF NoRowTwice
  <2>1. /\ i \in DOMAIN server.results /\ j \in DOMAIN server.results
        /\ server.results[i].kind = "batch" /\ server.results[j].kind = "batch"
    BY DEF Stored
  <2>2. i = j
    <3>1. server.results[i].data[k] \in Held(server.results[i]) /\ server.results[j].data[l] \in Held(server.results[j])
      BY <2>1 DEF Held, ToSet
    <3>2. i # j => Held(server.results[i]) \cap Held(server.results[j]) = {}
      BY <2>1, <1>1 DEF ResultsSound
    <3> QED BY <3>1, <3>2
  <2>3. k = l
    BY <2>1, <2>2, <1>1 DEF ResultsSound, Distinct
  <2> QED BY <2>2, <2>3
<1> QED BY <1>2, <1>3, <1>4 DEF ResultsAreExact, WorkerInv

\* Every step of the task keeps the invariant.
LEMMA WorkerInvKept == WorkerInv /\ [WorkerNext]_workerVars => WorkerInv'
<1> SUFFICES ASSUME WorkerInv, [WorkerNext]_workerVars PROVE WorkerInv'
  OBVIOUS
<1>1. CASE Network
  <2>1. PICK c \in Callers : Acknowledged(c) \/ Refused(c) \/ Rejected(c) \/ Lost(c) \/ AbortedRequest(c)
    BY <1>1 DEF Network
  <2> QED BY <2>1, AcknowledgedKeeps, RefusedKeeps, FailingKeeps
<1>2. CASE Run
  BY <1>2, StartKeeps, BufferRowKeeps, SendRowKeeps, StepsOverKeeps, DrainKeeps, SummaryKeeps, StatusKeeps DEF Run
<1>3. CASE Flushing
  BY <1>3, FlushKeeps, DrainDiscardsKeeps DEF Flushing
<1>4. CASE Tick
  BY <1>4, TickKeeps
<1>5. CASE Abort \/ AttemptEnds
  BY <1>5, OutsideKeeps
<1>6. CASE RunAborted
  BY <1>6, RunAbortedKeeps
<1>7. CASE UNCHANGED workerVars
  BY <1>7, StutterKeeps
<1> QED BY <1>1, <1>2, <1>3, <1>4, <1>5, <1>6, <1>7 DEF WorkerNext, Quiet

\* For every number of rows, batch size, buffer cap, number of attempts and of faults:
\* a task the server has as done has every row the rule produced and did not give up,
\* none of them twice, the summary is its last result, and a run that could report ended
\* with a terminal status (sendVersionedResult, flush and runTask together).
THEOREM ResultsAlwaysExact == WorkerSpec => []ResultsAreExact
<1>1. WorkerSpec => []WorkerInv
  BY WorkerInitSound, WorkerInvKept, PTL DEF WorkerSpec
<1> QED BY <1>1, WorkerInvExact, PTL

-----------------------------------------------------------------------------
(* The gates of a rule.                                                     *)

\* A list of times in order, none after now.
Rising(s) == \A i, j \in DOMAIN s : i <= j => s[i] <= s[j]
UpTo(s, now) == \A i \in DOMAIN s : s[i] <= now

\* f is how s ends.
EndOf(f, s) == Len(f) <= Len(s) /\ \A j \in 1..Len(f) : f[j] = s[Len(s) - Len(f) + j]

\* The last failures a breaker remembers are no later than the last ones reported.
Covered(f, r) == Len(f) <= Len(r) /\ \A j \in 1..Len(f) : f[j] <= r[Len(r) - Len(f) + j]

\* All of them are in the window.
Recents(f, now) == \A j \in DOMAIN f : now - f[j] < WindowMs

\* The failures in the window are the last ones.
LEMMA WithinIsEnd ==
  ASSUME NEW s \in Seq(1..MaxTime), Rising(s), NEW now \in Nat
  PROVE  /\ Within(s, now) \in Seq(1..MaxTime)
         /\ EndOf(Within(s, now), s) /\ Recents(Within(s, now), now)
<1> DEFINE N == Len(s)
           Body(g, k) == IF k = 0 THEN <<>>
                         ELSE IF now - s[k] < WindowMs THEN Append(g[k - 1], s[k]) ELSE g[k - 1]
           Solves(g, k) == g = [i \in 0..k |-> g[i]] /\ \A i \in 0..k : g[i] = Body(g, i)
           Good == {k \in 0..N : \E g : Solves(g, k)}
<1>0. N \in Nat /\ MaxTime \in Nat \ {0} /\ WindowMs \in Nat /\ DOMAIN s = 1..N
  BY GuardsAssumption
<1> HIDE DEF N
<1>1. \A k \in 0..N : k \in Good
  <2>1. 0 \in Good
    <3> DEFINE g == [i \in 0..0 |-> <<>>]
    <3>1. Solves(g, 0)
      OBVIOUS
    <3> HIDE DEF Solves, g
    <3> QED BY <3>1, <1>0
  <2>2. ASSUME NEW k \in 0..N, k + 1 \in 0..N, k \in Good
        PROVE  k + 1 \in Good
    <3>1. PICK g : Solves(g, k)
      BY <2>2
    <3> DEFINE h == [i \in 0..(k + 1) |-> IF i \in 0..k THEN g[i] ELSE Body(g, k + 1)]
    <3>2. ASSUME NEW i \in 0..(k + 1) PROVE h[i] = Body(h, i)
      <4>1. CASE i \in 0..k
        <5>1. h[i] = Body(g, i)
          BY <3>1, <4>1
        <5>2. i # 0 => h[i - 1] = g[i - 1]
          BY <4>1
        <5> QED BY <5>1, <5>2
      <4>2. CASE i = k + 1
        <5>1. h[i] = Body(g, k + 1) /\ h[k] = g[k]
          BY <4>2
        <5> QED BY <4>2, <5>1
      <4> QED BY <4>1, <4>2
    <3>3. h = [i \in 0..(k + 1) |-> h[i]]
      OBVIOUS
    <3>4. Solves(h, k + 1)
      <4> HIDE DEF h, Body
      <4> QED BY <3>2, <3>3
    <3> HIDE DEF Solves, h
    <3> QED BY <2>2, <3>4
  <2> HIDE DEF Good
  <2> QED BY <2>1, <2>2, <1>0, CountUp
<1> DEFINE kept == CHOOSE g : g = [i \in 0..N |-> Body(g, i)]
<1>2. kept = [i \in 0..N |-> Body(kept, i)]
  <2>1. N \in 0..N
    BY <1>0
  <2>2. PICK g : Solves(g, N)
    BY <1>1, <2>1
  <2>3. g = [i \in 0..N |-> Body(g, i)]
    BY <2>2
  <2> HIDE DEF Body
  <2> QED BY <2>3
<1>3. Within(s, now) = kept[N]
  BY DEF Within, N
<1> HIDE DEF kept
<1> DEFINE Part(f, k) == /\ f \in Seq(1..MaxTime) /\ Len(f) <= k /\ Recents(f, now)
                         /\ \A j \in 1..Len(f) : f[j] = s[k - Len(f) + j]
           Ends == {k \in 0..N : Part(kept[k], k)}
<1>4. \A k \in 0..N : k \in Ends
  <2>1. 0 \in Ends
    <3>1. kept[0] = <<>>
      BY <1>0, <1>2
    <3>2. <<>> \in Seq(1..MaxTime) /\ Len(<<>>) = 0 /\ DOMAIN <<>> = {}
      OBVIOUS
    <3>3. Part(<<>>, 0)
      BY <1>0, <3>2 DEF Recents
    <3> HIDE DEF Part
    <3> QED BY <1>0, <3>1, <3>3
  <2>2. ASSUME NEW k \in 0..N, k + 1 \in 0..N, k \in Ends
        PROVE  k + 1 \in Ends
    <3> DEFINE f == kept[k]
               e == s[k + 1]
    <3>1. kept[k + 1] = Body(kept, k + 1)
      BY <1>2, <2>2
    <3>2. kept[k + 1] = IF now - e < WindowMs THEN Append(f, e) ELSE f
      BY <3>1
    <3>3. Part(f, k)
      BY <2>2
    <3>4. e \in 1..MaxTime /\ k \in Nat /\ k + 1 \in DOMAIN s
      BY <1>0, <2>2
    <3> HIDE DEF f, Ends
    <3>5. f \in Seq(1..MaxTime) /\ Len(f) \in Nat /\ Len(f) <= k /\ DOMAIN f = 1..Len(f)
      BY <3>3
    <3>6. Part(kept[k + 1], k + 1)
      <4>1. CASE now - e < WindowMs
        <5> DEFINE h == Append(f, e)
        <5>1. /\ h \in Seq(1..MaxTime) /\ Len(h) = Len(f) + 1 /\ DOMAIN h = 1..Len(f) + 1
              /\ h[Len(f) + 1] = e /\ \A j \in 1..Len(f) : h[j] = f[j]
          BY <3>4, <3>5
        <5>2. kept[k + 1] = h
          BY <3>2, <4>1
        <5> HIDE DEF h, e
        <5>3. Recents(h, now)
          BY <3>3, <3>5, <4>1, <5>1 DEF Recents
        <5>4. ASSUME NEW j \in 1..Len(h) PROVE h[j] = s[k + 1 - Len(h) + j]
          <6>1. k + 1 - Len(h) + j = k - Len(f) + j
            BY <3>4, <3>5, <5>1
          <6>2. CASE j = Len(f) + 1
            <7>1. k - Len(f) + j = k + 1
              BY <6>2, <3>4, <3>5
            <7> QED BY <6>1, <6>2, <7>1, <5>1 DEF e
          <6>3. CASE j \in 1..Len(f)
            BY <6>1, <6>3, <3>3, <5>1
          <6> QED BY <6>2, <6>3, <3>5, <5>1
        <5>5. Len(h) <= k + 1
          BY <5>1, <3>4, <3>5
        <5>6. Part(h, k + 1)
          BY <5>1, <5>3, <5>4, <5>5
        <5> HIDE DEF Part
        <5> QED BY <5>2, <5>6
      <4>2. CASE ~(now - e < WindowMs)
        <5>1. Len(f) = 0
          <6> SUFFICES ASSUME Len(f) # 0 PROVE FALSE
            OBVIOUS
          <6>1. 1 \in DOMAIN f /\ 1 \in 1..Len(f) /\ k - Len(f) + 1 \in DOMAIN s /\ k - Len(f) + 1 <= k + 1
            BY <1>0, <3>4, <3>5
          <6>2. f[1] = s[k - Len(f) + 1] /\ now - f[1] < WindowMs
            BY <3>3, <6>1 DEF Recents
          <6> DEFINE i == k - Len(f) + 1
                     j == k + 1
          <6>3. i \in DOMAIN s /\ j \in DOMAIN s /\ i <= j /\ i \in Nat /\ j \in Nat
            BY <1>0, <3>4, <3>5, <6>1
          <6> HIDE DEF i, j
          <6>4. s[i] \in 1..MaxTime
            BY <1>0, <6>3
          <6>5. s[i] <= s[j]
            BY <6>3, Zenon DEF Rising
          <6>6. f[1] = s[i] /\ e = s[j]
            BY <6>2 DEF i, j, e
          <6>7. now - s[i] < WindowMs /\ ~(now - s[j] < WindowMs)
            BY <6>2, <6>6, <4>2
          <6>8. s[j] \in 1..MaxTime /\ now \in Nat /\ WindowMs \in Nat
            BY <1>0, <6>3
          <6> HIDE DEF f, e
          <6> QED BY <6>4, <6>5, <6>7, <6>8, SMTT(30)
        <5>2. kept[k + 1] = f
          BY <3>2, <4>2
        <5>3. 1..Len(f) = {} /\ Len(f) <= k + 1
          BY <3>4, <3>5, <5>1
        <5>4. Part(f, k + 1)
          BY <3>3, <5>3
        <5> HIDE DEF Part
        <5> QED BY <5>2, <5>4
      <4> QED BY <4>1, <4>2
    <3> QED BY <2>2, <3>6 DEF Ends
  <2> HIDE DEF Ends
  <2> QED BY <2>1, <2>2, <1>0, CountUp
<1>5. Part(kept[N], N)
  <2>1. N \in Ends
    <3>1. N \in 0..N
      BY <1>0
    <3> HIDE DEF Ends
    <3> QED BY <1>4, <3>1
  <2> HIDE DEF Part
  <2> QED BY <2>1
<1>6. EndOf(kept[N], s) /\ Recents(kept[N], now) /\ kept[N] \in Seq(1..MaxTime)
  BY <1>5 DEF EndOf, N
<1> QED BY <1>3, <1>6

\* The times a breaker can remember.
Times == 1..MaxTime

\* Lists of times, as the lemmas below take them.
LEMMA TimeLists ==
  ASSUME NEW s \in Seq(Times)
  PROVE  /\ Len(s) \in Nat /\ DOMAIN s = 1..Len(s) /\ MaxTime \in Nat
         /\ \A i \in DOMAIN s : s[i] \in Nat /\ s[i] \in Times
BY GuardsAssumption DEF Times

\* The present is added to a list of times.
LEMMA NowAdded ==
  ASSUME NEW s \in Seq(Times), NEW now \in Times, Rising(s), UpTo(s, now)
  PROVE  /\ Append(s, now) \in Seq(Times) /\ Len(Append(s, now)) = Len(s) + 1
         /\ Append(s, now)[Len(s) + 1] = now /\ \A i \in DOMAIN s : Append(s, now)[i] = s[i]
         /\ Rising(Append(s, now)) /\ UpTo(Append(s, now), now)
<1> DEFINE h == Append(s, now)
<1>1. /\ h \in Seq(Times) /\ Len(h) = Len(s) + 1 /\ DOMAIN h = 1..Len(s) + 1
      /\ h[Len(s) + 1] = now /\ \A i \in DOMAIN s : h[i] = s[i]
  OBVIOUS
<1>2. Len(s) \in Nat /\ DOMAIN s = 1..Len(s) /\ now \in Nat /\ \A i \in DOMAIN s : s[i] \in Nat
  BY TimeLists, GuardsAssumption DEF Times
<1> HIDE DEF h
<1>3. \A i \in DOMAIN h : (h[i] = now /\ i = Len(s) + 1) \/ (i \in DOMAIN s /\ h[i] = s[i] /\ s[i] <= now)
  BY <1>1, <1>2 DEF UpTo
<1>4. UpTo(h, now)
  BY <1>2, <1>3 DEF UpTo
<1>5. Rising(h)
  <2> SUFFICES ASSUME NEW i \in DOMAIN h, NEW j \in DOMAIN h, i <= j PROVE h[i] <= h[j]
    BY DEF Rising
  <2>1. CASE h[j] = now
    BY <2>1, <1>4 DEF UpTo
  <2>2. CASE j \in DOMAIN s /\ h[j] = s[j]
    <3>1. i \in DOMAIN s /\ h[i] = s[i]
      BY <2>2, <1>1, <1>2, <1>3
    <3> QED BY <3>1, <2>2 DEF Rising
  <2> QED BY <2>1, <2>2, <1>3
<1> QED BY <1>1, <1>4, <1>5 DEF h

\* The end of a list in order is in order.
LEMMA EndInOrder ==
  ASSUME NEW s \in Seq(Times), NEW f \in Seq(Times), NEW now \in Nat,
         EndOf(f, s), Rising(s), UpTo(s, now)
  PROVE  Rising(f) /\ UpTo(f, now)
<1>1. /\ Len(s) \in Nat /\ DOMAIN s = 1..Len(s) /\ Len(f) \in Nat /\ DOMAIN f = 1..Len(f)
      /\ Len(f) <= Len(s)
  BY TimeLists DEF EndOf
<1> DEFINE at(j) == Len(s) - Len(f) + j
<1>2. \A j \in DOMAIN f : at(j) \in DOMAIN s /\ at(j) \in Nat /\ f[j] = s[at(j)]
  BY <1>1 DEF EndOf
<1>3. \A i, j \in DOMAIN f : i <= j => at(i) <= at(j)
  BY <1>1
<1> HIDE DEF at
<1>4. Rising(f)
  BY <1>2, <1>3, Zenon DEF Rising
<1> QED BY <1>2, <1>4 DEF UpTo

\* The end of a covered list is covered.
LEMMA EndCovered ==
  ASSUME NEW g \in Seq(Times), NEW f \in Seq(Times), NEW r \in Seq(Times), EndOf(g, f), Covered(f, r)
  PROVE  Covered(g, r)
<1>1. /\ Len(g) \in Nat /\ Len(f) \in Nat /\ Len(r) \in Nat /\ Len(g) <= Len(f) /\ Len(f) <= Len(r)
  BY TimeLists DEF EndOf, Covered
<1>2. ASSUME NEW j \in 1..Len(g) PROVE g[j] <= r[Len(r) - Len(g) + j]
  <2> DEFINE i == Len(f) - Len(g) + j
  <2>1. i \in 1..Len(f) /\ Len(r) - Len(f) + i = Len(r) - Len(g) + j
    BY <1>1
  <2>2. g[j] = f[i]
    BY DEF EndOf
  <2> HIDE DEF i
  <2>3. f[i] <= r[Len(r) - Len(f) + i]
    BY <2>1 DEF Covered
  <2> QED BY <2>1, <2>2, <2>3
<1> QED BY <1>1, <1>2 DEF Covered

\* Both lists grow by the present, or the covering one alone does.
LEMMA CoverGrows ==
  ASSUME NEW f \in Seq(Times), NEW r \in Seq(Times), NEW now \in Times, Covered(f, r),
         Rising(r), UpTo(r, now), Rising(f), UpTo(f, now)
  PROVE  Covered(Append(f, now), Append(r, now)) /\ Covered(f, Append(r, now))
<1> DEFINE h == Append(f, now)
           q == Append(r, now)
<1>1. /\ Len(f) \in Nat /\ Len(r) \in Nat /\ Len(f) <= Len(r) /\ now \in Nat
      /\ DOMAIN f = 1..Len(f) /\ DOMAIN r = 1..Len(r)
      /\ \A i \in DOMAIN r : r[i] \in Nat
      /\ \A i \in DOMAIN f : f[i] \in Nat
  BY TimeLists, GuardsAssumption DEF Covered, Times
<1>2. /\ Len(h) = Len(f) + 1 /\ h[Len(f) + 1] = now /\ \A i \in DOMAIN f : h[i] = f[i]
      /\ Len(q) = Len(r) + 1 /\ q[Len(r) + 1] = now /\ \A i \in DOMAIN r : q[i] = r[i]
  BY NowAdded
<1> HIDE DEF h, q
<1>3. ASSUME NEW j \in 1..Len(h) PROVE h[j] <= q[Len(q) - Len(h) + j]
  <2> DEFINE i == Len(r) - Len(f) + j
  <2>1. Len(q) - Len(h) + j = i
    BY <1>1, <1>2
  <2>2. CASE j = Len(f) + 1
    <3>1. i = Len(r) + 1
      BY <2>2, <1>1
    <3> QED BY <2>1, <2>2, <3>1, <1>1, <1>2
  <2>3. CASE j \in 1..Len(f)
    <3>1. i \in DOMAIN r
      BY <2>3, <1>1
    <3>2. f[j] <= r[i]
      BY <2>3 DEF Covered
    <3> HIDE DEF i
    <3> QED BY <2>1, <2>3, <3>1, <3>2, <1>1, <1>2
  <2> QED BY <2>2, <2>3, <1>1, <1>2
<1>4. ASSUME NEW j \in 1..Len(f) PROVE f[j] <= q[Len(q) - Len(f) + j]
  <2> DEFINE i == Len(r) - Len(f) + j
  <2>0. j \in Nat /\ 1 <= j /\ j <= Len(f)
    BY <1>1
  <2>1. Len(q) - Len(f) + j = i + 1 /\ i \in DOMAIN r /\ (i = Len(r) \/ i + 1 \in DOMAIN r) /\ i <= i + 1 /\ i \in Nat
    <3> DEFINE m == Len(r)
               n == Len(f)
    <3>1. m \in Nat /\ n \in Nat /\ n <= m /\ j \in Nat /\ 1 <= j /\ j <= n /\ Len(q) = m + 1 /\ i = m - n + j
          /\ DOMAIN r = 1..m
      BY <1>1, <1>2, <2>0
    <3> HIDE DEF m, n, i
    <3>2. i \in 1..m /\ Len(q) - n + j = i + 1 /\ (i = m \/ i + 1 \in 1..m)
      BY <3>1
    <3>3. i \in Nat /\ i <= i + 1
      BY <3>1, <3>2
    <3> QED BY <3>1, <3>2, <3>3 DEF m, n
  <2>2. f[j] <= r[i]
    BY DEF Covered
  <2> HIDE DEF i
  <2>3. CASE i = Len(r)
    BY <2>1, <2>2, <2>3, <1>1, <1>2 DEF UpTo
  <2>4. CASE i + 1 \in DOMAIN r
    <3>1. r[i] <= r[i + 1]
      BY <2>1, <2>4 DEF Rising
    <3>2. q[i + 1] = r[i + 1]
      BY <2>4, <1>2
    <3>3. f[j] \in Nat /\ r[i] \in Nat /\ r[i + 1] \in Nat
      BY <2>1, <2>4, <1>1
    <3> QED BY <2>1, <2>2, <3>1, <3>2, <3>3
  <2> QED BY <2>1, <2>3, <2>4
<1>5. Len(h) <= Len(q) /\ Len(f) <= Len(q)
  BY <1>1, <1>2
<1>6. Covered(h, q) /\ Covered(f, q)
  BY <1>3, <1>4, <1>5 DEF Covered
<1> QED BY <1>6 DEF h, q

\* As many failures were reported in the window as the breaker remembers there.
LEMMA CoveredAreRecent ==
  ASSUME NEW f \in Seq(Times), NEW r \in Seq(Times), NEW now \in Nat,
         Covered(f, r), Recents(f, now), UpTo(r, now)
  PROVE  Recent(r, now) \in Nat /\ Recent(r, now) >= Len(f)
<1> DEFINE R == {i \in DOMAIN r : r[i] <= now /\ now - r[i] < WindowMs}
           I == (Len(r) - Len(f) + 1)..Len(r)
<1>1. /\ Len(f) \in Nat /\ Len(r) \in Nat /\ Len(f) <= Len(r) /\ WindowMs \in Nat
      /\ DOMAIN f = 1..Len(f) /\ DOMAIN r = 1..Len(r)
      /\ \A i \in DOMAIN r : r[i] \in Nat
      /\ \A i \in DOMAIN f : f[i] \in Nat
  BY TimeLists, GuardsAssumption DEF Covered
<1>2. I \subseteq R
  <2> SUFFICES ASSUME NEW i \in I PROVE i \in R
    OBVIOUS
  <2> DEFINE j == i - (Len(r) - Len(f))
  <2>1. j \in 1..Len(f) /\ Len(r) - Len(f) + j = i /\ i \in DOMAIN r
    BY <1>1
  <2> HIDE DEF j, I
  <2>2. f[j] <= r[i]
    BY <2>1 DEF Covered
  <2>3. now - f[j] < WindowMs /\ f[j] \in Nat /\ r[i] \in Nat
    BY <1>1, <2>1 DEF Recents
  <2>4. r[i] <= now
    BY <2>1 DEF UpTo
  <2> QED BY <1>1, <2>1, <2>2, <2>3, <2>4
<1>3. IsFiniteSet(DOMAIN r) /\ R \subseteq DOMAIN r
  BY <1>1, FS_Interval
<1>4. IsFiniteSet(R)
  <2> HIDE DEF R
  <2> QED BY <1>3, FS_Subset
<1>5. Cardinality(I) = Len(f) /\ IsFiniteSet(I)
  <2>1. Len(r) - Len(f) + 1 \in Int /\ Len(r) \in Int
    BY <1>1
  <2>2. Cardinality(I) = IF Len(r) - Len(f) + 1 > Len(r) THEN 0 ELSE Len(r) - (Len(r) - Len(f) + 1) + 1
    BY <2>1, FS_Interval
  <2>3. IsFiniteSet(I)
    BY <2>1, FS_Interval
  <2> QED BY <1>1, <2>2, <2>3
<1> HIDE DEF I, R
<1>6. Cardinality(I) <= Cardinality(R) /\ Cardinality(R) \in Nat
  BY <1>2, <1>4, FS_Subset, FS_CardinalityType
<1> QED BY <1>5, <1>6 DEF Recent, R

\* Reports that come later do not make earlier ones fewer.
LEMMA RecentGrows ==
  ASSUME NEW r \in Seq(Times), NEW now \in Times, NEW t \in Nat
  PROVE  Recent(r, t) \in Nat /\ Recent(Append(r, now), t) \in Nat
         /\ Recent(r, t) <= Recent(Append(r, now), t)
<1> DEFINE q == Append(r, now)
           R == {i \in DOMAIN r : r[i] <= t /\ t - r[i] < WindowMs}
           Q == {i \in DOMAIN q : q[i] <= t /\ t - q[i] < WindowMs}
<1>1. /\ Len(r) \in Nat /\ DOMAIN r = 1..Len(r) /\ DOMAIN q = 1..Len(r) + 1
      /\ \A i \in DOMAIN r : q[i] = r[i] /\ i \in DOMAIN q
  BY TimeLists
<1> HIDE DEF q
<1>2. R \subseteq Q /\ Q \subseteq DOMAIN q
  BY <1>1
<1>3. IsFiniteSet(DOMAIN q)
  <2>1. 1 \in Int /\ Len(r) + 1 \in Int
    BY <1>1
  <2> QED BY <1>1, <2>1, FS_Interval
<1> HIDE DEF Q, R
<1>4. IsFiniteSet(Q)
  BY <1>2, <1>3, FS_Subset
<1>5. IsFiniteSet(R) /\ Cardinality(R) <= Cardinality(Q)
  BY <1>2, <1>4, FS_Subset
<1>6. Cardinality(R) \in Nat /\ Cardinality(Q) \in Nat
  BY <1>4, <1>5, FS_CardinalityType
<1> QED BY <1>5, <1>6 DEF Recent, R, Q, q

\* What an older version left in the window: a counter.
CounterRows == [counter : Nat, lastFailure : {1}]
\* A breaker of this version that is open.
Open(b) == ~IsCounter(b) /\ b.open

\* What a breaker remembers, of a tab where r was reported.
StateSound(b, r, now) ==
  IF IsCounter(b) THEN b \in CounterRows /\ r = [i \in 1..b.counter |-> 1]
  ELSE /\ b \in CircuitBreakerState /\ ~(b.open /\ b.halfOpen)
       /\ Rising(b.failures) /\ UpTo(b.failures, now)
       /\ ~b.open => Len(b.failures) <= FailureThreshold /\ Covered(b.failures, r)

\* A breaker of this version is no counter, a counter of an older one is.
LEMMA RowKinds ==
  /\ \A b \in CircuitBreakerState : ~IsCounter(b)
  /\ \A b \in CounterRows : IsCounter(b) /\ b.counter \in Nat /\ b.lastFailure = 1
BY DEF CircuitBreakerState, CounterRows, IsCounter

\* The failures a handler starts from: those in the window, and those of an old counter.
LEMMA Prepared ==
  ASSUME NEW now \in Times, NEW r \in Seq(Times), Rising(r), UpTo(r, now),
         NEW b, StateSound(b, r, now), NEW st, st = Pruned(NormalizeCircuitBreakerState(b, now), now)
  PROVE  /\ st \in CircuitBreakerState /\ ~(st.open /\ st.halfOpen)
         /\ st.open <=> Open(b)
         /\ st.halfOpen <=> ~IsCounter(b) /\ b.halfOpen
         /\ st.open => st.openedAt = b.openedAt
         /\ Rising(st.failures) /\ UpTo(st.failures, now) /\ Recents(st.failures, now)
         /\ ~st.open => Len(st.failures) <= FailureThreshold /\ Covered(st.failures, r)
<1> DEFINE n == NormalizeCircuitBreakerState(b, now)
<1>0. now \in Nat /\ MaxTime \in Nat \ {0} /\ FailureThreshold \in Nat \ {0} /\ 1 \in Times /\ 1 <= now
  BY GuardsAssumption DEF Times
<1>1. /\ n \in CircuitBreakerState /\ ~(n.open /\ n.halfOpen)
      /\ n.open <=> Open(b)
      /\ n.halfOpen <=> ~IsCounter(b) /\ b.halfOpen
      /\ n.open => n.openedAt = b.openedAt
      /\ Rising(n.failures) /\ UpTo(n.failures, now)
      /\ ~n.open => Len(n.failures) <= FailureThreshold /\ Covered(n.failures, r)
  <2>1. CASE IsCounter(b)
    <3> DEFINE c == b.counter
               m == Smaller(c, FailureThreshold)
               f == [i \in 1..m |-> 1]
    <3>1. c \in Nat /\ b.lastFailure = 1 /\ r = [i \in 1..c |-> 1]
      BY <2>1, RowKinds DEF StateSound
    <3>2. m \in Nat /\ m <= c /\ m <= FailureThreshold
      BY <1>0, <3>1 DEF Smaller
    <3>3. n = [ClosedBreaker EXCEPT !.failures = f]
      BY <2>1, <3>1 DEF NormalizeCircuitBreakerState
    <3> HIDE DEF n, m, c
    <3>4. f \in Seq(Times) /\ Len(f) = m /\ DOMAIN f = 1..m /\ Len(r) = c
      BY <1>0, <3>1, <3>2
    <3>5. n \in CircuitBreakerState /\ n.failures = f /\ n.open = FALSE /\ n.halfOpen = FALSE
      <4> HIDE DEF f
      <4>1. n = [failures |-> f, open |-> FALSE, openedAt |-> 0, halfOpen |-> FALSE, probeStartedAt |-> 0]
        BY <3>3 DEF ClosedBreaker
      <4> QED BY <1>0, <3>4, <4>1 DEF CircuitBreakerState, Times
    <3>6. Rising(f) /\ UpTo(f, now)
      BY <1>0, <3>4 DEF Rising, UpTo
    <3>7. Covered(f, r)
      <4>1. \A j \in 1..m : c - m + j \in 1..c
        BY <3>1, <3>2
      <4> QED BY <3>1, <3>2, <3>4, <4>1 DEF Covered
    <3> QED BY <2>1, <3>2, <3>4, <3>5, <3>6, <3>7 DEF Open
  <2>2. CASE ~IsCounter(b)
    <3>1. n = b
      BY <2>2 DEF NormalizeCircuitBreakerState
    <3> QED BY <2>2, <3>1 DEF StateSound, Open
  <2> QED BY <2>1, <2>2
<1> HIDE DEF n
<1> DEFINE f == n.failures
           g == Within(f, now)
<1>2. f \in Seq(Times)
  BY <1>1 DEF CircuitBreakerState, Times
<1>3. g \in Seq(Times) /\ EndOf(g, f) /\ Recents(g, now)
  BY <1>0, <1>1, <1>2, WithinIsEnd DEF Times
<1>4. Rising(g) /\ UpTo(g, now)
  <2> HIDE DEF f, g
  <2> QED BY <1>0, <1>1, <1>2, <1>3, EndInOrder DEF f
<1>5. /\ st \in CircuitBreakerState /\ st.failures = g /\ st.open = n.open /\ st.halfOpen = n.halfOpen
      /\ st.openedAt = n.openedAt
  <2>1. st = [n EXCEPT !.failures = g]
    BY DEF Pruned, n
  <2> HIDE DEF g
  <2> QED BY <1>1, <1>3, <2>1 DEF CircuitBreakerState, Times
<1>6. ASSUME ~n.open PROVE Len(g) <= FailureThreshold /\ Covered(g, r)
  <2> HIDE DEF g
  <2>1. Len(f) <= FailureThreshold /\ Covered(f, r)
    BY <1>1, <1>6
  <2>2. Len(g) <= Len(f) /\ Len(g) \in Nat /\ Len(f) \in Nat
    BY <1>2, <1>3, TimeLists DEF EndOf
  <2>3. Len(g) <= FailureThreshold
    BY <1>0, <2>1, <2>2
  <2> HIDE DEF f
  <2>4. Covered(g, r)
    BY <1>2, <1>3, <2>1, EndCovered
  <2> QED BY <2>3, <2>4
<1> HIDE DEF f, g
<1> QED BY <1>1, <1>3, <1>4, <1>5, <1>6

\* The breakers a step writes, field by field.
LEMMA Written ==
  ASSUME NEW st \in CircuitBreakerState, NEW f, NEW now
  PROVE  /\ [st EXCEPT !.failures = f] =
              [failures |-> f, open |-> st.open, openedAt |-> st.openedAt,
               halfOpen |-> st.halfOpen, probeStartedAt |-> st.probeStartedAt]
         /\ Opened([st EXCEPT !.failures = f], now) =
              [failures |-> f, open |-> TRUE, openedAt |-> now, halfOpen |-> FALSE, probeStartedAt |-> 0]
<1>1. st = [failures |-> st.failures, open |-> st.open, openedAt |-> st.openedAt,
            halfOpen |-> st.halfOpen, probeStartedAt |-> st.probeStartedAt]
  BY DEF CircuitBreakerState
<1>2. [st EXCEPT !.failures = f] =
        [failures |-> f, open |-> st.open, openedAt |-> st.openedAt,
         halfOpen |-> st.halfOpen, probeStartedAt |-> st.probeStartedAt]
  BY <1>1
<1>3. Opened([st EXCEPT !.failures = f], now) =
        [failures |-> f, open |-> TRUE, openedAt |-> now, halfOpen |-> FALSE, probeStartedAt |-> 0]
  BY <1>2 DEF Opened
<1> QED BY <1>2, <1>3

\* The failures reported, after one report more.
Reports(r, how, now) == IF how = "failed" THEN Append(r, now) ELSE r

\* What a circuitBreaker step makes of the breaker.
LEMMA Handled ==
  ASSUME NEW now \in Times, NEW r \in Seq(Times), Rising(r), UpTo(r, now),
         NEW b, StateSound(b, r, now), NEW how, NEW out, out = HandleCircuitBreaker(b, how, now)
  PROVE  LET q == Reports(r, how, now) IN
         /\ ~IsCounter(out.state) /\ StateSound(out.state, q, now)
         /\ out.state.open =>
              \/ /\ how = "failed" /\ out.state.openedAt = now
                 /\ Tripped(b) \/ Recent(q, now) >= FailureThreshold
              \/ Open(b) /\ Cooling(b, now) /\ out.state.openedAt = b.openedAt
         /\ out.pass => ~(Open(b) /\ Cooling(b, now))
         /\ Open(b) /\ Cooling(b, now) => out.state.open /\ out.state.openedAt = b.openedAt
         /\ how = "failed" /\ Probing(b, now) => out.state.open /\ out.state.openedAt = now
<1> DEFINE st == Pruned(NormalizeCircuitBreakerState(b, now), now)
           q == Reports(r, how, now)
           f == st.failures
           h == Append(f, now)
           s == out.state
<1>0. now \in Nat /\ MaxTime \in Nat \ {0} /\ FailureThreshold \in Nat \ {0} /\ 0 \in 0..MaxTime /\ now \in 0..MaxTime
  BY GuardsAssumption DEF Times
<1>1. /\ st \in CircuitBreakerState /\ ~(st.open /\ st.halfOpen)
      /\ st.open <=> Open(b)
      /\ st.halfOpen <=> ~IsCounter(b) /\ b.halfOpen
      /\ st.open => st.openedAt = b.openedAt
      /\ Rising(f) /\ UpTo(f, now) /\ Recents(f, now)
      /\ ~st.open => Len(f) <= FailureThreshold /\ Covered(f, r)
  <2> HIDE DEF st
  <2> QED BY Prepared DEF st
<1>2. f \in Seq(Times) /\ Len(f) \in Nat /\ st.openedAt \in 0..MaxTime /\ st.halfOpen \in BOOLEAN /\ st.open \in BOOLEAN
      /\ st.probeStartedAt \in 0..MaxTime
  <2> HIDE DEF st
  <2> QED BY <1>1 DEF CircuitBreakerState, Times
<1>3. st.open => (Cooling(st, now) <=> Cooling(b, now))
  <2> HIDE DEF st
  <2> QED BY <1>1 DEF Cooling
<1>4. /\ st.open /\ Cooling(st, now) => out = [state |-> st, pass |-> FALSE]
      /\ st.open /\ ~Cooling(st, now) => out = Probe(st, how, now)
      /\ ~st.open /\ st.halfOpen => out = HalfOpen(st, how, now)
      /\ ~st.open /\ ~st.halfOpen /\ how # "failed" => out = [state |-> st, pass |-> TRUE]
      /\ ~st.open /\ ~st.halfOpen /\ how = "failed" /\ Len(h) >= FailureThreshold =>
           out = [state |-> Opened([st EXCEPT !.failures = h], now), pass |-> FALSE]
      /\ ~st.open /\ ~st.halfOpen /\ how = "failed" /\ ~(Len(h) >= FailureThreshold) =>
           out = [state |-> [st EXCEPT !.failures = h], pass |-> TRUE]
  <2>1. out = LET more == [st EXCEPT !.failures = h]
              IN  CASE st.open /\ Cooling(st, now) -> [state |-> st, pass |-> FALSE]
                    [] st.open /\ ~Cooling(st, now) -> Probe(st, how, now)
                    [] ~st.open /\ st.halfOpen -> HalfOpen(st, how, now)
                    [] OTHER ->
                         IF how # "failed" THEN [state |-> st, pass |-> TRUE]
                         ELSE IF Len(more.failures) >= FailureThreshold
                              THEN [state |-> Opened(more, now), pass |-> FALSE]
                              ELSE [state |-> more, pass |-> TRUE]
    BY DEF HandleCircuitBreaker
  <2> HIDE DEF st, h
  <2>2. [st EXCEPT !.failures = h].failures = h
    BY <1>1 DEF CircuitBreakerState
  <2> QED BY <2>1, <2>2
<1> HIDE DEF st
<1>5. /\ q \in Seq(Times) /\ Rising(q) /\ UpTo(q, now)
      /\ \A g \in Seq(Times) : Rising(g) /\ UpTo(g, now) /\ Covered(g, r) => Covered(g, q)
  <2>1. CASE how = "failed"
    BY <2>1, NowAdded, CoverGrows DEF Reports
  <2>2. CASE how # "failed"
    BY <2>2 DEF Reports
  <2> QED BY <2>1, <2>2
<1>6. h \in Seq(Times) /\ Len(h) = Len(f) + 1 /\ Rising(h) /\ UpTo(h, now) /\ Len(h) \in Nat
  BY <1>1, <1>2, NowAdded
<1>7. Recents(h, now)
  <2>1. /\ DOMAIN h = 1..Len(f) + 1 /\ h[Len(f) + 1] = now /\ \A i \in 1..Len(f) : h[i] = f[i] /\ i \in DOMAIN f
    BY <1>2, <1>6, NowAdded, TimeLists
  <2>2. now - now < WindowMs
    BY <1>0, GuardsAssumption
  <2> HIDE DEF h
  <2> QED BY <1>1, <1>2, <2>1, <2>2 DEF Recents
<1>8. <<now>> \in Seq(Times) /\ Rising(<<now>>) /\ UpTo(<<now>>, now) /\ <<>> \in Seq(Times) /\ Rising(<<>>)
      /\ UpTo(<<>>, now) /\ Covered(<<>>, q) /\ Len(<<>>) = 0
  BY <1>0, <1>5, TimeLists DEF Rising, UpTo, Covered
<1>9. ASSUME ~st.open, how = "failed" PROVE Covered(h, q)
  <2> HIDE DEF f, h
  <2>1. Covered(f, r) /\ Rising(f) /\ UpTo(f, now) /\ f \in Seq(Times)
    BY <1>1, <1>2, <1>9
  <2> QED BY <2>1, <1>9, CoverGrows DEF Reports, h
<1>10. s \in CircuitBreakerState => ~IsCounter(s)
  BY RowKinds
<1> DEFINE Goal == /\ ~IsCounter(s) /\ StateSound(s, q, now)
                   /\ s.open =>
                        \/ /\ how = "failed" /\ s.openedAt = now
                           /\ Tripped(b) \/ Recent(q, now) >= FailureThreshold
                        \/ Open(b) /\ Cooling(b, now) /\ s.openedAt = b.openedAt
                   /\ out.pass => ~(Open(b) /\ Cooling(b, now))
                   /\ Open(b) /\ Cooling(b, now) => s.open /\ s.openedAt = b.openedAt
                   /\ how = "failed" /\ Probing(b, now) => s.open /\ s.openedAt = now
           Trip == [failures |-> <<now>>, open |-> TRUE, openedAt |-> now,
                    halfOpen |-> FALSE, probeStartedAt |-> 0]
<1>11. Tripped(b) <=> st.open \/ st.halfOpen
  BY <1>1 DEF Tripped, Open
<1>12. Probing(b, now) <=> st.halfOpen \/ (st.open /\ ~Cooling(b, now))
  BY <1>1, <1>11 DEF Probing, Open, Tripped
<1> HIDE DEF h, q
<1>13. SUFFICES Goal
  BY DEF q
<1>14. CASE st.open /\ Cooling(st, now)
  <2>1. s = st /\ ~out.pass /\ Cooling(b, now)
    BY <1>1, <1>4, <1>14 DEF Cooling
  <2>2. ~IsCounter(s) /\ StateSound(s, q, now)
    BY <1>1, <1>10, <1>14, <2>1 DEF StateSound
  <2> QED BY <1>1, <1>12, <1>14, <2>1, <2>2
<1>15. CASE Probing(b, now) /\ how = "failed"
  <2>1. out = [state |-> Trip, pass |-> FALSE]
    <3>1. CASE st.open
      <4>1. out = Probe(st, how, now)
        BY <1>1, <1>4, <1>12, <1>15, <3>1 DEF Cooling
      <4> QED BY <1>1, <1>15, <4>1, Written DEF Probe
    <3>2. CASE st.halfOpen /\ ~st.open
      <4>1. out = HalfOpen(st, how, now)
        BY <1>4, <3>2
      <4> QED BY <1>1, <1>15, <4>1, Written DEF HalfOpen
    <3> QED BY <1>12, <1>15, <3>1, <3>2
  <2>2. Trip \in CircuitBreakerState /\ s = Trip /\ ~out.pass
    BY <1>0, <1>8, <2>1 DEF CircuitBreakerState, Times
  <2>3. Trip.open = TRUE /\ Trip.openedAt = now /\ Trip.halfOpen = FALSE /\ Trip.failures = <<now>>
    OBVIOUS
  <2> HIDE DEF Trip
  <2>4. ~IsCounter(s) /\ StateSound(s, q, now)
    BY <1>8, <1>10, <2>2, <2>3 DEF StateSound
  <2>5. ~(Open(b) /\ Cooling(b, now)) /\ Tripped(b)
    BY <1>1, <1>12, <1>15 DEF Probing
  <2> QED BY <1>15, <2>2, <2>3, <2>4, <2>5
<1>16. CASE st.open /\ ~Cooling(st, now) /\ how # "failed"
  <2> DEFINE t == [failures |-> <<>>, open |-> FALSE, openedAt |-> 0, halfOpen |-> TRUE, probeStartedAt |-> now]
  <2>1. out = [state |-> t, pass |-> TRUE]
    BY <1>4, <1>16 DEF Probe
  <2>2. t \in CircuitBreakerState /\ t.open = FALSE /\ t.failures = <<>> /\ s = t
    BY <1>0, <1>8, <2>1 DEF CircuitBreakerState, Times
  <2>3. ~Cooling(b, now)
    BY <1>1, <1>16 DEF Cooling
  <2> HIDE DEF t
  <2>4. ~IsCounter(s) /\ StateSound(s, q, now)
    BY <1>0, <1>8, <1>10, <2>2 DEF StateSound
  <2> QED BY <1>16, <2>2, <2>3, <2>4
<1>17. CASE ~st.open /\ st.halfOpen /\ how # "failed"
  <2>1. out = [state |-> ClosedBreaker, pass |-> TRUE] /\ ~Open(b)
    BY <1>1, <1>4, <1>17 DEF HalfOpen
  <2>2. ClosedBreaker \in CircuitBreakerState /\ ClosedBreaker.failures = <<>> /\ ClosedBreaker.open = FALSE
    BY <1>0, <1>8 DEF ClosedBreaker, CircuitBreakerState, Times
  <2>3. ~IsCounter(s) /\ StateSound(s, q, now)
    BY <1>0, <1>8, <1>10, <2>1, <2>2 DEF StateSound
  <2> QED BY <1>17, <2>1, <2>2, <2>3
<1>18. CASE ~st.open /\ ~st.halfOpen /\ how # "failed"
  <2>1. s = st /\ q = r /\ ~Open(b)
    BY <1>1, <1>4, <1>18 DEF Reports, q
  <2>2. ~IsCounter(s) /\ StateSound(s, q, now)
    BY <1>1, <1>10, <1>18, <2>1 DEF StateSound
  <2> QED BY <1>18, <2>1, <2>2
<1>19. CASE ~st.open /\ ~st.halfOpen /\ how = "failed" /\ Len(h) >= FailureThreshold
  <2> DEFINE t == [failures |-> h, open |-> TRUE, openedAt |-> now, halfOpen |-> FALSE, probeStartedAt |-> 0]
  <2>1. out = [state |-> t, pass |-> FALSE] /\ ~Open(b) /\ ~Probing(b, now)
    BY <1>1, <1>4, <1>12, <1>19, Written
  <2>2. t \in CircuitBreakerState /\ t.failures = h /\ t.open = TRUE /\ t.openedAt = now /\ t.halfOpen = FALSE /\ s = t
    BY <1>0, <1>6, <2>1 DEF CircuitBreakerState, Times
  <2>3. Recent(q, now) >= FailureThreshold
    <3>1. Recent(q, now) \in Nat /\ Recent(q, now) >= Len(h)
      BY <1>0, <1>5, <1>6, <1>7, <1>9, <1>19, CoveredAreRecent
    <3> QED BY <1>0, <1>6, <1>19, <3>1
  <2> HIDE DEF t
  <2>4. ~IsCounter(s) /\ StateSound(s, q, now)
    BY <1>6, <1>10, <2>2 DEF StateSound
  <2> QED BY <1>19, <2>1, <2>2, <2>3, <2>4
<1>20. CASE ~st.open /\ ~st.halfOpen /\ how = "failed" /\ ~(Len(h) >= FailureThreshold)
  <2> DEFINE t == [st EXCEPT !.failures = h]
  <2>1. out = [state |-> t, pass |-> TRUE] /\ ~Open(b) /\ ~Probing(b, now)
    BY <1>1, <1>4, <1>12, <1>20
  <2>2. t \in CircuitBreakerState /\ t.failures = h /\ t.open = FALSE /\ s = t
    <3>1. t = [failures |-> h, open |-> FALSE, openedAt |-> st.openedAt, halfOpen |-> FALSE,
               probeStartedAt |-> st.probeStartedAt]
      <4>1. st.open = FALSE /\ st.halfOpen = FALSE
        BY <1>2, <1>20
      <4> QED BY <1>1, <4>1, Written
    <3> QED BY <1>2, <1>6, <2>1, <3>1, SMTT(30) DEF CircuitBreakerState, Times
  <2>3. Len(h) <= FailureThreshold
    BY <1>0, <1>6, <1>20
  <2> HIDE DEF t
  <2>4. ~IsCounter(s) /\ StateSound(s, q, now)
    BY <1>6, <1>9, <1>10, <1>20, <2>2, <2>3 DEF StateSound
  <2> QED BY <1>20, <2>1, <2>2, <2>4
<1> HIDE DEF Goal
<1> QED BY <1>2, <1>3, <1>12, <1>14, <1>15, <1>16, <1>17, <1>18, <1>19, <1>20

\* A tab: the breaker b, what was reported there, when it opened and why, when a probe failed.
TabSound(b, r, o, g, p, now) ==
  /\ r \in Seq(Times) /\ Rising(r) /\ UpTo(r, now) /\ StateSound(b, r, now)
  /\ o \in 0..now /\ p \in 0..now /\ g \in BOOLEAN
  /\ IsCounter(b) => o = 0 /\ p = 0
  /\ Open(b) => o # 0 /\ b.openedAt = o
  /\ o # 0 => Open(b) \/ now >= o + CooldownMs
  /\ o # 0 => g \/ Recent(r, o) >= FailureThreshold
  /\ p # 0 => (Open(b) /\ b.openedAt >= p) \/ now >= p + CooldownMs

\* An operation let through at since was not let through while the breaker was open.
LetThrough(since, o) == o = 0 \/ since <= o \/ since >= o + CooldownMs

\* A gate leaves a tab sound, and lets nobody through while the breaker is open.
LEMMA TabGates ==
  ASSUME NEW now \in Times, NEW b, NEW r, NEW o, NEW g, NEW p, TabSound(b, r, o, g, p, now),
         NEW how, how # "failed", NEW out, out = HandleCircuitBreaker(b, how, now)
  PROVE  TabSound(out.state, r, o, g, p, now) /\ (out.pass => LetThrough(now, o))
<1> DEFINE s == out.state
<1>0. now \in Nat /\ CooldownMs \in Nat
  BY GuardsAssumption DEF Times
<1>1. /\ ~IsCounter(s) /\ StateSound(s, r, now)
      /\ s.open => Open(b) /\ Cooling(b, now) /\ s.openedAt = b.openedAt
      /\ out.pass => ~(Open(b) /\ Cooling(b, now))
      /\ Open(b) /\ Cooling(b, now) => s.open /\ s.openedAt = b.openedAt
  <2>1. Reports(r, how, now) = r
    BY DEF Reports
  <2> QED BY <2>1, Handled DEF TabSound
<1> HIDE DEF s
<1>2. Open(s) <=> s.open
  BY <1>1 DEF Open
<1>3. o \in Nat /\ p \in Nat /\ (Open(b) => b.openedAt \in Nat)
  BY <1>0 DEF TabSound
<1>4. Open(b) /\ ~Cooling(b, now) => now >= b.openedAt + CooldownMs
  BY <1>0, <1>3 DEF Cooling
<1>5. /\ o # 0 => Open(s) \/ now >= o + CooldownMs
      /\ out.pass => LetThrough(now, o)
  BY <1>1, <1>2, <1>4 DEF TabSound, LetThrough
<1>6. p # 0 => (Open(s) /\ s.openedAt >= p) \/ now >= p + CooldownMs
  BY <1>0, <1>1, <1>2, <1>3, <1>4 DEF TabSound
<1>7. Open(s) => o # 0 /\ s.openedAt = o
  BY <1>1, <1>2 DEF TabSound
<1> QED BY <1>1, <1>5, <1>6, <1>7 DEF TabSound, s

\* So does a report.
LEMMA TabReports ==
  ASSUME NEW now \in Times, NEW b, NEW r, NEW o, NEW g, NEW p, TabSound(b, r, o, g, p, now),
         NEW how, NEW out, out = HandleCircuitBreaker(b, how, now),
         NEW trips \in BOOLEAN, trips <=> out.state.open /\ out.state.openedAt = now
  PROVE  TabSound(out.state, Reports(r, how, now), IF trips THEN now ELSE o,
                  IF trips THEN Tripped(b) ELSE g,
                  IF how = "failed" /\ Probing(b, now) THEN now ELSE p, now)
<1> DEFINE s == out.state
           q == Reports(r, how, now)
           o2 == IF trips THEN now ELSE o
           g2 == IF trips THEN Tripped(b) ELSE g
           p2 == IF how = "failed" /\ Probing(b, now) THEN now ELSE p
<1>0. now \in Nat /\ now # 0 /\ CooldownMs \in Nat /\ FailureThreshold \in Nat
  BY GuardsAssumption DEF Times
<1>1. /\ ~IsCounter(s) /\ StateSound(s, q, now)
      /\ s.open =>
           \/ how = "failed" /\ s.openedAt = now /\ (Tripped(b) \/ Recent(q, now) >= FailureThreshold)
           \/ Open(b) /\ Cooling(b, now) /\ s.openedAt = b.openedAt
      /\ Open(b) /\ Cooling(b, now) => s.open /\ s.openedAt = b.openedAt
      /\ how = "failed" /\ Probing(b, now) => s.open /\ s.openedAt = now
  <2>1. r \in Seq(Times) /\ Rising(r) /\ UpTo(r, now) /\ StateSound(b, r, now)
    BY DEF TabSound
  <2> QED BY <2>1, Handled
<1>2. /\ q \in Seq(Times) /\ Rising(q) /\ UpTo(q, now)
      /\ \A t \in Nat : Recent(r, t) \in Nat /\ Recent(q, t) \in Nat /\ Recent(r, t) <= Recent(q, t)
  <2>1. r \in Seq(Times) /\ Rising(r) /\ UpTo(r, now)
    BY DEF TabSound
  <2>2. CASE how = "failed"
    BY <2>1, <2>2, NowAdded, RecentGrows DEF Reports
  <2>3. CASE how # "failed"
    <3>1. q = r
      BY <2>3 DEF Reports
    <3>2. \A t \in Nat : Recent(r, t) \in Nat
      BY <2>1, RecentGrows
    <3>3. \A t \in Nat : Recent(r, t) <= Recent(r, t)
      BY <3>2
    <3> HIDE DEF q
    <3> QED BY <2>1, <3>1, <3>2, <3>3
  <2> QED BY <2>2, <2>3
<1> HIDE DEF s, q
<1>3. Open(s) <=> s.open
  BY <1>1 DEF Open
<1>4. o \in 0..now /\ p \in 0..now /\ o \in Nat /\ p \in Nat /\ (Open(b) => b.openedAt \in Nat)
  BY <1>0 DEF TabSound
<1>5. Open(b) /\ ~Cooling(b, now) => now >= b.openedAt + CooldownMs
  BY <1>0, <1>4 DEF Cooling
<1>6. trips <=> s.open /\ s.openedAt = now
  BY DEF s
<1>7. Open(b) => o # 0 /\ b.openedAt = o /\ Tripped(b)
  BY DEF TabSound, Tripped, Open
<1>8. Open(s) => o2 # 0 /\ s.openedAt = o2
  BY <1>0, <1>1, <1>3, <1>6, <1>7
<1>9. o2 # 0 => Open(s) \/ now >= o2 + CooldownMs
  <2>1. CASE trips
    BY <1>3, <1>6, <2>1
  <2>2. CASE ~trips
    <3>1. o # 0 => Open(b) \/ now >= o + CooldownMs
      BY DEF TabSound
    <3> QED BY <1>1, <1>3, <1>5, <1>7, <2>2, <3>1
  <2> QED BY <2>1, <2>2
<1>10. o2 # 0 => g2 \/ Recent(q, o2) >= FailureThreshold
  <2>1. CASE trips
    BY <1>1, <1>6, <1>7, <2>1
  <2>2. CASE ~trips
    <3>1. o # 0 => g \/ Recent(r, o) >= FailureThreshold
      BY DEF TabSound
    <3> QED BY <1>0, <1>2, <1>4, <2>2, <3>1
  <2> QED BY <2>1, <2>2
<1>11. p2 # 0 => (Open(s) /\ s.openedAt >= p2) \/ now >= p2 + CooldownMs
  <2>1. CASE how = "failed" /\ Probing(b, now)
    BY <1>0, <1>1, <1>3, <2>1
  <2>2. CASE ~(how = "failed" /\ Probing(b, now))
    <3>1. p # 0 => (Open(b) /\ b.openedAt >= p) \/ now >= p + CooldownMs
      BY DEF TabSound
    <3> QED BY <1>0, <1>1, <1>3, <1>4, <1>5, <2>2, <3>1
  <2> QED BY <2>1, <2>2
<1>12. o2 \in 0..now /\ p2 \in 0..now
  BY <1>0, <1>4
<1>13. g2 \in BOOLEAN
  BY DEF TabSound, Tripped
<1> HIDE DEF o2, g2, p2
<1>14. TabSound(s, q, o2, g2, p2, now)
  BY <1>1, <1>2, <1>8, <1>9, <1>10, <1>11, <1>12, <1>13 DEF TabSound
<1> QED BY <1>14 DEF s, q, o2, g2, p2

\* Time passes.
LEMMA TabTicks ==
  ASSUME NEW now \in Nat, NEW b, NEW r, NEW o, NEW g, NEW p, TabSound(b, r, o, g, p, now)
  PROVE  TabSound(b, r, o, g, p, now + 1)
<1>1. \A f \in Seq(Times) : UpTo(f, now) => UpTo(f, now + 1)
  <2> SUFFICES ASSUME NEW f \in Seq(Times), UpTo(f, now), NEW i \in DOMAIN f PROVE f[i] <= now + 1
    BY DEF UpTo
  <2>1. f[i] \in Nat /\ f[i] <= now
    BY TimeLists DEF UpTo
  <2> QED BY <2>1
<1>2. UpTo(r, now + 1)
  BY <1>1 DEF TabSound
<1>3. StateSound(b, r, now + 1)
  <2>1. CASE IsCounter(b)
    BY <2>1 DEF TabSound, StateSound
  <2>2. CASE ~IsCounter(b)
    <3>1. b.failures \in Seq(Times) /\ UpTo(b.failures, now)
      BY <2>2 DEF TabSound, StateSound, CircuitBreakerState, Times
    <3>2. UpTo(b.failures, now + 1)
      BY <1>1, <3>1
    <3> QED BY <2>2, <3>2 DEF TabSound, StateSound
  <2> QED BY <2>1, <2>2
<1>4. o \in 0..now + 1 /\ p \in 0..now + 1 /\ CooldownMs \in Nat /\ o \in Nat /\ p \in Nat
  BY GuardsAssumption DEF TabSound
<1>5. /\ now >= o + CooldownMs => now + 1 >= o + CooldownMs
      /\ now >= p + CooldownMs => now + 1 >= p + CooldownMs
  BY <1>4
<1> QED BY <1>2, <1>3, <1>4, <1>5 DEF TabSound

\* A new window knows nothing.
LEMMA TabFresh == \A now \in Nat : TabSound(ClosedBreaker, <<>>, 0, FALSE, 0, now)
<1> TAKE now \in Nat
<1>1. ClosedBreaker \in CircuitBreakerState /\ ClosedBreaker.failures = <<>> /\ ~ClosedBreaker.open
      /\ ~ClosedBreaker.halfOpen
  <2>1. 0 \in 0..MaxTime /\ <<>> \in Seq(1..MaxTime)
    BY GuardsAssumption
  <2> QED BY <2>1 DEF ClosedBreaker, CircuitBreakerState
<1>2. ~IsCounter(ClosedBreaker)
  BY <1>1, RowKinds
<1>3. <<>> \in Seq(Times) /\ Rising(<<>>) /\ UpTo(<<>>, now) /\ Covered(<<>>, <<>>) /\ Len(<<>>) = 0
  BY DEF Rising, UpTo, Covered
<1>4. StateSound(ClosedBreaker, <<>>, now)
  BY <1>1, <1>2, <1>3, GuardsAssumption DEF StateSound
<1> QED BY <1>1, <1>2, <1>3, <1>4 DEF TabSound, Open

\* The counter of a quota.
QuotaRows == [count : Nat, resetAt : Nat]

\* Where in the list of admissions the window begins that a counter counts.
FirstCounted(q, A) == Len(A) - q.count + 1

\* The counter counts the last admissions, from the one that began its window, and whoever
\* is Limit places before that one came a whole window earlier.
Spaced(q, A) ==
  /\ q.count <= Limit /\ q.count <= Len(A)
  /\ A = <<>> => q = NoQuota
  /\ A # <<>> => q.count >= 1 /\ q.resetAt = A[FirstCounted(q, A)] + QuotaMs
  /\ \A k \in DOMAIN A : k + Limit <= FirstCounted(q, A) => A[k] + QuotaMs < A[FirstCounted(q, A)]

\* Of the admissions, those two windows apart are further apart than one window is long.
WindowsApart(A) == \A i \in DOMAIN A : i + 2 * Limit - 1 \in DOMAIN A => A[i + 2 * Limit - 1] - A[i] > QuotaMs

\* One more is admitted, in the window or in a new one.
LEMMA AdmittedIsSpaced ==
  ASSUME NEW now \in Times, NEW A \in Seq(Times), Rising(A), UpTo(A, now), NEW q \in QuotaRows,
         Spaced(q, A), WindowsApart(A), Renewed(q, now).count + 1 <= Limit
  PROVE  /\ Spaced(Counted(Renewed(q, now), now), Append(A, now))
         /\ WindowsApart(Append(A, now))
<1> DEFINE B == Append(A, now)
           z == Counted(Renewed(q, now), now)
           n == Len(A)
           c == q.count
           s == FirstCounted(q, A)
           e == FirstCounted(z, B)
<1>0. /\ now \in Nat /\ now >= 1 /\ QuotaMs \in Nat /\ Limit \in Nat /\ n \in Nat /\ DOMAIN A = 1..n
      /\ c \in Nat /\ q.resetAt \in Nat /\ q = [count |-> c, resetAt |-> q.resetAt]
      /\ \A i \in DOMAIN A : A[i] \in Nat /\ A[i] >= 1
  BY TimeLists, GuardsAssumption DEF Times, QuotaRows
<1>1. /\ B \in Seq(Times) /\ Len(B) = n + 1 /\ B[n + 1] = now /\ \A i \in DOMAIN A : B[i] = A[i]
      /\ Rising(B) /\ UpTo(B, now) /\ DOMAIN B = 1..n + 1 /\ B # <<>>
  <2>1. /\ B \in Seq(Times) /\ Len(B) = n + 1 /\ B[n + 1] = now /\ \A i \in DOMAIN A : B[i] = A[i]
        /\ Rising(B) /\ UpTo(B, now)
    BY NowAdded
  <2>2. DOMAIN B = 1..n + 1 /\ B # <<>>
    BY <1>0
  <2> HIDE DEF B, n
  <2> QED BY <2>1, <2>2
<1>2. c <= Limit /\ c <= n /\ s = n - c + 1 /\ (A = <<>> <=> n = 0)
  BY <1>0 DEF Spaced, FirstCounted
<1>3. n # 0 => /\ c >= 1 /\ q.resetAt = A[s] + QuotaMs /\ s \in DOMAIN A
               /\ \A k \in DOMAIN A : k + Limit <= s => A[k] + QuotaMs < A[s]
  BY <1>0, <1>2 DEF Spaced
<1>4. n = 0 => c = 0 /\ q.resetAt = 0
  BY <1>0, <1>2 DEF Spaced, NoQuota
<1>5. e = n + 1 - z.count + 1
  <2>1. Len(B) = n + 1 /\ n \in Nat
    BY <1>0, <1>1
  <2>2. z.count \in Nat
    BY <1>0 DEF Renewed, Counted
  <2> HIDE DEF B, z, n
  <2> QED BY <2>1, <2>2 DEF FirstCounted
<1> HIDE DEF B, n, c, s, e
<1>6. /\ z.count \in Nat /\ z.count >= 1 /\ z.count <= Limit /\ z.count <= n + 1 /\ e \in 1..n + 1
      /\ z.resetAt = B[e] + QuotaMs
      /\ \A k \in DOMAIN B : k + Limit <= e => B[k] + QuotaMs < B[e]
  <2>1. CASE q.resetAt # 0 /\ now > q.resetAt
    <3>1. z.count = 1 /\ z.resetAt = now + QuotaMs /\ 1 <= Limit
      BY <1>0, <2>1 DEF Renewed, Counted
    <3>2. e = n + 1 /\ n # 0
      BY <1>0, <1>4, <1>5, <2>1, <3>1
    <3>3. ASSUME NEW k \in DOMAIN B, k + Limit <= e PROVE B[k] + QuotaMs < B[e]
      <4>1. k \in 1..n /\ k <= s
        BY <1>0, <1>1, <1>2, <3>1, <3>2, <3>3, SMTT(30)
      <4>2. B[k] = A[k] /\ A[k] <= A[s] /\ k \in DOMAIN A
        BY <1>0, <1>1, <1>3, <3>2, <4>1 DEF Rising
      <4> QED BY <1>0, <1>1, <1>3, <2>1, <3>2, <4>2
    <3> QED BY <1>0, <1>1, <3>1, <3>2, <3>3
  <2>2. CASE ~(q.resetAt # 0 /\ now > q.resetAt) /\ n = 0
    <3>1. z.count = 1 /\ z.resetAt = now + QuotaMs /\ 1 <= Limit
      BY <1>0, <1>4, <2>2 DEF Renewed, Counted, c
    <3>2. e = 1 /\ DOMAIN B = 1..1
      BY <1>0, <1>1, <1>5, <2>2, <3>1
    <3> QED BY <1>0, <1>1, <2>2, <3>1, <3>2
  <2>3. CASE ~(q.resetAt # 0 /\ now > q.resetAt) /\ n # 0
    <3>1. q.resetAt # 0
      BY <1>0, <1>3, <2>3
    <3>2. z.count = c + 1 /\ z.resetAt = q.resetAt /\ c + 1 <= Limit
      BY <1>0, <2>3, <3>1 DEF Renewed, Counted, c
    <3>3. e = s /\ B[s] = A[s]
      BY <1>0, <1>1, <1>2, <1>3, <1>5, <2>3, <3>2, SMTT(30)
    <3>4. ASSUME NEW k \in DOMAIN B, k + Limit <= e PROVE B[k] + QuotaMs < B[e]
      <4>1. k \in DOMAIN A
        BY <1>0, <1>1, <1>2, <1>3, <2>3, <3>2, <3>3, <3>4, SMTT(30)
      <4> QED BY <1>1, <1>3, <2>3, <3>3, <3>4, <4>1
    <3> QED BY <1>0, <1>2, <1>3, <2>3, <3>2, <3>3, <3>4, SMTT(30)
  <2> QED BY <2>1, <2>2, <2>3
<1> HIDE DEF z
<1>7. Spaced(z, B)
  <2>1. FirstCounted(z, B) = e
    BY DEF e
  <2> QED BY <1>1, <1>6, <2>1 DEF Spaced
<1>8. WindowsApart(B)
  <2> SUFFICES ASSUME NEW i \in DOMAIN B, i + 2 * Limit - 1 \in DOMAIN B
               PROVE  B[i + 2 * Limit - 1] - B[i] > QuotaMs
    BY DEF WindowsApart
  <2> DEFINE j == i + 2 * Limit - 1
  <2>0. Limit >= 1 /\ i \in 1..n + 1 /\ j \in 1..n + 1 /\ j = i + 2 * Limit - 1
    <3>1. DOMAIN B = 1..n + 1 /\ z.count >= 1 /\ z.count <= Limit /\ z.count \in Nat /\ Limit \in Nat
      BY <1>0, <1>1, <1>6
    <3> QED BY <3>1
  <2> HIDE DEF j
  <2>3. SUFFICES B[j] - B[i] > QuotaMs
    BY DEF j
  <2>1. CASE j <= n
    <3>0. DOMAIN A = 1..n /\ n \in Nat /\ Limit \in Nat
      BY <1>0
    <3>1. i \in DOMAIN A /\ j \in DOMAIN A
      BY <2>0, <2>1, <3>0
    <3>2. A[j] - A[i] > QuotaMs
      BY <2>0, <3>1 DEF WindowsApart
    <3> QED BY <1>1, <2>0, <3>1, <3>2
  <2>2. CASE j = n + 1
    <3>0. /\ n \in Nat /\ Limit \in Nat /\ z.count \in Nat /\ z.count <= Limit
          /\ e = n + 1 - z.count + 1 /\ e \in 1..n + 1
      BY <1>0, <1>5, <1>6
    <3>1. i + Limit <= e /\ e \in DOMAIN B
      <4>1. i + Limit <= e
        BY <2>0, <2>2, <3>0, SMTT(30)
      <4> QED BY <1>1, <3>0, <4>1
    <3>2. B[i] + QuotaMs < B[e] /\ B[e] <= now /\ B[j] = now
      BY <1>1, <1>6, <2>2, <3>1 DEF UpTo
    <3>3. B[i] \in Nat /\ B[e] \in Nat
      BY <1>1, <3>1, TimeLists
    <3> QED BY <1>0, <2>0, <3>2, <3>3, SMTT(30)
  <2>4. j <= n \/ j = n + 1
    <3>1. n \in Nat /\ j \in 1..n + 1
      BY <1>0, <2>0
    <3> QED BY <3>1
  <2> QED BY <2>1, <2>2, <2>4
<1> QED BY <1>7, <1>8 DEF B, z

\* What the variables hold.
GhostRows == [reports : [Tabs -> Seq(Times)], opened : [Tabs -> 0..MaxTime], again : [Tabs -> BOOLEAN],
              probed : [Tabs -> 0..MaxTime], admitted : Seq(Times), rounds : Nat]
BranchRows == [pc : {"gate", "quota", "op", "human", "over"}, since : 0..MaxTime]
                \cup [pc : {"waiting"}, since : 0..MaxTime, kept : QuotaRows, until : Nat]

\* Every variable holds what it is for.
GuardsTyped ==
  /\ breakers \in [Tabs -> CircuitBreakerState \cup CounterRows] /\ quota \in QuotaRows
  /\ branch \in [Actors -> BranchRows] /\ policy \in Policies /\ clock \in Times /\ ghost \in GhostRows

\* Every tab is sound.
TabsSound ==
  \A t \in Tabs : TabSound(breakers[t], ghost.reports[t], ghost.opened[t], ghost.again[t], ghost.probed[t], clock)

\* A branch past the gate was not let through while the breaker was open; one waits for the quota
\* only where the policy says so.
BranchSound(w, o) ==
  /\ w.since <= clock /\ (w.pc = "waiting" => policy = "wait")
  /\ w.pc \in {"quota", "waiting", "op", "human"} => LetThrough(w.since, o)

\* So is every branch.
BranchesSound == \A a \in Actors : BranchSound(branch[a], ghost.opened[TabOf[a]])

\* The counter and the admissions agree, unless the policy lets a branch past the limit.
QuotaSound ==
  /\ policy # "wait" => quota.count <= Limit
  /\ Rising(ghost.admitted) /\ UpTo(ghost.admitted, clock)
  /\ policy = "fail" => Spaced(quota, ghost.admitted) /\ WindowsApart(ghost.admitted)

\* The inductive invariant.
GuardsInv == GuardsTyped /\ TabsSound /\ BranchesSound /\ QuotaSound

\* Every branch works in a tab.
LEMMA TabKnown == \A a \in Actors : TabOf[a] \in Tabs
BY DEF Tabs

\* A branch that starts over, or is refused.
LEMMA FreshIsSound ==
  ASSUME GuardsTyped, NEW pc \in {"gate", "over"}, NEW o
  PROVE  FreshBranch(pc) \in BranchRows /\ BranchSound(FreshBranch(pc), o)
BY GuardsAssumption DEF GuardsTyped, FreshBranch, BranchRows, BranchSound, Times

\* One branch moves and the clock stands still.
LEMMA BranchMoves ==
  ASSUME GuardsInv, NEW a \in Actors, NEW w \in BranchRows, branch' = [branch EXCEPT ![a] = w],
         UNCHANGED <<policy, clock>>, ghost' \in GhostRows,
         BranchSound(w, ghost'.opened[TabOf[a]]),
         \A t \in Tabs : ghost'.opened[t] = ghost.opened[t] \/ ghost'.opened[t] = clock
  PROVE  branch' \in [Actors -> BranchRows] /\ BranchesSound'
<1>1. branch' \in [Actors -> BranchRows] /\ branch'[a] = w /\ \A b \in Actors : b # a => branch'[b] = branch[b]
  BY DEF GuardsInv, GuardsTyped
<1>2. ASSUME NEW b \in Actors, b # a PROVE BranchSound(branch[b], ghost'.opened[TabOf[b]])
  <2>1. BranchSound(branch[b], ghost.opened[TabOf[b]])
    BY DEF GuardsInv, BranchesSound
  <2>2. ghost'.opened[TabOf[b]] = ghost.opened[TabOf[b]] \/ ghost'.opened[TabOf[b]] = clock
    BY TabKnown
  <2> QED BY <2>1, <2>2 DEF BranchSound, LetThrough
<1>3. ASSUME NEW b \in Actors PROVE BranchSound(branch'[b], ghost'.opened[TabOf[b]])
  BY <1>1, <1>2
<1> QED BY <1>1, <1>3 DEF BranchesSound, BranchSound

\* A refused branch.
LEMMA ThrownKeeps ==
  ASSUME GuardsInv, NEW a \in Actors, Thrown(a),
         UNCHANGED <<policy, clock>>, ghost' \in GhostRows,
         \A t \in Tabs : ghost'.opened[t] = ghost.opened[t] \/ ghost'.opened[t] = clock
  PROVE  branch' \in [Actors -> BranchRows] /\ BranchesSound'
<1>1. PICK pc \in {"gate", "over"} : branch' = [branch EXCEPT ![a] = FreshBranch(pc)]
  BY DEF Thrown
<1> QED BY <1>1, FreshIsSound, BranchMoves DEF GuardsInv

\* The breaker of one tab is written, with what was remembered of it.
LEMMA OneTabWritten ==
  ASSUME GuardsInv, NEW t \in Tabs, NEW s \in CircuitBreakerState, breakers' = [breakers EXCEPT ![t] = s],
         ghost' \in GhostRows, clock' = clock,
         \A u \in Tabs : u # t => /\ ghost'.reports[u] = ghost.reports[u] /\ ghost'.opened[u] = ghost.opened[u]
                                  /\ ghost'.again[u] = ghost.again[u] /\ ghost'.probed[u] = ghost.probed[u],
         TabSound(s, ghost'.reports[t], ghost'.opened[t], ghost'.again[t], ghost'.probed[t], clock)
  PROVE  breakers' \in [Tabs -> CircuitBreakerState \cup CounterRows] /\ TabsSound'
<1>1. /\ breakers' \in [Tabs -> CircuitBreakerState \cup CounterRows]
      /\ breakers'[t] = s /\ \A u \in Tabs : u # t => breakers'[u] = breakers[u]
  BY DEF GuardsInv, GuardsTyped
<1>2. ASSUME NEW u \in Tabs
      PROVE  TabSound(breakers'[u], ghost'.reports[u], ghost'.opened[u], ghost'.again[u], ghost'.probed[u], clock')
  <2>1. CASE u = t
    BY <1>1, <2>1
  <2>2. CASE u # t
    <3>1. TabSound(breakers[u], ghost.reports[u], ghost.opened[u], ghost.again[u], ghost.probed[u], clock)
      BY DEF GuardsInv, TabsSound
    <3> QED BY <1>1, <2>2, <3>1
  <2> QED BY <2>1, <2>2
<1> QED BY <1>1, <1>2 DEF TabsSound

\* What the state of a sound tab is.
LEMMA SoundState ==
  ASSUME NEW b, NEW r, NEW o, NEW g, NEW p, NEW now, TabSound(b, r, o, g, p, now), ~IsCounter(b)
  PROVE  b \in CircuitBreakerState
BY DEF TabSound, StateSound

\* The gate before an operation.
LEMMA GateKeeps == ASSUME GuardsInv, NEW a \in Actors, Gate(a) PROVE GuardsInv'
<1> DEFINE t == TabOf[a]
           b == breakers[t]
           out == HandleCircuitBreaker(b, "gate", clock)
<1>1. t \in Tabs /\ clock \in Times /\ clock \in 0..MaxTime /\ clock \in Nat /\ ghost \in GhostRows
      /\ branch \in [Actors -> BranchRows] /\ UNCHANGED <<quota, policy, clock>>
      /\ breakers' = [breakers EXCEPT ![t] = out.state]
  BY TabKnown, GuardsAssumption DEF GuardsInv, GuardsTyped, Times, Gate
<1>2. TabSound(b, ghost.reports[t], ghost.opened[t], ghost.again[t], ghost.probed[t], clock)
  BY <1>1 DEF GuardsInv, TabsSound
<1>3. /\ TabSound(out.state, ghost.reports[t], ghost.opened[t], ghost.again[t], ghost.probed[t], clock)
      /\ out.pass => LetThrough(clock, ghost.opened[t])
  <2> DEFINE o == out
  <2>1. o = HandleCircuitBreaker(b, "gate", clock)
    OBVIOUS
  <2> HIDE DEF o, b, t
  <2>2. /\ TabSound(o.state, ghost.reports[t], ghost.opened[t], ghost.again[t], ghost.probed[t], clock)
        /\ o.pass => LetThrough(clock, ghost.opened[t])
    BY <1>1, <1>2, <2>1, TabGates
  <2> QED BY <2>2 DEF o
<1>4. out.state \in CircuitBreakerState
  <2>1. ~IsCounter(out.state)
    <3> DEFINE o == out
    <3>1. o = HandleCircuitBreaker(b, "gate", clock)
      OBVIOUS
    <3> HIDE DEF o, b, t
    <3>2. ~IsCounter(o.state)
      BY <1>1, <1>2, <3>1, Handled DEF TabSound
    <3> QED BY <3>2 DEF o
  <2> QED BY <1>3, <2>1, SoundState
<1>5. /\ ghost' \in GhostRows /\ ghost'.reports = ghost.reports /\ ghost'.opened = ghost.opened
      /\ ghost'.again = ghost.again /\ ghost'.probed = ghost.probed /\ ghost'.admitted = ghost.admitted
  <2>1. ghost' = ghost \/ ghost' = [ghost EXCEPT !.rounds = ghost.rounds + 1]
    BY Zenon DEF Gate
  <2>2. ghost.rounds + 1 \in Nat
    BY <1>1 DEF GhostRows
  <2> QED BY <1>1, <2>1, <2>2 DEF GhostRows
<1>6. branch' \in [Actors -> BranchRows] /\ BranchesSound'
  <2>1. CASE out.pass /\ branch' = [branch EXCEPT ![a] = [pc |-> "quota", since |-> clock]]
    <3> DEFINE w == [pc |-> "quota", since |-> clock]
    <3>1. w \in BranchRows
      BY <1>1 DEF BranchRows
    <3>2. BranchSound(w, ghost'.opened[TabOf[a]])
      BY <1>1, <1>3, <1>5, <2>1 DEF BranchSound
    <3> HIDE DEF w
    <3> QED BY <1>1, <1>5, <2>1, <3>1, <3>2, BranchMoves DEF w
  <2>2. CASE Thrown(a)
    BY <1>1, <1>5, <2>2, ThrownKeeps
  <2> QED BY <2>1, <2>2 DEF Gate
<1> HIDE DEF out
<1>7. breakers' \in [Tabs -> CircuitBreakerState \cup CounterRows] /\ TabsSound'
  BY <1>1, <1>3, <1>4, <1>5, OneTabWritten
<1> QED BY <1>1, <1>5, <1>6, <1>7 DEF GuardsInv, GuardsTyped, QuotaSound

\* A value of a function is replaced by one of its kind.
LEMMA OneReplaced ==
  ASSUME NEW S, NEW T, NEW f \in [S -> T], NEW x, NEW v \in T
  PROVE  [f EXCEPT ![x] = v] \in [S -> T]
OBVIOUS

\* A report after an operation.
LEMMA ReportedKeeps ==
  ASSUME GuardsInv, NEW a \in Actors, NEW how, Reported(a, how), UNCHANGED <<quota, policy, clock>>
  PROVE  GuardsInv'
<1> DEFINE t == TabOf[a]
           b == breakers[t]
           out == HandleCircuitBreaker(b, how, clock)
           r == Reports(ghost.reports[t], how, clock)
           o == IF Trips(out) THEN clock ELSE ghost.opened[t]
           again == IF Trips(out) THEN Tripped(b) ELSE ghost.again[t]
           p == IF how = "failed" /\ Probing(b, clock) THEN clock ELSE ghost.probed[t]
<1>1. t \in Tabs /\ clock \in Times /\ clock \in 0..MaxTime /\ clock \in Nat /\ ghost \in GhostRows
      /\ branch \in [Actors -> BranchRows]
      /\ breakers' = [breakers EXCEPT ![t] = out.state]
  BY TabKnown, GuardsAssumption DEF GuardsInv, GuardsTyped, Times, Reported
<1>2. TabSound(b, ghost.reports[t], ghost.opened[t], ghost.again[t], ghost.probed[t], clock)
  BY <1>1 DEF GuardsInv, TabsSound
<1>3. ghost' = [ghost EXCEPT !.reports[t] = r, !.opened[t] = o, !.again[t] = again, !.probed[t] = p]
  BY DEF Reported, Reports
<1>4. Trips(out) <=> out.state.open /\ out.state.openedAt = clock
  BY DEF Trips
<1>5. (Thrown(a) \/ branch' = [branch EXCEPT ![a] = FreshBranch("gate")])
  BY DEF Reported
<1> DEFINE trips == Trips(out)
<1>6. trips \in BOOLEAN
  BY DEF Trips
<1>7. out = HandleCircuitBreaker(b, how, clock)
  OBVIOUS
<1> HIDE DEF out, b, t
<1>8. TabSound(out.state, r, o, again, p, clock)
  <2> HIDE DEF trips
  <2>1. TabSound(out.state, r, IF trips THEN clock ELSE ghost.opened[t],
                 IF trips THEN Tripped(b) ELSE ghost.again[t], p, clock)
    <3>1. trips <=> out.state.open /\ out.state.openedAt = clock
      BY <1>4 DEF trips
    <3> QED BY <1>1, <1>2, <1>6, <1>7, <3>1, TabReports
  <2> QED BY <2>1 DEF trips
<1>9. ~IsCounter(out.state)
  BY <1>1, <1>2, <1>7, Handled DEF TabSound
<1>10. out.state \in CircuitBreakerState
  BY <1>8, <1>9, SoundState
<1>11. r \in Seq(Times) /\ o \in 0..MaxTime /\ again \in BOOLEAN /\ p \in 0..MaxTime
       /\ (o = ghost.opened[t] \/ o = clock)
  <2>1. ghost.opened[t] \in 0..MaxTime /\ ghost.probed[t] \in 0..MaxTime /\ ghost.again[t] \in BOOLEAN
    BY <1>1 DEF GhostRows
  <2> QED BY <1>1, <1>8, <2>1 DEF TabSound
<1> HIDE DEF r, o, again, p
<1>12. /\ ghost' \in GhostRows
       /\ ghost'.reports[t] = r /\ ghost'.opened[t] = o /\ ghost'.again[t] = again /\ ghost'.probed[t] = p
       /\ ghost'.admitted = ghost.admitted
       /\ \A u \in Tabs : u # t => /\ ghost'.reports[u] = ghost.reports[u] /\ ghost'.opened[u] = ghost.opened[u]
                                   /\ ghost'.again[u] = ghost.again[u] /\ ghost'.probed[u] = ghost.probed[u]
  <2>1. /\ ghost'.reports = [ghost.reports EXCEPT ![t] = r] /\ ghost'.opened = [ghost.opened EXCEPT ![t] = o]
        /\ ghost'.again = [ghost.again EXCEPT ![t] = again] /\ ghost'.probed = [ghost.probed EXCEPT ![t] = p]
        /\ ghost'.admitted = ghost.admitted /\ ghost'.rounds = ghost.rounds
    BY <1>1, <1>3 DEF GhostRows
  <2>2. ghost' = [reports |-> ghost'.reports, opened |-> ghost'.opened, again |-> ghost'.again,
                  probed |-> ghost'.probed, admitted |-> ghost'.admitted, rounds |-> ghost'.rounds]
    BY <1>1, <1>3 DEF GhostRows
  <2>3. /\ ghost.reports \in [Tabs -> Seq(Times)] /\ ghost.opened \in [Tabs -> 0..MaxTime]
        /\ ghost.again \in [Tabs -> BOOLEAN] /\ ghost.probed \in [Tabs -> 0..MaxTime]
        /\ ghost.admitted \in Seq(Times) /\ ghost.rounds \in Nat
    BY <1>1 DEF GhostRows
  <2>4. /\ ghost'.reports \in [Tabs -> Seq(Times)] /\ ghost'.opened \in [Tabs -> 0..MaxTime]
        /\ ghost'.again \in [Tabs -> BOOLEAN] /\ ghost'.probed \in [Tabs -> 0..MaxTime]
    <3>1. ghost'.reports \in [Tabs -> Seq(Times)]
      <4>1. /\ r \in Seq(Times) /\ ghost.reports \in [Tabs -> Seq(Times)]
            /\ ghost'.reports = [ghost.reports EXCEPT ![t] = r]
        BY <1>11, <2>1, <2>3
      <4> QED BY <4>1, OneReplaced
    <3>2. ghost'.again \in [Tabs -> BOOLEAN]
      <4>1. again \in BOOLEAN /\ ghost.again \in [Tabs -> BOOLEAN] /\ ghost'.again = [ghost.again EXCEPT ![t] = again]
        BY <1>11, <2>1, <2>3
      <4> QED BY <4>1, OneReplaced
    <3>3. ghost'.probed \in [Tabs -> 0..MaxTime]
      <4>1. p \in 0..MaxTime /\ ghost.probed \in [Tabs -> 0..MaxTime] /\ ghost'.probed = [ghost.probed EXCEPT ![t] = p]
        BY <1>11, <2>1, <2>3
      <4> QED BY <4>1, OneReplaced
    <3>4. ghost'.opened \in [Tabs -> 0..MaxTime]
      <4>1. o \in 0..MaxTime /\ ghost.opened \in [Tabs -> 0..MaxTime] /\ ghost'.opened = [ghost.opened EXCEPT ![t] = o]
        BY <1>11, <2>1, <2>3
      <4> QED BY <4>1, OneReplaced
    <3> QED BY <3>1, <3>2, <3>3, <3>4
  <2>5. ghost' \in GhostRows
    BY <2>1, <2>2, <2>3, <2>4 DEF GhostRows
  <2> QED BY <1>1, <2>1, <2>3, <2>5
<1>13. branch' \in [Actors -> BranchRows] /\ BranchesSound'
  <2>1. \A u \in Tabs : ghost'.opened[u] = ghost.opened[u] \/ ghost'.opened[u] = clock
    BY <1>11, <1>12
  <2>2. CASE Thrown(a)
    BY <1>12, <2>1, <2>2, ThrownKeeps
  <2>3. CASE branch' = [branch EXCEPT ![a] = FreshBranch("gate")]
    BY <1>12, <2>1, <2>3, FreshIsSound, BranchMoves DEF GuardsInv
  <2> QED BY <1>5, <2>2, <2>3
<1>14. breakers' \in [Tabs -> CircuitBreakerState \cup CounterRows] /\ TabsSound'
  BY <1>1, <1>8, <1>10, <1>12, OneTabWritten
<1> QED BY <1>1, <1>12, <1>13, <1>14 DEF GuardsInv, GuardsTyped, QuotaSound

\* The breakers, the quota and what is remembered stand still: only a branch moves.
LEMMA OnlyBranchMoves ==
  ASSUME GuardsInv, branch' \in [Actors -> BranchRows] /\ BranchesSound',
         UNCHANGED <<breakers, quota, policy, clock, ghost>>
  PROVE  GuardsInv'
<1>1. TabsSound' /\ QuotaSound' /\ GuardsTyped'
  BY DEF GuardsInv, GuardsTyped, TabsSound, QuotaSound
<1> QED BY <1>1 DEF GuardsInv

\* A branch goes on to another place of its round.
LEMMA PcMoves ==
  ASSUME GuardsInv, NEW a \in Actors, NEW pc \in {"op", "human"}, branch[a].pc \in {"quota", "op", "human"},
         branch' = [branch EXCEPT ![a].pc = pc], UNCHANGED <<policy, clock>>, ghost' \in GhostRows,
         ghost'.opened = ghost.opened
  PROVE  branch' \in [Actors -> BranchRows] /\ BranchesSound'
<1> DEFINE w == [pc |-> pc, since |-> branch[a].since]
<1>1. branch[a] \in [pc : {"gate", "quota", "op", "human", "over"}, since : 0..MaxTime]
  BY DEF GuardsInv, GuardsTyped, BranchRows
<1>2. [branch[a] EXCEPT !.pc = pc] = w
  BY <1>1
<1>3. branch' = [branch EXCEPT ![a] = w]
  BY <1>2
<1>4. w \in BranchRows
  BY <1>1 DEF BranchRows
<1>5. BranchSound(w, ghost'.opened[TabOf[a]])
  BY DEF GuardsInv, BranchesSound, BranchSound
<1> HIDE DEF w
<1> QED BY <1>3, <1>4, <1>5, BranchMoves

\* A captcha, and the operator's answer.
LEMMA HumanKeeps ==
  ASSUME GuardsInv, NEW a \in Actors, SolveCaptcha(a) \/ HandleRequestHuman(a) PROVE GuardsInv'
<1>1. /\ branch[a].pc \in {"op", "human"} /\ UNCHANGED <<breakers, quota, policy, clock, ghost>>
      /\ Thrown(a) \/ \E pc \in {"op", "human"} : branch' = [branch EXCEPT ![a].pc = pc]
  BY DEF SolveCaptcha, HandleRequestHuman, BranchAt
<1>2. ghost' \in GhostRows /\ ghost'.opened = ghost.opened
  BY <1>1 DEF GuardsInv, GuardsTyped
<1>3. branch' \in [Actors -> BranchRows] /\ BranchesSound'
  BY <1>1, <1>2, PcMoves, ThrownKeeps
<1> QED BY <1>1, <1>3, OnlyBranchMoves

\* A counter renewed, and one higher, is a counter.
LEMMA QuotaCounts ==
  ASSUME NEW q \in QuotaRows, NEW now \in Nat
  PROVE  /\ Renewed(q, now) \in QuotaRows /\ Counted(Renewed(q, now), now) \in QuotaRows
         /\ Counted(Renewed(q, now), now).count = Renewed(q, now).count + 1
BY GuardsAssumption DEF QuotaRows, Renewed, Counted

\* The quota.
LEMMA CheckQuotaKeeps == ASSUME GuardsInv, NEW a \in Actors, CheckQuota(a) PROVE GuardsInv'
<1> DEFINE q == Renewed(quota, clock)
           z == Counted(q, clock)
<1>1. /\ branch[a].pc = "quota" /\ UNCHANGED <<breakers, policy, clock>> /\ clock \in Times /\ clock \in Nat
      /\ quota \in QuotaRows /\ policy \in {"wait", "fail", "skip"} /\ ghost \in GhostRows
      /\ branch \in [Actors -> BranchRows]
  BY GuardsAssumption DEF CheckQuota, BranchAt, GuardsInv, GuardsTyped, Times
<1>2. q \in QuotaRows /\ z \in QuotaRows /\ z.count = q.count + 1
  BY <1>1, QuotaCounts
<1>3. \/ /\ q.count + 1 <= Limit /\ quota' = z
         /\ branch' = [branch EXCEPT ![a].pc = "op"]
         /\ ghost' = [ghost EXCEPT !.admitted = Append(ghost.admitted, clock)]
      \/ /\ UNCHANGED <<quota, ghost>>
         /\ \/ Thrown(a)
            \/ branch' = [branch EXCEPT ![a].pc = "op"]
            \/ /\ policy = "wait"
               /\ branch' = [branch EXCEPT ![a] =
                    [pc |-> "waiting", since |-> branch[a].since, kept |-> z,
                     until |-> IF q.resetAt > clock THEN q.resetAt ELSE clock + 1]]
  BY <1>1 DEF CheckQuota
<1> HIDE DEF q, z
<1>4. CASE /\ q.count + 1 <= Limit /\ quota' = z
           /\ branch' = [branch EXCEPT ![a].pc = "op"]
           /\ ghost' = [ghost EXCEPT !.admitted = Append(ghost.admitted, clock)]
  <2> DEFINE A == ghost.admitted
             B == Append(A, clock)
  <2>1. A \in Seq(Times) /\ Rising(A) /\ UpTo(A, clock)
    BY <1>1 DEF GhostRows, GuardsInv, QuotaSound
  <2>2. B \in Seq(Times) /\ Rising(B) /\ UpTo(B, clock)
    BY <1>1, <2>1, NowAdded
  <2> HIDE DEF B
  <2>3. /\ ghost'.admitted = B /\ ghost'.reports = ghost.reports /\ ghost'.opened = ghost.opened
        /\ ghost'.again = ghost.again /\ ghost'.probed = ghost.probed /\ ghost' \in GhostRows
    BY <1>1, <1>4, <2>2 DEF GhostRows, B
  <2>4. branch' \in [Actors -> BranchRows] /\ BranchesSound'
    BY <1>1, <1>4, <2>3, PcMoves
  <2>5. TabsSound'
    BY <1>1, <2>3 DEF GuardsInv, TabsSound
  <2>6. policy = "fail" => Spaced(z, B) /\ WindowsApart(B)
    BY <1>1, <1>4, <2>1, AdmittedIsSpaced DEF GuardsInv, QuotaSound, q, z, B
  <2>7. QuotaSound'
    <3>1. z.count <= Limit
      BY <1>2, <1>4
    <3> QED BY <1>1, <1>4, <2>2, <2>3, <2>6, <3>1 DEF QuotaSound
  <2> QED BY <1>1, <1>2, <1>4, <2>3, <2>4, <2>5, <2>7 DEF GuardsInv, GuardsTyped
<1>5. CASE UNCHANGED <<quota, ghost>> /\ Thrown(a)
  <2>1. branch' \in [Actors -> BranchRows] /\ BranchesSound'
    BY <1>1, <1>5, ThrownKeeps
  <2> QED BY <1>1, <1>5, <2>1, OnlyBranchMoves
<1>6. CASE UNCHANGED <<quota, ghost>> /\ branch' = [branch EXCEPT ![a].pc = "op"]
  <2>1. branch' \in [Actors -> BranchRows] /\ BranchesSound'
    BY <1>1, <1>6, PcMoves
  <2> QED BY <1>1, <1>6, <2>1, OnlyBranchMoves
<1>7. CASE /\ UNCHANGED <<quota, ghost>> /\ policy = "wait"
           /\ branch' = [branch EXCEPT ![a] =
                [pc |-> "waiting", since |-> branch[a].since, kept |-> z,
                 until |-> IF q.resetAt > clock THEN q.resetAt ELSE clock + 1]]
  <2> DEFINE u == IF q.resetAt > clock THEN q.resetAt ELSE clock + 1
             w == [pc |-> "waiting", since |-> branch[a].since, kept |-> z, until |-> u]
  <2>1. u \in Nat
    BY <1>1, <1>2 DEF QuotaRows
  <2>2. branch[a].since \in 0..MaxTime
    BY <1>1 DEF BranchRows
  <2>3. branch' = [branch EXCEPT ![a] = w]
    BY <1>7
  <2> HIDE DEF u
  <2>4. w \in BranchRows
    BY <1>2, <2>1, <2>2 DEF BranchRows
  <2>5. BranchSound(w, ghost'.opened[TabOf[a]])
    BY <1>1, <1>7 DEF GuardsInv, BranchesSound, BranchSound
  <2> HIDE DEF w
  <2>6. branch' \in [Actors -> BranchRows] /\ BranchesSound'
    BY <1>1, <1>7, <2>3, <2>4, <2>5, BranchMoves
  <2> QED BY <1>1, <1>7, <2>6, OnlyBranchMoves
<1> QED BY <1>3, <1>4, <1>5, <1>6, <1>7

\* The end of its wait.
LEMMA QuotaWaitedKeeps == ASSUME GuardsInv, NEW a \in Actors, QuotaWaited(a) PROVE GuardsInv'
<1>1. /\ branch[a].pc = "waiting" /\ quota' = branch[a].kept
      /\ branch' = [branch EXCEPT ![a] = [pc |-> "op", since |-> branch[a].since]]
      /\ UNCHANGED <<breakers, policy, clock, ghost>> /\ ghost' \in GhostRows
  BY DEF QuotaWaited, BranchAt, GuardsInv, GuardsTyped
<1>2. branch[a] \in [pc : {"waiting"}, since : 0..MaxTime, kept : QuotaRows, until : Nat]
  BY <1>1 DEF GuardsInv, GuardsTyped, BranchRows
<1> DEFINE w == [pc |-> "op", since |-> branch[a].since]
<1>3. quota' \in QuotaRows /\ w \in BranchRows
  BY <1>1, <1>2 DEF BranchRows
<1>4. policy = "wait" /\ BranchSound(w, ghost'.opened[TabOf[a]])
  BY <1>1 DEF GuardsInv, BranchesSound, BranchSound
<1> HIDE DEF w
<1>5. branch' \in [Actors -> BranchRows] /\ BranchesSound'
  BY <1>1, <1>3, <1>4, BranchMoves DEF w
<1>6. TabsSound' /\ QuotaSound'
  BY <1>1, <1>4 DEF GuardsInv, TabsSound, QuotaSound
<1> QED BY <1>1, <1>3, <1>5, <1>6 DEF GuardsInv, GuardsTyped

\* The operation.
LEMMA OperationKeeps ==
  ASSUME GuardsInv, NEW a \in Actors, OperationWorks(a) \/ OperationFails(a) PROVE GuardsInv'
<1>1. CASE Reported(a, "failed") /\ UNCHANGED <<quota, policy, clock>>
  BY <1>1, ReportedKeeps
<1>2. CASE Reported(a, "worked") /\ UNCHANGED <<quota, policy, clock>>
  BY <1>2, ReportedKeeps
<1>3. CASE branch' = [branch EXCEPT ![a] = FreshBranch("gate")] /\ UNCHANGED <<breakers, ghost, quota, policy, clock>>
  <2>1. branch' \in [Actors -> BranchRows] /\ BranchesSound'
    <3>1. ghost' \in GhostRows
      BY <1>3 DEF GuardsInv, GuardsTyped
    <3> QED BY <1>3, <3>1, FreshIsSound, BranchMoves DEF GuardsInv
  <2> QED BY <1>3, <2>1, OnlyBranchMoves
<1> QED BY <1>1, <1>2, <1>3 DEF OperationWorks, OperationFails

\* A navigation.
LEMMA NavigatesKeeps == ASSUME GuardsInv, NEW t \in Tabs, Navigates(t) PROVE GuardsInv'
<1>1. /\ breakers' = [breakers EXCEPT ![t] = ClosedBreaker] /\ UNCHANGED <<quota, policy, clock>>
      /\ clock \in Nat /\ ghost \in GhostRows /\ branch \in [Actors -> BranchRows]
  BY GuardsAssumption DEF Navigates, GuardsInv, GuardsTyped, Times
<1>2. /\ ghost'.reports = [ghost.reports EXCEPT ![t] = <<>>] /\ ghost'.opened = [ghost.opened EXCEPT ![t] = 0]
      /\ ghost'.again = [ghost.again EXCEPT ![t] = FALSE] /\ ghost'.probed = [ghost.probed EXCEPT ![t] = 0]
      /\ ghost'.admitted = ghost.admitted /\ ghost'.rounds = ghost.rounds
      /\ ghost' = [reports |-> ghost'.reports, opened |-> ghost'.opened, again |-> ghost'.again,
                   probed |-> ghost'.probed, admitted |-> ghost'.admitted, rounds |-> ghost'.rounds]
  BY <1>1 DEF Navigates, GhostRows
<1>3. /\ ghost.reports \in [Tabs -> Seq(Times)] /\ ghost.opened \in [Tabs -> 0..MaxTime]
      /\ ghost.again \in [Tabs -> BOOLEAN] /\ ghost.probed \in [Tabs -> 0..MaxTime]
      /\ ghost.admitted \in Seq(Times) /\ ghost.rounds \in Nat
  BY <1>1 DEF GhostRows
<1>4. ghost' \in GhostRows
  <2>1. ghost'.reports \in [Tabs -> Seq(Times)]
    <3>1. <<>> \in Seq(Times)
      OBVIOUS
    <3> QED BY <1>2, <1>3, <3>1, OneReplaced
  <2>2. ghost'.opened \in [Tabs -> 0..MaxTime] /\ ghost'.probed \in [Tabs -> 0..MaxTime]
    <3>1. 0 \in 0..MaxTime
      BY GuardsAssumption
    <3> QED BY <1>2, <1>3, <3>1, OneReplaced
  <2>3. ghost'.again \in [Tabs -> BOOLEAN]
    BY <1>2, <1>3, OneReplaced
  <2> QED BY <1>2, <1>3, <2>1, <2>2, <2>3 DEF GhostRows
<1>5. /\ ghost'.reports[t] = <<>> /\ ghost'.opened[t] = 0 /\ ghost'.again[t] = FALSE /\ ghost'.probed[t] = 0
      /\ \A u \in Tabs : u # t => /\ ghost'.reports[u] = ghost.reports[u] /\ ghost'.opened[u] = ghost.opened[u]
                                  /\ ghost'.again[u] = ghost.again[u] /\ ghost'.probed[u] = ghost.probed[u]
  BY <1>2, <1>3
<1>6. TabSound(ClosedBreaker, <<>>, 0, FALSE, 0, clock)
  BY <1>1, TabFresh
<1>7. ClosedBreaker \in CircuitBreakerState
  BY GuardsAssumption DEF ClosedBreaker, CircuitBreakerState
<1>8. breakers' \in [Tabs -> CircuitBreakerState \cup CounterRows] /\ TabsSound'
  BY <1>1, <1>4, <1>5, <1>6, <1>7, OneTabWritten
<1>9. \A a \in Actors : branch'[a] = IF TabOf[a] = t /\ ~BranchAt(a, "over") THEN FreshBranch("gate") ELSE branch[a]
  BY DEF Navigates
<1>10. \A a \in Actors : branch'[a] \in BranchRows /\ BranchSound(branch'[a], ghost'.opened[TabOf[a]])
  <2> TAKE a \in Actors
  <2>1. CASE TabOf[a] = t /\ ~BranchAt(a, "over")
    BY <1>9, <2>1, FreshIsSound DEF GuardsInv
  <2>2. CASE TabOf[a] = t /\ BranchAt(a, "over")
    BY <1>1, <1>5, <1>9, <2>2 DEF BranchAt, GuardsInv, BranchesSound, BranchSound
  <2>3. CASE TabOf[a] # t
    <3>1. BranchSound(branch[a], ghost.opened[TabOf[a]]) /\ branch[a] \in BranchRows
      BY <1>1 DEF GuardsInv, BranchesSound
    <3> QED BY <1>5, <1>9, <2>3, <3>1, TabKnown
  <2> QED BY <2>1, <2>2, <2>3
<1>11. branch' \in [Actors -> BranchRows] /\ BranchesSound'
  <2>1. branch' = [a \in Actors |-> branch'[a]]
    BY DEF Navigates
  <2> QED BY <1>1, <1>10, <2>1 DEF BranchesSound, BranchSound
<1>12. QuotaSound'
  BY <1>1, <1>2 DEF GuardsInv, QuotaSound
<1> QED BY <1>1, <1>4, <1>8, <1>11, <1>12 DEF GuardsInv, GuardsTyped

\* Time.
LEMMA ClockKeeps == ASSUME GuardsInv, ClockTicks PROVE GuardsInv'
<1>1. /\ clock \in Times /\ clock \in Nat /\ clock' = clock + 1 /\ clock' \in Times
      /\ UNCHANGED <<breakers, quota, branch, policy, ghost>>
  BY GuardsAssumption DEF ClockTicks, GuardsInv, GuardsTyped, Times
<1>2. TabsSound'
  BY <1>1, TabTicks DEF GuardsInv, TabsSound
<1>3. BranchesSound'
  <2>1. ASSUME NEW a \in Actors PROVE branch[a].since <= clock + 1
    <3>1. branch[a].since \in Nat /\ branch[a].since <= clock
      BY DEF GuardsInv, GuardsTyped, BranchRows, BranchesSound, BranchSound
    <3> QED BY <1>1, <3>1
  <2> QED BY <1>1, <2>1 DEF GuardsInv, BranchesSound, BranchSound
<1>4. UpTo(ghost.admitted, clock + 1)
  <2>1. \A i \in DOMAIN ghost.admitted : ghost.admitted[i] \in Nat /\ ghost.admitted[i] <= clock
    BY TimeLists DEF GuardsInv, GuardsTyped, GhostRows, QuotaSound, UpTo
  <2> QED BY <1>1, <2>1 DEF UpTo
<1>5. QuotaSound'
  BY <1>1, <1>4 DEF GuardsInv, QuotaSound
<1> QED BY <1>1, <1>2, <1>3, <1>5 DEF GuardsInv, GuardsTyped

\* A rule starts with closed breakers, or with the counter an older version left.
LEMMA GuardsInvInit == GuardsInit => GuardsInv
<1> SUFFICES ASSUME GuardsInit PROVE GuardsInv
  OBVIOUS
<1>1. PICK n \in Counters :
        /\ breakers = [t \in Tabs |-> IF n = 0 THEN ClosedBreaker ELSE Unread(n)]
        /\ ghost = [reports |-> [t \in Tabs |-> [i \in 1..n |-> 1]], opened |-> [t \in Tabs |-> 0],
                    again |-> [t \in Tabs |-> FALSE], probed |-> [t \in Tabs |-> 0],
                    admitted |-> <<>>, rounds |-> 0]
  BY DEF GuardsInit
<1>2. /\ n \in Nat /\ quota = NoQuota /\ branch = [a \in Actors |-> FreshBranch("gate")]
      /\ policy \in Policies /\ clock = 1 /\ clock \in Times /\ clock \in Nat /\ 0 \in 0..MaxTime
  BY GuardsAssumption DEF GuardsInit, Times
<1> DEFINE r == [i \in 1..n |-> 1]
<1>3. r \in Seq(Times) /\ Rising(r) /\ UpTo(r, clock) /\ (n = 0 => r = <<>>)
  BY <1>2 DEF Rising, UpTo
<1> HIDE DEF r
<1>4. ClosedBreaker \in CircuitBreakerState /\ Unread(n) \in CounterRows
  BY <1>2 DEF ClosedBreaker, CircuitBreakerState, Unread, CounterRows
<1>5. TabSound(IF n = 0 THEN ClosedBreaker ELSE Unread(n), r, 0, FALSE, 0, clock)
  <2>1. CASE n = 0
    BY <1>2, <1>3, <2>1, TabFresh
  <2>2. CASE n # 0
    <3>1. Unread(n).counter = n /\ IsCounter(Unread(n))
      BY <1>4, RowKinds DEF Unread
    <3>2. StateSound(Unread(n), r, clock)
      BY <1>4, <3>1 DEF StateSound, r
    <3>3. ~Open(Unread(n)) /\ 0 \in 0..clock
      BY <1>2, <3>1 DEF Open
    <3> QED BY <1>3, <2>2, <3>2, <3>3 DEF TabSound
  <2> QED BY <2>1, <2>2
<1>6. ghost \in GhostRows /\ ghost.admitted = <<>>
  <2>1. [t \in Tabs |-> r] \in [Tabs -> Seq(Times)]
    BY <1>3
  <2>2. /\ [t \in Tabs |-> 0] \in [Tabs -> 0..MaxTime] /\ [t \in Tabs |-> FALSE] \in [Tabs -> BOOLEAN]
        /\ <<>> \in Seq(Times)
    BY <1>2
  <2> QED BY <1>1, <2>1, <2>2 DEF GhostRows, r
<1>7. NoQuota \in QuotaRows /\ NoQuota.count = 0
  BY DEF NoQuota, QuotaRows
<1>8. GuardsTyped
  <2>1. FreshBranch("gate") \in BranchRows
    BY <1>2 DEF FreshBranch, BranchRows
  <2> QED BY <1>1, <1>2, <1>4, <1>6, <1>7, <2>1 DEF GuardsTyped
<1>9. TabsSound
  <2> SUFFICES ASSUME NEW t \in Tabs
               PROVE  TabSound(breakers[t], ghost.reports[t], ghost.opened[t], ghost.again[t], ghost.probed[t], clock)
    BY DEF TabsSound
  <2>1. /\ breakers[t] = (IF n = 0 THEN ClosedBreaker ELSE Unread(n)) /\ ghost.reports[t] = r
        /\ ghost.opened[t] = 0 /\ ghost.again[t] = FALSE /\ ghost.probed[t] = 0
    BY <1>1 DEF r
  <2> QED BY <1>5, <2>1
<1>10. BranchesSound
  BY <1>2, <1>8, FreshIsSound DEF BranchesSound
<1>11. QuotaSound
  <2>1. Rising(<<>>) /\ UpTo(<<>>, clock) /\ WindowsApart(<<>>) /\ Spaced(NoQuota, <<>>)
    BY <1>7, GuardsAssumption DEF Rising, UpTo, WindowsApart, Spaced
  <2> QED BY <1>2, <1>6, <1>7, <2>1, GuardsAssumption DEF QuotaSound
<1> QED BY <1>8, <1>9, <1>10, <1>11 DEF GuardsInv

\* Every step keeps the invariant.
LEMMA GuardsInvNext == GuardsInv /\ [GuardsNext]_guardVars => GuardsInv'
<1> SUFFICES ASSUME GuardsInv, [GuardsNext]_guardVars PROVE GuardsInv'
  OBVIOUS
<1>1. CASE \E a \in Actors : Gate(a)
  BY <1>1, GateKeeps
<1>2. CASE \E a \in Actors : CheckQuota(a)
  BY <1>2, CheckQuotaKeeps
<1>3. CASE \E a \in Actors : QuotaWaited(a)
  BY <1>3, QuotaWaitedKeeps
<1>4. CASE \E a \in Actors : OperationWorks(a) \/ OperationFails(a)
  BY <1>4, OperationKeeps
<1>5. CASE \E a \in Actors : SolveCaptcha(a) \/ HandleRequestHuman(a)
  BY <1>5, HumanKeeps
<1>6. CASE \E t \in Tabs : Navigates(t)
  BY <1>6, NavigatesKeeps
<1>7. CASE ClockTicks
  BY <1>7, ClockKeeps
<1>8. CASE UNCHANGED guardVars
  <2>1. UNCHANGED <<breakers, quota, branch, policy, clock, ghost>>
    BY <1>8 DEF guardVars
  <2> QED BY <2>1 DEF GuardsInv, GuardsTyped, TabsSound, BranchesSound, BranchSound, QuotaSound
<1> QED BY <1>1, <1>2, <1>3, <1>4, <1>5, <1>6, <1>7, <1>8 DEF GuardsNext

\* What the gates promise follows.
LEMMA GuardsInvHold == GuardsInv => GuardsHold
<1> SUFFICES ASSUME GuardsInv PROVE GuardsHold
  OBVIOUS
<1>0. clock \in 1..MaxTime /\ clock \in Nat /\ policy \in Policies /\ quota.count \in Nat /\ FailureThreshold \in Nat
      /\ CooldownMs \in Nat /\ QuotaMs \in Nat
  BY GuardsAssumption DEF GuardsInv, GuardsTyped, QuotaRows, Times
<1>1. \A t \in Tabs : TabSound(breakers[t], ghost.reports[t], ghost.opened[t], ghost.again[t], ghost.probed[t], clock)
  BY DEF GuardsInv, TabsSound
<1>2. \A t \in Tabs : \/ IsCounter(breakers[t])
                      \/ breakers[t] \in CircuitBreakerState
                         /\ ~(breakers[t].open /\ breakers[t].halfOpen)
                         /\ (breakers[t].open \/ Len(breakers[t].failures) < FailureThreshold + Cardinality(Actors))
  <2> SUFFICES ASSUME NEW t \in Tabs, ~IsCounter(breakers[t])
               PROVE  breakers[t] \in CircuitBreakerState
                      /\ ~(breakers[t].open /\ breakers[t].halfOpen)
                      /\ (breakers[t].open \/ Len(breakers[t].failures) < FailureThreshold + Cardinality(Actors))
    OBVIOUS
  <2>1. /\ breakers[t] \in CircuitBreakerState /\ ~(breakers[t].open /\ breakers[t].halfOpen)
        /\ ~breakers[t].open => Len(breakers[t].failures) <= FailureThreshold
    BY <1>1 DEF TabSound, StateSound
  <2>2. Cardinality(Actors) \in Nat /\ Cardinality(Actors) # 0
    <3>1. Actors # {}
      BY DEF Tabs
    <3> QED BY <3>1, GuardsAssumption, FS_EmptySet, FS_CardinalityType
  <2>3. Len(breakers[t].failures) \in Nat
    BY <2>1 DEF CircuitBreakerState
  <2> QED BY <1>0, <2>1, <2>2, <2>3
<1>3. GuardsTypeOK
  BY <1>0, <1>2 DEF GuardsTypeOK, GuardsInv, QuotaSound
<1>4. OpensForCause
  BY <1>1 DEF OpensForCause, TabSound
<1>5. RefusedWhileOpen
  BY DEF RefusedWhileOpen, GuardsInv, BranchesSound, BranchSound, LetThrough, BranchAt
<1>6. ProbeFailureReopens
  <2> SUFFICES ASSUME NEW t \in Tabs, ghost.probed[t] # 0, clock < ghost.probed[t] + CooldownMs
               PROVE  breakers[t].open
    BY DEF ProbeFailureReopens
  <2>1. ghost.probed[t] \in Nat
    BY <1>0, <1>1 DEF TabSound
  <2> QED BY <1>0, <1>1, <2>1 DEF TabSound, Open
<1>7. QuotaKept
  <2>1. policy = "fail" => WindowsApart(ghost.admitted)
    BY DEF GuardsInv, QuotaSound
  <2> QED BY <2>1 DEF QuotaKept, WindowsApart
<1> QED BY <1>3, <1>4, <1>5, <1>6, <1>7 DEF GuardsHold

\* The gates of a rule (handleCircuitBreaker, handleCheckQuota), for any branches, tabs, spans,
\* thresholds, limits and old counters: a breaker opens for a cause, lets nobody through while it
\* is open, a failed probe reopens it for a full cooldown, and a quota is kept across tabs.
THEOREM GuardsAlwaysHold == GuardsSpec => []GuardsHold
<1>1. GuardsInit => GuardsInv
  BY GuardsInvInit
<1>2. GuardsInv /\ [GuardsNext]_guardVars => GuardsInv'
  BY GuardsInvNext
<1>3. GuardsInv => GuardsHold
  BY GuardsInvHold
<1> QED BY <1>1, <1>2, <1>3, PTL DEF GuardsSpec

=============================================================================
