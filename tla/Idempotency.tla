----------------------------- MODULE Idempotency -----------------------------
(***************************************************************************)
(* The idempotency middleware in front of the mutating LLM endpoints, with *)
(* the table idempotency_keys it keeps and the request timeout it runs     *)
(* under, for one workspace.                                               *)
(*                                                                         *)
(* A request that carries an Idempotency-Key takes an in-process mutex for *)
(* its key and body, looks the key up, and on a miss runs the handler and  *)
(* stores a 2xx response.  Each of these is a step; requests with another  *)
(* body under the same key have another mutex and run in between.  The     *)
(* context of a request is cancelled when it times out, and from then on   *)
(* its statements fail.                                                    *)
(***************************************************************************)
CONSTANTS
  Requests,  \* requests that may arrive
  Keys,      \* values of the Idempotency-Key header
  Bodies,    \* request bodies, told apart by their hash
  KeyOf,     \* the key of each request
  BodyOf,    \* the body of each request
  None       \* no response, and no cache entry

ASSUME RequestsAssumption ==
  /\ None \notin Requests
  /\ KeyOf \in [Requests -> Keys]
  /\ BodyOf \in [Requests -> Bodies]

VARIABLES
  pc,         \* the step each request is at
  cancelled,  \* requests whose context is cancelled
  answer,     \* the 2xx response each request got, named by the request whose
              \* handler made it
  mutexes,    \* idempotencyInflight: the mutexes that are locked
  cache,      \* idempotency_keys: the response stored under each key
  expired,    \* keys whose entry is past expires_at
  handled,    \* requests whose handler took effect and answered 2xx
  excused     \* history: keys with a response that expired or was never stored

vars == <<pc, cancelled, answer, mutexes, cache, expired, handled, excused>>

Steps == {"new", "wait", "lookup", "handle", "put", "done"}

\* Steps at which a request holds the mutex of its key and body.
Locked == {"lookup", "handle", "put"}

\* Type invariant of the requests, the mutexes and the cache.
TypeOK ==
  /\ pc \in [Requests -> Steps]
  /\ cancelled \in SUBSET Requests
  /\ answer \in [Requests -> Requests \cup {None}]
  /\ mutexes \in SUBSET (Keys \X Bodies)
  /\ cache \in [Keys -> Requests \cup {None}]
  /\ expired \in SUBSET Keys
  /\ handled \in SUBSET Requests
  /\ excused \in SUBSET Keys

Init ==
  /\ pc = [r \in Requests |-> "new"]
  /\ cancelled = {}
  /\ answer = [r \in Requests |-> None]
  /\ mutexes = {}
  /\ cache = [k \in Keys |-> None]
  /\ expired = {}
  /\ handled = {}
  /\ excused = {}

-----------------------------------------------------------------------------
\* The map key of the mutex: workspace, key and body hash.
MutexOf(r) == <<KeyOf[r], BodyOf[r]>>

\* The body is read and hashed.
Arrive(r) ==
  /\ pc[r] = "new"
  /\ pc' = [pc EXCEPT ![r] = "wait"]
  /\ UNCHANGED <<cancelled, answer, mutexes, cache, expired, handled, excused>>

Lock(r) ==
  /\ pc[r] = "wait"
  /\ MutexOf(r) \notin mutexes
  /\ mutexes' = mutexes \cup {MutexOf(r)}
  /\ pc' = [pc EXCEPT ![r] = "lookup"]
  /\ UNCHANGED <<cancelled, answer, cache, expired, handled, excused>>

\* The request returns, and the deferred Unlock runs.
Return(r) ==
  /\ pc' = [pc EXCEPT ![r] = "done"]
  /\ mutexes' = mutexes \ {MutexOf(r)}

Live(k) == cache[k] # None /\ k \notin expired

\* GetIdempotency fails, or the stored hash differs: an error or 409.
LookupRefused(r) ==
  /\ pc[r] = "lookup"
  /\ r \in cancelled \/ (Live(KeyOf[r]) /\ BodyOf[cache[KeyOf[r]]] # BodyOf[r])
  /\ Return(r)
  /\ UNCHANGED <<cancelled, answer, cache, expired, handled, excused>>

\* A hit: the stored response is replayed.
Replay(r) ==
  /\ pc[r] = "lookup"
  /\ r \notin cancelled
  /\ Live(KeyOf[r])
  /\ BodyOf[cache[KeyOf[r]]] = BodyOf[r]
  /\ answer' = [answer EXCEPT ![r] = cache[KeyOf[r]]]
  /\ Return(r)
  /\ UNCHANGED <<cancelled, cache, expired, handled, excused>>

\* A miss; an expired entry is one.
Miss(r) ==
  /\ pc[r] = "lookup"
  /\ r \notin cancelled
  /\ ~Live(KeyOf[r])
  /\ pc' = [pc EXCEPT ![r] = "handle"]
  /\ UNCHANGED <<cancelled, answer, mutexes, cache, expired, handled, excused>>

\* The handler takes effect and answers 2xx.
HandlerSucceeds(r) ==
  /\ pc[r] = "handle"
  /\ r \notin cancelled
  /\ handled' = handled \cup {r}
  /\ answer' = [answer EXCEPT ![r] = r]
  /\ pc' = [pc EXCEPT ![r] = "put"]
  /\ UNCHANGED <<cancelled, mutexes, cache, expired, excused>>

\* The handler answers anything else; nothing is cached.
HandlerFails(r) ==
  /\ pc[r] = "handle"
  /\ Return(r)
  /\ UNCHANGED <<cancelled, answer, cache, expired, handled, excused>>

\* A slip: a 200 response is not stored.
PutIdempotencyForgets(r) ==
  /\ pc[r] = "put"
  /\ excused' = IF r \in cancelled THEN excused \cup {KeyOf[r]} ELSE excused
  /\ Return(r)
  /\ UNCHANGED <<cancelled, answer, cache, expired, handled>>

\* PutIdempotency: insert or replace, whatever the stored hash.  It fails quietly
\* when the context is cancelled.
PutIdempotency(r) ==
  /\ pc[r] = "put"
  /\ IF r \in cancelled
     THEN excused' = excused \cup {KeyOf[r]} /\ UNCHANGED <<cache, expired>>
     ELSE /\ cache' = [cache EXCEPT ![KeyOf[r]] = r]
          /\ expired' = expired \ {KeyOf[r]}
          /\ UNCHANGED excused
  /\ Return(r)
  /\ UNCHANGED <<cancelled, answer, handled>>

\* RequestTimeoutMiddleware: 504 to the client and the context is cancelled, while
\* the handler goroutine runs on.
RequestTimesOut(r) ==
  /\ pc[r] \in {"wait"} \cup Locked
  /\ r \notin cancelled
  /\ cancelled' = cancelled \cup {r}
  /\ UNCHANGED <<pc, answer, mutexes, cache, expired, handled, excused>>

EntryExpires(k) ==
  /\ Live(k)
  /\ expired' = expired \cup {k}
  /\ excused' = excused \cup {k}
  /\ UNCHANGED <<pc, cancelled, answer, mutexes, cache, handled>>

\* EvictExpiredIdempotency, in every sweep.
EvictExpired ==
  /\ expired # {}
  /\ cache' = [k \in Keys |-> IF k \in expired THEN None ELSE cache[k]]
  /\ expired' = {}
  /\ UNCHANGED <<pc, cancelled, answer, mutexes, handled, excused>>

\* The process restarts: requests under way and mutexes are gone.
ServerRestart ==
  /\ \E r \in Requests : pc[r] \in {"wait"} \cup Locked
  /\ pc' = [r \in Requests |-> IF pc[r] = "new" THEN "new" ELSE "done"]
  /\ mutexes' = {}
  /\ excused' = excused \cup {KeyOf[r] : r \in {q \in Requests : pc[q] = "put"}}
  /\ UNCHANGED <<cancelled, answer, cache, expired, handled>>

Serve(r) ==
  \/ Lock(r) \/ LookupRefused(r) \/ Replay(r) \/ Miss(r)
  \/ HandlerSucceeds(r) \/ HandlerFails(r) \/ PutIdempotency(r)

Next ==
  \/ \E r \in Requests : Arrive(r) \/ Serve(r) \/ RequestTimesOut(r)
  \/ \E k \in Keys : EntryExpires(k)
  \/ EvictExpired
  \/ ServerRestart

Spec == Init /\ [][Next]_vars

(* Handlers return and sync.Mutex hands itself to a waiter sooner or later.   *)
FairSpec == Spec /\ \A r \in Requests : WF_vars(Serve(r))

-----------------------------------------------------------------------------
\* "Same key + same body -> cached response replayed, handler invoked once": the handler
\* takes effect twice for a key and body only when its response expired, or could not be
\* stored because the request timed out or the server stopped after the effect.
HandledOnce ==
  \A r, q \in handled :
    KeyOf[r] = KeyOf[q] /\ BodyOf[r] = BodyOf[q] /\ r # q => KeyOf[r] \in excused

\* A request is only ever answered with the response of a request with its own key
\* and body, although any request may replace what is stored under the key.
AnswersItsOwnRequest ==
  \A r \in Requests :
    answer[r] # None =>
      /\ answer[r] \in handled
      /\ MutexOf(answer[r]) = MutexOf(r)

\* A mutex is locked exactly while one request of its key and body is between its
\* lookup and its return: two such requests never run together, and no return
\* leaves a mutex locked behind it, which would hang every later retry.
MutexHasHolder ==
  /\ mutexes = {MutexOf(r) : r \in {q \in Requests : pc[q] \in Locked}}
  /\ \A r, q \in Requests :
       pc[r] \in Locked /\ pc[q] \in Locked /\ MutexOf(r) = MutexOf(q) => r = q

\* Repeats of a request: types hold, one effect per kept response, answers of its own
\* key and body only, and no mutex without its holder.
RepeatsAreSafe ==
  /\ TypeOK
  /\ HandledOnce
  /\ AnswersItsOwnRequest
  /\ MutexHasHolder

=============================================================================
