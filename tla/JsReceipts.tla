----------------------------- MODULE JsReceipts -----------------------------
(***************************************************************************)
(* The response cache of the JavaScript client                             *)
(* (js/src/core/inference-client.ts).  A completion is registered as soon  *)
(* as its ID is seen, while its body may still be flowing; its TTL starts  *)
(* when the body settles, in a promise callback, and is enforced by a      *)
(* timer and by every lookup of the ID.                                    *)
(*                                                                         *)
(* One stream is one call of `fetch`; a retained stream is also its        *)
(* ResponseRecord.  JavaScript runs one callback at a time: each action is *)
(* a stretch of code between two awaits.                                   *)
(***************************************************************************)
EXTENDS Integers

CONSTANTS Streams,        \* inference calls
          Ids,            \* completion IDs the service may answer with
          Callers,        \* callers of verifyResponse
          Lookups,        \* verification promises a record can create
          None,           \* an empty slot
          TTL,            \* responseCacheTimeToLiveMs, in ticks
          MaxDelay,       \* longest timer, in ticks (2^31 - 1 ms)
          MaxClock,       \* bound on time
          MaxGeneration   \* bound on calls of clearResponseCache

ASSUME JsReceiptsAssumption ==
    /\ None \notin Streams \cup Lookups \cup Ids \cup Nat
    /\ TTL \in Nat
    /\ MaxDelay \in Nat \ {0}
    /\ MaxClock \in Nat
    /\ MaxGeneration \in Nat

VARIABLES clock,
          generation,      \* responseCacheGeneration
          responses,       \* responseRecords: ID -> retained stream, or None
          stream,          \* registration of each inference call
          sentGeneration,  \* the generation `fetch` read first
          body,            \* the responseBody promise
          idOf,            \* the ID a record was registered under
          started,         \* the record's `expire` callback has run
          expiresAt,       \* ResponseRecord.expiresAt, or None
          timer,           \* when ResponseRecord.expiry fires, or None
          captured,        \* ResponseRecord.captured is defined
          verification,    \* ResponseRecord.verification: a lookup, or None
          outcome,         \* outcome[s][l]: state of lookup l of record s
          rec, fut         \* the record and lookup each caller awaits

streamVars == <<stream, sentGeneration, body>>
expiryVars == <<started, expiresAt, timer>>
verifyVars == <<captured, verification, outcome>>
callerVars == <<rec, fut>>
vars == <<clock, generation, responses, streamVars, idOf, expiryVars,
          verifyVars, callerVars>>

Terminal == {"ok", "failed"}

TypeOK ==
    /\ clock \in 0..MaxClock
    /\ generation \in 0..MaxGeneration
    /\ responses \in [Ids -> Streams \cup {None}]
    /\ stream \in [Streams -> {"idle", "open", "retained", "unretained",
                               "duplicate"}]
    /\ sentGeneration \in [Streams -> 0..MaxGeneration]
    /\ body \in [Streams -> {"flowing", "complete", "failed"}]
    /\ idOf \in [Streams -> Ids \cup {None}]
    /\ started \in [Streams -> BOOLEAN]
    /\ expiresAt \in [Streams -> 0..(MaxClock + TTL) \cup {None}]
    /\ timer \in [Streams -> 0..(MaxClock + MaxDelay) \cup {None}]
    /\ captured \in [Streams -> BOOLEAN]
    /\ verification \in [Streams -> Lookups \cup {None}]
    /\ outcome \in [Streams -> [Lookups ->
                       {"unused", "running", "retryable"} \cup Terminal]]
    /\ rec \in [Callers -> Streams \cup {None}]
    /\ fut \in [Callers -> Lookups \cup {None}]

Init ==
    /\ clock = 0
    /\ generation = 0
    /\ responses = [id \in Ids |-> None]
    /\ stream = [s \in Streams |-> "idle"]
    /\ sentGeneration = [s \in Streams |-> 0]
    /\ body = [s \in Streams |-> "flowing"]
    /\ idOf = [s \in Streams |-> None]
    /\ started = [s \in Streams |-> FALSE]
    /\ expiresAt = [s \in Streams |-> None]
    /\ timer = [s \in Streams |-> None]
    /\ captured = [s \in Streams |-> FALSE]
    /\ verification = [s \in Streams |-> None]
    /\ outcome = [s \in Streams |-> [l \in Lookups |-> "unused"]]
    /\ rec = [c \in Callers |-> None]
    /\ fut = [c \in Callers |-> None]

-----------------------------------------------------------------------------
(* The operators named Bad... are slips a maintainer could make in the      *)
(* definition that follows each of them; no action uses them.              *)

(* getResponseRecord: an expired record is deleted and its timer cleared.  *)
Expired(s) == expiresAt[s] # None /\ expiresAt[s] <= clock

Stale(id) == responses[id] # None /\ Expired(responses[id])

Present(id) == responses[id] # None /\ ~Stale(id)

Purged(id) == IF Stale(id) THEN [responses EXCEPT ![id] = None] ELSE responses

TimerPurged(id) ==
    IF Stale(id) THEN [timer EXCEPT ![responses[id]] = None] ELSE timer

(* fetch reads the generation, then verifies, sends and wraps the body.    *)
Send(s) ==
    /\ stream[s] = "idle"
    /\ stream' = [stream EXCEPT ![s] = "open"]
    /\ sentGeneration' = [sentGeneration EXCEPT ![s] = generation]
    /\ UNCHANGED <<clock, generation, responses, body, idOf, expiryVars,
                   verifyVars, callerVars>>

(* The call fails, its ID is invalid, or its consumer stops before the ID. *)
Abandon(s) ==
    /\ stream[s] = "open"
    /\ stream' = [stream EXCEPT ![s] = "unretained"]
    /\ UNCHANGED <<clock, generation, responses, sentGeneration, body, idOf,
                   expiryVars, verifyVars, callerVars>>

(* The wire body ends.  A body cancelled after the completion sentinel is  *)
(* drained and ends the same way.                                          *)
BodyCompletes(s) ==
    /\ stream[s] \in {"open", "retained"}
    /\ body[s] = "flowing"
    /\ body' = [body EXCEPT ![s] = "complete"]
    /\ UNCHANGED <<clock, generation, responses, stream, sentGeneration, idOf,
                   expiryVars, verifyVars, callerVars>>

(* The body errs, is cancelled early, or is no complete Messages stream.   *)
BodyFails(s) ==
    /\ stream[s] \in {"open", "retained"}
    /\ body[s] = "flowing"
    /\ body' = [body EXCEPT ![s] = "failed"]
    /\ stream' = [stream EXCEPT ![s] = IF @ = "open" THEN "unretained" ELSE @]
    /\ UNCHANGED <<clock, generation, responses, sentGeneration, idOf,
                   expiryVars, verifyVars, callerVars>>

-----------------------------------------------------------------------------
(* registerResponse, on the first record with an ID or when the body ends. *)
Fenced(s) == sentGeneration[s] # generation

RegisterNothing(s) ==
    /\ stream[s] = "open"
    /\ Fenced(s) \/ TTL = 0
    /\ stream' = [stream EXCEPT ![s] = "unretained"]
    /\ UNCHANGED <<clock, generation, responses, sentGeneration, body, idOf,
                   expiryVars, verifyVars, callerVars>>

RegisterDuplicate(s, id) ==
    /\ stream[s] = "open"
    /\ ~Fenced(s) /\ TTL # 0
    /\ Present(id)
    /\ stream' = [stream EXCEPT ![s] = "duplicate"]
    /\ UNCHANGED <<clock, generation, responses, sentGeneration, body, idOf,
                   expiryVars, verifyVars, callerVars>>

RegisterNew(s, id) ==
    /\ stream[s] = "open"
    /\ ~Fenced(s) /\ TTL # 0
    /\ ~Present(id)
    /\ responses' = [responses EXCEPT ![id] = s]
    /\ timer' = TimerPurged(id)
    /\ stream' = [stream EXCEPT ![s] = "retained"]
    /\ idOf' = [idOf EXCEPT ![s] = id]
    /\ captured' = [captured EXCEPT ![s] = TRUE]
    /\ UNCHANGED <<clock, generation, sentGeneration, body, started, expiresAt,
                   verification, outcome, callerVars>>

(* this.responseRecords.get(id) === record                                 *)
BadOwns(s) == responses[idOf[s]] # None
Owns(s) == responses[idOf[s]] = s

Due(s) == stream[s] = "retained" /\ body[s] # "flowing" /\ ~started[s]

Shorter(a, b) == IF a < b THEN a ELSE b

(* `expire`, called back once the body has settled: start the TTL of the   *)
(* record if the cache still holds it, and call `release`.                 *)
Expiry == clock + TTL

Expire(s) ==
    /\ Due(s)
    /\ started' = [started EXCEPT ![s] = TRUE]
    /\ expiresAt' = [expiresAt EXCEPT ![s] = IF Owns(s) THEN Expiry ELSE @]
    /\ timer' = [timer EXCEPT
           ![s] = IF Owns(s) THEN clock + Shorter(TTL, MaxDelay) ELSE @]
    /\ UNCHANGED <<clock, generation, responses, streamVars, idOf, verifyVars,
                   callerVars>>

(* `release`, called back by the timer: delete the record once it has      *)
(* expired, re-arm the timer while it has not.                             *)
BadRearmed(s) == None
Rearmed(s) == clock + Shorter(expiresAt[s] - clock, MaxDelay)

Release(s) ==
    /\ timer[s] # None
    /\ timer[s] <= clock
    /\ responses' = IF Owns(s) /\ Expired(s)
                    THEN [responses EXCEPT ![idOf[s]] = None] ELSE responses
    /\ timer' = [timer EXCEPT
           ![s] = IF Owns(s) /\ ~Expired(s) THEN Rearmed(s) ELSE None]
    /\ UNCHANGED <<clock, generation, streamVars, idOf, started, expiresAt,
                   verifyVars, callerVars>>

BadDisarmed == timer
Disarmed == [s \in Streams |->
                IF \E id \in Ids : responses[id] = s THEN None ELSE timer[s]]

ClearResponseCache ==
    /\ generation < MaxGeneration
    /\ generation' = generation + 1
    /\ responses' = [id \in Ids |-> None]
    /\ timer' = Disarmed
    /\ UNCHANGED <<clock, streamVars, idOf, started, expiresAt, verifyVars,
                   callerVars>>

-----------------------------------------------------------------------------
(* verifyResponse runs to its return of the shared promise in one go.  A   *)
(* record with neither a promise nor its bytes counts as not found.        *)
Unused(s) == {l \in Lookups : outcome[s][l] = "unused"}

NewLookup(s) == CHOOSE l \in Lookups : outcome[s][l] = "unused"

NeedsLookup(s) == verification[s] = None

Verifiable(id) ==
    /\ Present(id)
    /\ NeedsLookup(responses[id]) => captured[responses[id]]

NotFound(c, id) ==
    /\ rec[c] = None
    /\ ~Verifiable(id)
    /\ responses' = Purged(id)
    /\ timer' = TimerPurged(id)
    /\ UNCHANGED <<clock, generation, streamVars, idOf, started, expiresAt,
                   verifyVars, callerVars>>

Start(c, id) ==
    LET s == responses[id]
    IN /\ rec[c] = None /\ Verifiable(id)
       /\ NeedsLookup(s)
       /\ \E l \in Unused(s) :
             /\ l = NewLookup(s)
             /\ verification' = [verification EXCEPT ![s] = l]
             /\ outcome' = [outcome EXCEPT ![s][l] = "running"]
             /\ fut' = [fut EXCEPT ![c] = l]
       /\ rec' = [rec EXCEPT ![c] = s]
       /\ UNCHANGED <<clock, generation, responses, streamVars, idOf,
                      expiryVars, captured>>

Join(c, id) ==
    /\ rec[c] = None /\ Present(id)
    /\ ~NeedsLookup(responses[id])
    /\ rec' = [rec EXCEPT ![c] = responses[id]]
    /\ fut' = [fut EXCEPT ![c] = verification[responses[id]]]
    /\ UNCHANGED <<clock, generation, responses, streamVars, idOf, expiryVars,
                   verifyVars>>

(* verifyCapturedResponse awaits the body, fetches the signature and       *)
(* checks both; the handlers of its promise keep or release the bytes.  A  *)
(* lookup may fail retryably while the bound leaves another one to start.  *)
Verdicts(s) ==
    IF body[s] = "failed" THEN {"failed"}
    ELSE IF Unused(s) = {} THEN Terminal
    ELSE Terminal \cup {"retryable"}

Releases(o) == o # "retryable"

Settle(s, l) ==
    /\ outcome[s][l] = "running"
    /\ body[s] # "flowing"
    /\ \E o \in Verdicts(s) :
          /\ outcome' = [outcome EXCEPT ![s][l] = o]
          /\ verification' = [verification EXCEPT
                 ![s] = IF o = "retryable" THEN None ELSE @]
          /\ captured' = [captured EXCEPT
                 ![s] = IF Releases(o) THEN FALSE ELSE @]
    /\ UNCHANGED <<clock, generation, responses, streamVars, idOf, expiryVars,
                   callerVars>>

BadResolved(c) == outcome[rec[c]][fut[c]] = "ok"
Resolved(c) == outcome[rec[c]][fut[c]] # "running"

Receive(c) ==
    /\ rec[c] # None
    /\ Resolved(c)
    /\ rec' = [rec EXCEPT ![c] = None]
    /\ fut' = [fut EXCEPT ![c] = None]
    /\ UNCHANGED <<clock, generation, responses, streamVars, idOf, expiryVars,
                   verifyVars>>

(* Promise callbacks run before the event loop lets time pass.             *)
Tick ==
    /\ clock < MaxClock
    /\ \A s \in Streams : ~Due(s)
    /\ clock' = clock + 1
    /\ UNCHANGED <<generation, responses, streamVars, idOf, expiryVars,
                   verifyVars, callerVars>>

Register(s) ==
    \/ RegisterNothing(s)
    \/ \E id \in Ids : RegisterDuplicate(s, id) \/ RegisterNew(s, id)

StreamStep(s) ==
    \/ Send(s)
    \/ Abandon(s)
    \/ BodyCompletes(s)
    \/ BodyFails(s)
    \/ Register(s)
    \/ Expire(s)
    \/ Release(s)

CallerStep(c) ==
    \/ \E id \in Ids : NotFound(c, id) \/ Start(c, id) \/ Join(c, id)
    \/ Receive(c)

Next ==
    \/ \E s \in Streams : StreamStep(s)
    \/ \E s \in Streams, l \in Lookups : Settle(s, l)
    \/ \E c \in Callers : CallerStep(c)
    \/ ClearResponseCache
    \/ Tick

Spec == Init /\ [][Next]_vars

(* Callbacks and timers run, time passes, and the signature service        *)
(* answers or fails every request.  Nothing obliges a consumer to read a   *)
(* body to its end.                                                        *)
Fairness ==
    /\ \A s \in Streams : WF_vars(Expire(s)) /\ WF_vars(Release(s))
    /\ \A s \in Streams, l \in Lookups : WF_vars(Settle(s, l))
    /\ \A c \in Callers : WF_vars(Receive(c))
    /\ WF_vars(Tick)

FairSpec == Spec /\ Fairness

-----------------------------------------------------------------------------
(* Safety *)

(* No timer outlives its record: an armed timer keeps the record, and so   *)
(* its bytes, reachable until it fires.                                    *)
NoStrayTimers == \A s \in Streams : timer[s] # None => Owns(s)

(* What holds in every state: the types, and no timer without its record   *)
(* (registerResponse's expire and release).                                *)
Inv == TypeOK /\ NoStrayTimers

-----------------------------------------------------------------------------
(* The abstract receipts this cache implements. *)

VerdictOf(s) ==
    IF \E l \in Lookups : outcome[s][l] = "ok" THEN "ok"
    ELSE IF \E l \in Lookups : outcome[s][l] = "failed" THEN "failed"
    ELSE "undecided"

(* A clear fences off every call sent before it.                           *)
AgeOf(s) ==
    IF stream[s] = "idle" THEN "unsent"
    ELSE IF sentGeneration[s] = generation THEN "current"
    ELSE "fenced"

Promise == INSTANCE Receipts WITH
    Completions <- Streams,
    age <- [s \in Streams |-> AgeOf(s)],
    held <- responses,
    lapsed <- {s \in Streams : Expired(s)},
    seen <- {s \in Streams : stream[s] = "retained"},
    bytes <- {s \in Streams : captured[s]},
    asking <- [s \in Streams |-> {l \in Lookups : outcome[s][l] = "running"}],
    verdict <- [s \in Streams |-> VerdictOf(s)]

(* At most one lookup asks about a completion, and its bytes are there     *)
(* while one may; its verdict is final; nothing sent before a clear        *)
(* is retained after it; an unexpired completion is never                  *)
(* displaced: every step is one that Receipts allows.                      *)
ImplementsReceipts == Promise!Spec

-----------------------------------------------------------------------------
(* Liveness *)

(* A completion whose body has settled leaves the cache, also when its TTL *)
(* is longer than a timer can be and nobody asks for it again.             *)
EventuallyExpires ==
    \A s \in Streams, id \in Ids :
        (responses[id] = s /\ Due(s) /\ clock + TTL <= MaxClock)
            ~> responses[id] # s

(* Every caller of verifyResponse is answered once the body has settled.   *)
WaitersAnswered ==
    \A c \in Callers, s \in Streams :
        (rec[c] = s /\ body[s] # "flowing") ~> rec[c] # s

=============================================================================
