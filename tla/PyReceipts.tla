----------------------------- MODULE PyReceipts -----------------------------
(***************************************************************************)
(* The response cache of the Python client                                 *)
(* (py/src/nearai_inference_sdk/core/inference_client.py).  A completion   *)
(* is registered as soon as its ID is seen; its TTL starts in a callback   *)
(* of the body's future.  verify_response shares one asyncio task per      *)
(* record behind a shield; a done callback of the task releases the bytes  *)
(* one turn of the event loop later.  aclose cancels the tasks it finds,   *)
(* waits for them and empties the cache.                                   *)
(*                                                                         *)
(* One stream is one call of `send`; a retained stream is also its         *)
(* _ResponseRecord.  asyncio runs one callback at a time: each action is a *)
(* stretch of code between two awaits.                                     *)
(***************************************************************************)
EXTENDS Integers

CONSTANTS Streams,        \* inference calls
          Ids,            \* completion IDs the service may answer with
          Callers,        \* callers of verify_response
          Lookups,        \* verification tasks a record can create
          None,           \* an empty slot
          TTL,            \* _response_ttl, in ticks
          MaxClock,       \* bound on time
          MaxGeneration   \* bound on calls of clear_response_cache

ASSUME PyReceiptsAssumption ==
    /\ None \notin Streams \cup Lookups \cup Ids \cup Nat
    /\ TTL \in Nat
    /\ MaxClock \in Nat
    /\ MaxGeneration \in Nat

VARIABLES clock,
          close,           \* progress of aclose; "open" before it
          generation,      \* _response_generation
          responses,       \* _responses: ID -> retained stream, or None
          stream,          \* registration of each inference call
          sentGeneration,  \* the generation `send` read first
          body,            \* the response_body future and who reads it
          idOf,            \* the ID a record was registered under
          started,         \* the record's `settled` callback has run
          expiresAt,       \* _ResponseRecord.expires_at, or None
          timer,           \* when _ResponseRecord.expiry fires, or None
          captured,        \* the record's bytes and session
          verification,    \* _ResponseRecord.verification: a task, or None
          outcome,         \* outcome[s][l]: state of task l of record s
          callbacks,       \* tasks whose done callback has not run
          doomed,          \* tasks aclose cancelled that have not ended
          doomedDrains,    \* likewise for the drain tasks
          rec, fut         \* the record and task each caller awaits

streamVars == <<stream, sentGeneration, body>>
expiryVars == <<started, expiresAt, timer>>
verifyVars == <<captured, verification, outcome, callbacks>>
closeVars == <<close, doomed, doomedDrains>>
callerVars == <<rec, fut>>
vars == <<clock, closeVars, generation, responses, streamVars, idOf,
          expiryVars, verifyVars, callerVars>>

is_closed == close # "open"

Terminal == {"ok", "failed"}

(* A drain task that has not taken its first step, or never will.          *)
Unread == {"spawned", "abandoned"}

Settled == {"complete", "failed"}

TypeOK ==
    /\ clock \in 0..MaxClock
    /\ close \in {"open", "shut", "gathering", "closed"}
    /\ generation \in 0..(MaxGeneration + 1)
    /\ responses \in [Ids -> Streams \cup {None}]
    /\ stream \in [Streams -> {"idle", "open", "retained", "unretained",
                               "refused"}]
    /\ sentGeneration \in [Streams -> 0..(MaxGeneration + 1)]
    /\ body \in [Streams -> {"flowing", "draining"} \cup Unread \cup Settled]
    /\ idOf \in [Streams -> Ids \cup {None}]
    /\ started \in [Streams -> BOOLEAN]
    /\ expiresAt \in [Streams -> 0..(MaxClock + TTL) \cup {None}]
    /\ timer \in [Streams -> 0..(MaxClock + TTL) \cup {None}]
    /\ captured \in [Streams -> BOOLEAN]
    /\ verification \in [Streams -> Lookups \cup {None}]
    /\ outcome \in [Streams -> [Lookups ->
           {"unused", "running", "retryable", "cancelled"} \cup Terminal]]
    /\ callbacks \subseteq Streams \X Lookups
    /\ doomed \subseteq Streams \X Lookups
    /\ doomedDrains \subseteq Streams
    /\ rec \in [Callers -> Streams \cup {None}]
    /\ fut \in [Callers -> Lookups \cup {None}]

Init ==
    /\ clock = 0
    /\ close = "open"
    /\ generation = 0
    /\ responses = [id \in Ids |-> None]
    /\ stream = [s \in Streams |-> "idle"]
    /\ sentGeneration = [s \in Streams |-> 0]
    /\ body = [s \in Streams |-> "flowing"]
    /\ idOf = [s \in Streams |-> None]
    /\ started = [s \in Streams |-> FALSE]
    /\ expiresAt = [s \in Streams |-> None]
    /\ timer = [s \in Streams |-> None]
    /\ captured = [s \in Streams |-> FALSE]
    /\ verification = [s \in Streams |-> None]
    /\ outcome = [s \in Streams |-> [l \in Lookups |-> "unused"]]
    /\ callbacks = {}
    /\ doomed = {}
    /\ doomedDrains = {}
    /\ rec = [c \in Callers |-> None]
    /\ fut = [c \in Callers |-> None]

-----------------------------------------------------------------------------
(* The operators named Bad... are slips a maintainer could make in the      *)
(* definition that follows each of them; no action uses them.              *)

(* _get_response_record: an expired record is deleted, its timer cancelled. *)
Expired(s) == expiresAt[s] # None /\ expiresAt[s] <= clock

Stale(id) == responses[id] # None /\ Expired(responses[id])

Present(id) == responses[id] # None /\ ~Stale(id)

Purged(id) == IF Stale(id) THEN [responses EXCEPT ![id] = None] ELSE responses

TimerPurged(id) ==
    IF Stale(id) THEN [timer EXCEPT ![responses[id]] = None] ELSE timer

(* send reads the generation, then verifies, sends and wraps the body.     *)
Send(s) ==
    /\ stream[s] = "idle"
    /\ stream' = [stream EXCEPT ![s] = "open"]
    /\ sentGeneration' = [sentGeneration EXCEPT ![s] = generation]
    /\ UNCHANGED <<clock, closeVars, generation, responses, body, idOf,
                   expiryVars, verifyVars, callerVars>>

(* The call fails before it has a body.                                    *)
Abandon(s) ==
    /\ stream[s] = "open"
    /\ body[s] = "flowing"
    /\ stream' = [stream EXCEPT ![s] = "unretained"]
    /\ UNCHANGED <<clock, closeVars, generation, responses, sentGeneration, body,
                   idOf, expiryVars, verifyVars, callerVars>>

-----------------------------------------------------------------------------
(* _CapturedResponseStream.  The consumer reads the body, or closes it     *)
(* after the completion sentinel and leaves the rest to a drain task.      *)
Read(s) == body[s] = "draining"
               \/ (body[s] = "flowing" /\ stream[s] \in {"open", "retained"})

StartDrain(s) ==
    /\ stream[s] \in {"open", "retained"}
    /\ body[s] = "flowing"
    /\ body' = [body EXCEPT ![s] = "spawned"]
    /\ UNCHANGED <<clock, closeVars, generation, responses, stream,
                   sentGeneration, idOf, expiryVars, verifyVars, callerVars>>

(* The event loop takes the task's first step, unless it was cancelled.    *)
EnterDrain(s) ==
    /\ body[s] = "spawned"
    /\ s \notin doomedDrains
    /\ body' = [body EXCEPT ![s] = "draining"]
    /\ UNCHANGED <<clock, closeVars, generation, responses, stream,
                   sentGeneration, idOf, expiryVars, verifyVars, callerVars>>

(* _complete registers the stream, if nothing did, before it settles.      *)
BodyCompletes(s) ==
    /\ Read(s)
    /\ stream[s] # "open"
    /\ s \notin doomedDrains
    /\ body' = [body EXCEPT ![s] = "complete"]
    /\ UNCHANGED <<clock, closeVars, generation, responses, stream,
                   sentGeneration, idOf, expiryVars, verifyVars, callerVars>>

Fails(s) ==
    /\ body' = [body EXCEPT ![s] = "failed"]
    /\ stream' = [stream EXCEPT ![s] = IF @ = "open" THEN "unretained" ELSE @]
    /\ UNCHANGED <<clock, close, doomed, generation, responses, sentGeneration,
                   idOf, expiryVars, verifyVars, callerVars>>

(* The body errs, is closed early, or is no complete Messages stream.      *)
BodyFails(s) ==
    /\ Read(s)
    /\ s \notin doomedDrains
    /\ Fails(s)
    /\ UNCHANGED doomedDrains

BadInterrupted(s) == s \in doomedDrains /\ body[s] # "draining"
Interrupted(s) == s \in doomedDrains

DrainCancelled(s) ==
    /\ Interrupted(s)
    /\ body[s] = "draining"
    /\ Fails(s)
    /\ doomedDrains' = doomedDrains \ {s}

(* A task cancelled before its first step never enters _drain: nobody      *)
(* settles the body, and nothing of the stream is registered any more.     *)
DrainSkipped(s) ==
    /\ Interrupted(s)
    /\ body[s] = "spawned"
    /\ body' = [body EXCEPT ![s] = "abandoned"]
    /\ doomedDrains' = doomedDrains \ {s}
    /\ UNCHANGED <<clock, close, doomed, generation, responses, stream,
                   sentGeneration, idOf, expiryVars, verifyVars, callerVars>>

DrainEnds(s) == DrainCancelled(s) \/ DrainSkipped(s)

-----------------------------------------------------------------------------
(* _register_response, on the first record with an ID or as the body ends. *)
Shut == is_closed

Fenced(s) == sentGeneration[s] # generation

(* An exception of register fails the body.                                *)
RegisterRefused(s, id) ==
    /\ stream[s] = "open"
    /\ Read(s)
    /\ Shut \/ (~Fenced(s) /\ TTL # 0 /\ Present(id))
    /\ stream' = [stream EXCEPT ![s] = "refused"]
    /\ body' = [body EXCEPT ![s] = "failed"]
    /\ doomedDrains' = doomedDrains \ {s}
    /\ UNCHANGED <<clock, close, doomed, generation, responses, sentGeneration,
                   idOf, expiryVars, verifyVars, callerVars>>

RegisterNothing(s) ==
    /\ stream[s] = "open"
    /\ Read(s)
    /\ ~Shut
    /\ Fenced(s) \/ TTL = 0
    /\ stream' = [stream EXCEPT ![s] = "unretained"]
    /\ UNCHANGED <<clock, closeVars, generation, responses, sentGeneration, body,
                   idOf, expiryVars, verifyVars, callerVars>>

RegisterNew(s, id) ==
    /\ stream[s] = "open"
    /\ Read(s)
    /\ ~Shut /\ ~Fenced(s) /\ TTL # 0
    /\ ~Present(id)
    /\ responses' = [responses EXCEPT ![id] = s]
    /\ timer' = TimerPurged(id)
    /\ stream' = [stream EXCEPT ![s] = "retained"]
    /\ idOf' = [idOf EXCEPT ![s] = id]
    /\ captured' = [captured EXCEPT ![s] = TRUE]
    /\ UNCHANGED <<clock, closeVars, generation, sentGeneration, body, started,
                   expiresAt, verification, outcome, callbacks, callerVars>>

(* self._responses.get(id) is record                                       *)
Owns(s) == responses[idOf[s]] = s

Due(s) == stream[s] = "retained" /\ body[s] \in Settled /\ ~started[s]

(* `settled`, called back with the body's future, starts the TTL.          *)
BadArms(s) == Owns(s) /\ ~is_closed /\ body[s] = "complete"
Arms(s) == Owns(s) /\ ~is_closed

Expiry == clock + TTL

Expire(s) ==
    /\ Due(s)
    /\ started' = [started EXCEPT ![s] = TRUE]
    /\ expiresAt' = [expiresAt EXCEPT ![s] = IF Arms(s) THEN Expiry ELSE @]
    /\ timer' = [timer EXCEPT ![s] = IF Arms(s) THEN Expiry ELSE @]
    /\ UNCHANGED <<clock, closeVars, generation, responses, streamVars, idOf,
                   verifyVars, callerVars>>

(* `expire`, called back by the timer.                                     *)
Release(s) ==
    /\ timer[s] # None
    /\ timer[s] <= clock
    /\ responses' = IF Owns(s) THEN [responses EXCEPT ![idOf[s]] = None]
                    ELSE responses
    /\ timer' = [timer EXCEPT ![s] = None]
    /\ UNCHANGED <<clock, closeVars, generation, streamVars, idOf, started,
                   expiresAt, verifyVars, callerVars>>

BadDisarmed == timer
Disarmed == [s \in Streams |->
                IF \E id \in Ids : responses[id] = s THEN None ELSE timer[s]]

Clear ==
    /\ generation' = generation + 1
    /\ responses' = [id \in Ids |-> None]
    /\ timer' = Disarmed
    /\ UNCHANGED <<clock, doomed, doomedDrains, streamVars, idOf, started,
                   expiresAt, verifyVars, callerVars>>

ClearResponseCache ==
    /\ generation < MaxGeneration
    /\ Clear
    /\ UNCHANGED close

-----------------------------------------------------------------------------
(* verify_response runs in one go until it awaits the shielded task.  It   *)
(* does not look whether the client is closed.                             *)
NotFound(c, id) ==
    /\ rec[c] = None
    /\ ~Present(id)
    /\ responses' = Purged(id)
    /\ timer' = TimerPurged(id)
    /\ UNCHANGED <<clock, closeVars, generation, streamVars, idOf, started,
                   expiresAt, verifyVars, callerVars>>

Unused(s) == {l \in Lookups : outcome[s][l] = "unused"}

NewLookup(s) == CHOOSE l \in Lookups : outcome[s][l] = "unused"

NeedsLookup(s) == verification[s] = None

Start(c, id) ==
    LET s == responses[id]
    IN /\ rec[c] = None /\ Present(id)
       /\ NeedsLookup(s)
       /\ \E l \in Unused(s) :
             /\ l = NewLookup(s)
             /\ verification' = [verification EXCEPT ![s] = l]
             /\ outcome' = [outcome EXCEPT ![s][l] = "running"]
             /\ fut' = [fut EXCEPT ![c] = l]
       /\ rec' = [rec EXCEPT ![c] = s]
       /\ UNCHANGED <<clock, closeVars, generation, responses, streamVars, idOf,
                      expiryVars, captured, callbacks>>

Join(c, id) ==
    /\ rec[c] = None /\ Present(id)
    /\ ~NeedsLookup(responses[id])
    /\ rec' = [rec EXCEPT ![c] = responses[id]]
    /\ fut' = [fut EXCEPT ![c] = verification[responses[id]]]
    /\ UNCHANGED <<clock, closeVars, generation, responses, streamVars, idOf,
                   expiryVars, verifyVars>>

(* _verify_record awaits the body, fetches the signature and checks both;  *)
(* a retryable failure, such as a body that broke, resets the record from  *)
(* inside the task.  The bound on tasks leaves one for each retry.         *)
Verdicts(s) ==
    (IF body[s] = "complete" THEN {"ok"} ELSE {}) \cup {"failed"}
        \cup (IF Unused(s) # {} THEN {"retryable"} ELSE {})

Finish(s, l) ==
    /\ outcome[s][l] = "running"
    /\ <<s, l>> \notin doomed
    /\ body[s] \in Settled
    /\ \E o \in Verdicts(s) :
          /\ outcome' = [outcome EXCEPT ![s][l] = o]
          /\ verification' = [verification EXCEPT
                 ![s] = IF o = "retryable" THEN None ELSE @]
    /\ callbacks' = callbacks \cup {<<s, l>>}
    /\ UNCHANGED <<clock, closeVars, generation, responses, streamVars, idOf,
                   expiryVars, captured, callerVars>>

Cancelled(s, l) ==
    /\ <<s, l>> \in doomed
    /\ outcome' = [outcome EXCEPT ![s][l] = "cancelled"]
    /\ doomed' = doomed \ {<<s, l>>}
    /\ callbacks' = callbacks \cup {<<s, l>>}
    /\ UNCHANGED <<clock, close, doomedDrains, generation, responses, streamVars,
                   idOf, expiryVars, captured, verification, callerVars>>

(* _release_verified_capture, the task's done callback.                    *)
BadCurrent(s, l) == TRUE
BadCurrentFailed(s, l) == verification[s] = l /\ outcome[s][l] = "ok"
Current(s, l) == verification[s] = l

ReleaseCapture(s, l) ==
    /\ <<s, l>> \in callbacks
    /\ callbacks' = callbacks \ {<<s, l>>}
    /\ captured' = [captured EXCEPT ![s] = IF Current(s, l) THEN FALSE ELSE @]
    /\ UNCHANGED <<clock, closeVars, generation, responses, streamVars, idOf,
                   expiryVars, verification, outcome, callerVars>>

(* The shield answers the caller; cancelling the caller leaves the task.   *)
Return(c) ==
    /\ rec[c] # None
    /\ rec' = [rec EXCEPT ![c] = None]
    /\ fut' = [fut EXCEPT ![c] = None]
    /\ UNCHANGED <<clock, closeVars, generation, responses, streamVars, idOf,
                   expiryVars, verifyVars>>

BadResolved(c) == outcome[rec[c]][fut[c]] = "ok"
Resolved(c) == outcome[rec[c]][fut[c]] # "running"

Receive(c) == rec[c] # None /\ Resolved(c) /\ Return(c)

GiveUp(c) == Return(c)

-----------------------------------------------------------------------------
(* aclose: mark the client closed; cancel the tasks of retained records    *)
(* and the drains found at one moment; wait for those; clear the cache.    *)
CloseShut ==
    /\ close = "open"
    /\ close' = "shut"
    /\ UNCHANGED <<clock, doomed, doomedDrains, generation, responses,
                   streamVars, idOf, expiryVars, verifyVars, callerVars>>

CancelTasks ==
    /\ close = "shut"
    /\ close' = "gathering"
    /\ doomed' = {t \in Streams \X Lookups :
                     /\ outcome[t[1]][t[2]] = "running"
                     /\ verification[t[1]] = t[2]
                     /\ \E id \in Ids : responses[id] = t[1]}
    /\ doomedDrains' = {s \in Streams : body[s] \in {"spawned", "draining"}}
    /\ UNCHANGED <<clock, generation, responses, streamVars, idOf, expiryVars,
                   verifyVars, callerVars>>

CloseClears ==
    /\ close = "gathering"
    /\ doomed = {} /\ doomedDrains = {}
    /\ close' = "closed"
    /\ Clear

(* Callbacks and first steps run before the event loop lets time pass.     *)
Tick ==
    /\ clock < MaxClock
    /\ callbacks = {}
    /\ \A s \in Streams : ~Due(s) /\ body[s] # "spawned"
    /\ clock' = clock + 1
    /\ UNCHANGED <<closeVars, generation, responses, streamVars, idOf,
                   expiryVars, verifyVars, callerVars>>

Register(s) ==
    \/ RegisterNothing(s)
    \/ \E id \in Ids : RegisterRefused(s, id) \/ RegisterNew(s, id)

StreamStep(s) ==
    \/ Send(s)
    \/ Abandon(s)
    \/ StartDrain(s)
    \/ EnterDrain(s)
    \/ BodyCompletes(s)
    \/ BodyFails(s)
    \/ DrainEnds(s)
    \/ Register(s)
    \/ Expire(s)
    \/ Release(s)

TaskStep(s, l) == Finish(s, l) \/ Cancelled(s, l) \/ ReleaseCapture(s, l)

CallerStep(c) ==
    \/ \E id \in Ids : NotFound(c, id) \/ Start(c, id) \/ Join(c, id)
    \/ Receive(c)
    \/ GiveUp(c)

Close == CloseShut \/ CancelTasks \/ CloseClears

Next ==
    \/ \E s \in Streams : StreamStep(s)
    \/ \E s \in Streams, l \in Lookups : TaskStep(s, l)
    \/ \E c \in Callers : CallerStep(c)
    \/ ClearResponseCache
    \/ Close
    \/ Tick

Spec == Init /\ [][Next]_vars

(* Callbacks and timers run, tasks begin, cancelled ones end, time passes, *)
(* and the signature service answers or fails every request.  Nothing      *)
(* obliges a body to end, nor a program to close its client.               *)
Fairness ==
    /\ \A s \in Streams :
          /\ WF_vars(Expire(s)) /\ WF_vars(Release(s))
          /\ WF_vars(EnterDrain(s)) /\ WF_vars(DrainEnds(s))
    /\ \A s \in Streams, l \in Lookups : WF_vars(TaskStep(s, l))
    /\ \A c \in Callers : WF_vars(Receive(c))
    /\ WF_vars(CancelTasks \/ CloseClears)
    /\ WF_vars(Tick)

FairSpec == Spec /\ Fairness

-----------------------------------------------------------------------------
(* Safety *)

(* Once a task has decided, the bytes and the session of its record stay    *)
(* only until its done callback, although a retry may start before the     *)
(* done callback of the task it replaces.                                  *)
DecidedReleases ==
    \A s \in Streams, l \in Lookups :
        (outcome[s][l] \in Terminal /\ captured[s]) => <<s, l>> \in callbacks

(* No timer outlives its record: an armed timer keeps the record, and so   *)
(* its bytes, reachable until it fires.                                    *)
NoStrayTimers == \A s \in Streams : timer[s] # None => Owns(s)

(* What holds in every state: the types, no bytes of a decided completion, *)
(* and no timer without its record (_verify_record and its callbacks,      *)
(* _register_response).                                                    *)
Inv == TypeOK /\ DecidedReleases /\ NoStrayTimers

-----------------------------------------------------------------------------
(* The abstract receipts this cache implements. *)

VerdictOf(s) ==
    IF \E l \in Lookups : outcome[s][l] = "ok" THEN "ok"
    ELSE IF \E l \in Lookups : outcome[s][l] = "failed" THEN "failed"
    ELSE IF \E l \in Lookups : outcome[s][l] = "cancelled" THEN "cancelled"
    ELSE "undecided"

(* A clear fences off every call sent before it, and so does aclose.       *)
AgeOf(s) ==
    IF stream[s] = "idle" THEN "unsent"
    ELSE IF sentGeneration[s] = generation /\ close # "closed" THEN "current"
    ELSE "fenced"

Promise == INSTANCE Receipts WITH
    Completions <- Streams,
    age <- [s \in Streams |-> AgeOf(s)],
    held <- responses,
    lapsed <- {s \in Streams : Expired(s)},
    seen <- {s \in Streams : stream[s] = "retained"},
    bytes <- {s \in Streams : captured[s]},
    asking <- [s \in Streams |-> {l \in Lookups : outcome[s][l] = "running"}],
    verdict <- [s \in Streams |-> VerdictOf(s)]

(* At most one lookup asks about a completion, and its bytes are there     *)
(* while one may; its verdict is final; nothing sent before a clear or     *)
(* aclose is retained after it; an unexpired completion is never           *)
(* displaced: every step is one that Receipts allows.                      *)
ImplementsReceipts == Promise!Spec

-----------------------------------------------------------------------------
(* Liveness *)

(* A completion whose body has settled, well or not, leaves the cache      *)
(* although nobody asks for it again.                                      *)
EventuallyExpires ==
    \A s \in Streams, id \in Ids :
        (responses[id] = s /\ Due(s) /\ clock + TTL <= MaxClock)
            ~> responses[id] # s

(* Every caller of verify_response is answered once the body has settled.  *)
WaitersAnswered ==
    \A c \in Callers, s \in Streams :
        (rec[c] = s /\ body[s] \in Settled) ~> rec[c] # s

(* aclose returns, also while a drain reads a body that never ends.        *)
CloseReturns == is_closed ~> close = "closed"

=============================================================================
