---------------------------- MODULE RustReceipts ----------------------------
(***************************************************************************)
(* The response cache of the Rust client (rs/src/inference.rs): `send`     *)
(* captures a completion, `register` retains it, `verify_response` shares  *)
(* one signature lookup between callers, `clear_response_cache` empties    *)
(* the cache and fences off captures that are still running.               *)
(*                                                                         *)
(* One stream is one inference call; a retained stream is also its Record. *)
(* A caller is a task inside `verify_response`.  Tasks run on several      *)
(* threads: an action ends where the code releases a lock or awaits, and a *)
(* task may be dropped only where it awaits.                               *)
(***************************************************************************)
EXTENDS Naturals

CONSTANTS Streams,        \* inference calls
          Ids,            \* completion IDs the service may answer with
          Callers,        \* tasks calling verify_response
          None,           \* an empty slot
          TTL,            \* response_cache_ttl, in ticks; 0 disables retention
          MaxClock,       \* bound on time
          MaxGeneration,  \* bound on calls of clear_response_cache
          Lookups         \* shared lookup futures a record can allocate

ASSUME RustReceiptsAssumption ==
    /\ None \notin Streams \cup Lookups
    /\ TTL \in Nat
    /\ MaxClock \in Nat
    /\ MaxGeneration \in Nat
    /\ Lookups # {}

VARIABLES clock,
          generation,      \* State.response_generation
          responses,       \* State.responses: ID -> retained stream, or None
          stream,          \* what became of each inference call
          sentGeneration,  \* the generation `send` read before anything else
          finished,        \* Record.finished
          captured,        \* RecordState.captured is Some
          verification,    \* RecordState.verification: a lookup, or None
          outcome,         \* outcome[s][l]: state of lookup l of record s
          pc, rec, fut     \* each caller's position, record and future

streamVars == <<stream, sentGeneration>>
recordVars == <<finished, captured, verification, outcome>>
callerVars == <<pc, rec, fut>>
vars == <<clock, generation, responses, streamVars, recordVars, callerVars>>

StreamStates == {"idle", "open", "retained", "unretained", "duplicate"}
Outcomes == {"unused", "pending", "ok", "failed", "retryable"}
Terminal == {"ok", "failed"}
Places == {"idle", "holding", "awaiting", "ready"}

TypeOK ==
    /\ clock \in 0..MaxClock
    /\ generation \in 0..MaxGeneration
    /\ responses \in [Ids -> Streams \cup {None}]
    /\ stream \in [Streams -> StreamStates]
    /\ sentGeneration \in [Streams -> 0..MaxGeneration]
    /\ finished \in [Streams -> 0..MaxClock]
    /\ captured \in [Streams -> BOOLEAN]
    /\ verification \in [Streams -> Lookups \cup {None}]
    /\ outcome \in [Streams -> [Lookups -> Outcomes]]
    /\ pc \in [Callers -> Places]
    /\ rec \in [Callers -> Streams \cup {None}]
    /\ fut \in [Callers -> Lookups \cup {None}]

Init ==
    /\ clock = 0
    /\ generation = 0
    /\ responses = [id \in Ids |-> None]
    /\ stream = [s \in Streams |-> "idle"]
    /\ sentGeneration = [s \in Streams |-> 0]
    /\ finished = [s \in Streams |-> 0]
    /\ captured = [s \in Streams |-> FALSE]
    /\ verification = [s \in Streams |-> None]
    /\ outcome = [s \in Streams |-> [l \in Lookups |-> "unused"]]
    /\ pc = [c \in Callers |-> "idle"]
    /\ rec = [c \in Callers |-> None]
    /\ fut = [c \in Callers |-> None]

-----------------------------------------------------------------------------
(* The operators named Bad... are slips a maintainer could make in the      *)
(* definition that follows each of them; no action uses them.              *)

(* responses.retain(|_, r| r.finished.elapsed() < response_cache_ttl)      *)
Unexpired(s) == clock < finished[s] + TTL

Pruned == [id \in Ids |->
              IF responses[id] # None /\ Unexpired(responses[id])
              THEN responses[id] ELSE None]

(* register drops the capture of a stream that the cache was cleared under. *)
BadFenced(s) == FALSE
Fenced(s) == sentGeneration[s] # generation

Taken(id) == Pruned[id] # None

(* Record.finished is the start of the TTL.                                *)
FinishTime == clock

(* send reads the generation first, then verifies, sends and streams.      *)
Send(s) ==
    /\ stream[s] = "idle"
    /\ stream' = [stream EXCEPT ![s] = "open"]
    /\ sentGeneration' = [sentGeneration EXCEPT ![s] = generation]
    /\ UNCHANGED <<clock, generation, responses, recordVars, callerVars>>

(* The call fails, its body errs, or its consumer drops it before the end. *)
Abandon(s) ==
    /\ stream[s] = "open"
    /\ stream' = [stream EXCEPT ![s] = "unretained"]
    /\ UNCHANGED <<clock, generation, responses, sentGeneration, recordVars,
                   callerVars>>

(* register, called with the completion's ID once the whole body was read: *)
(* retain nothing, refuse an ID in use, or retain the capture.             *)
RegisterNothing(s) ==
    /\ stream[s] = "open"
    /\ Fenced(s) \/ TTL = 0
    /\ responses' = IF Fenced(s) THEN responses ELSE Pruned
    /\ stream' = [stream EXCEPT ![s] = "unretained"]
    /\ UNCHANGED <<clock, generation, sentGeneration, recordVars, callerVars>>

RegisterDuplicate(s, id) ==
    /\ stream[s] = "open"
    /\ ~Fenced(s)
    /\ TTL # 0
    /\ Taken(id)
    /\ responses' = Pruned
    /\ stream' = [stream EXCEPT ![s] = "duplicate"]
    /\ UNCHANGED <<clock, generation, sentGeneration, recordVars, callerVars>>

RegisterNew(s, id) ==
    /\ stream[s] = "open"
    /\ ~Fenced(s)
    /\ TTL # 0
    /\ ~Taken(id)
    /\ responses' = [Pruned EXCEPT ![id] = s]
    /\ stream' = [stream EXCEPT ![s] = "retained"]
    /\ finished' = [finished EXCEPT ![s] = FinishTime]
    /\ captured' = [captured EXCEPT ![s] = TRUE]
    /\ UNCHANGED <<clock, generation, sentGeneration, verification, outcome,
                   callerVars>>

ClearResponseCache ==
    /\ generation < MaxGeneration
    /\ generation' = generation + 1
    /\ responses' = [id \in Ids |-> None]
    /\ UNCHANGED <<clock, streamVars, recordVars, callerVars>>

-----------------------------------------------------------------------------
(* verify_response, first critical section: prune, then clone the Arc.     *)
Lookup(c, id) ==
    /\ pc[c] = "idle"
    /\ responses' = Pruned
    /\ rec' = [rec EXCEPT ![c] = Pruned[id]]
    /\ pc' = [pc EXCEPT ![c] = IF Pruned[id] = None THEN "idle" ELSE "holding"]
    /\ UNCHANGED <<clock, generation, streamVars, recordVars, fut>>

NeedsLookup(s) == verification[s] = None

Unused(s) == {l \in Lookups : outcome[s][l] = "unused"}

NewLookup(s) == CHOOSE l \in Lookups : outcome[s][l] = "unused"

(* Second critical section, on the record alone: start a lookup from the   *)
(* captured bytes (the code panics if there are none) or share the one     *)
(* that is cached.                                                         *)
Start(c) ==
    LET s == rec[c]
    IN /\ pc[c] = "holding"
       /\ NeedsLookup(s)
       /\ captured[s]
       /\ \E l \in Unused(s) :
             /\ l = NewLookup(s)
             /\ verification' = [verification EXCEPT ![s] = l]
             /\ outcome' = [outcome EXCEPT ![s][l] = "pending"]
             /\ fut' = [fut EXCEPT ![c] = l]
       /\ pc' = [pc EXCEPT ![c] = "awaiting"]
       /\ UNCHANGED <<clock, generation, responses, streamVars, finished,
                      captured, rec>>

Join(c) ==
    /\ pc[c] = "holding"
    /\ ~NeedsLookup(rec[c])
    /\ fut' = [fut EXCEPT ![c] = verification[rec[c]]]
    /\ pc' = [pc EXCEPT ![c] = "awaiting"]
    /\ UNCHANGED <<clock, generation, responses, streamVars, recordVars, rec>>

(* Any waiting caller may poll the shared future to completion.  A lookup  *)
(* may fail retryably while the bound leaves another one to start.         *)
Drive(c) ==
    /\ pc[c] = "awaiting"
    /\ outcome[rec[c]][fut[c]] = "pending"
    /\ \E o \in Terminal \cup {"retryable"} :
          /\ o = "retryable" => Unused(rec[c]) # {}
          /\ outcome' = [outcome EXCEPT ![rec[c]][fut[c]] = o]
    /\ pc' = [pc EXCEPT ![c] = "ready"]
    /\ UNCHANGED <<clock, generation, responses, streamVars, finished,
                   captured, verification, rec, fut>>

(* Completing a shared future wakes every other task that awaits it.       *)
BadWoken(c) == FALSE
Woken(c) == outcome[rec[c]][fut[c]] # "pending"

Observe(c) ==
    /\ pc[c] = "awaiting"
    /\ Woken(c)
    /\ pc' = [pc EXCEPT ![c] = "ready"]
    /\ UNCHANGED <<clock, generation, responses, streamVars, recordVars, rec,
                   fut>>

Return(c) ==
    /\ pc' = [pc EXCEPT ![c] = "idle"]
    /\ rec' = [rec EXCEPT ![c] = None]
    /\ fut' = [fut EXCEPT ![c] = None]

(* Only the future still installed in the record (ptr_eq) is acted on.     *)
Current(c) == verification[rec[c]] = fut[c]

(* A retryable failure keeps the bytes for another lookup.                 *)
Releases(o) == o # "retryable"

(* Same poll as the Ready above: no await, so no cancellation in between.  *)
Settle(c) ==
    LET s == rec[c]
        o == outcome[s][fut[c]]
    IN /\ pc[c] = "ready"
       /\ verification' = [verification EXCEPT
              ![s] = IF Current(c) /\ o = "retryable" THEN None ELSE @]
       /\ captured' = [captured EXCEPT
              ![s] = IF Current(c) /\ Releases(o) THEN FALSE ELSE @]
       /\ Return(c)
       /\ UNCHANGED <<clock, generation, responses, streamVars, finished,
                      outcome>>

(* A task is dropped where it awaits; the future stays in the record.      *)
BadCancellable == {"awaiting", "ready"}
Cancellable == {"awaiting"}

Cancel(c) ==
    /\ pc[c] \in Cancellable
    /\ Return(c)
    /\ UNCHANGED <<clock, generation, responses, streamVars, recordVars>>

Tick ==
    /\ clock < MaxClock
    /\ clock' = clock + 1
    /\ UNCHANGED <<generation, responses, streamVars, recordVars, callerVars>>

Register(s) ==
    \/ RegisterNothing(s)
    \/ \E id \in Ids : RegisterDuplicate(s, id) \/ RegisterNew(s, id)

StreamStep(s) == Send(s) \/ Abandon(s) \/ Register(s)

Advance(c) == Start(c) \/ Join(c) \/ Drive(c) \/ Observe(c) \/ Settle(c)

CallerStep(c) ==
    \/ \E id \in Ids : Lookup(c, id)
    \/ Advance(c)
    \/ Cancel(c)

Next ==
    \/ \E s \in Streams : StreamStep(s)
    \/ \E c \in Callers : CallerStep(c)
    \/ ClearResponseCache
    \/ Tick

Spec == Init /\ [][Next]_vars

(* A caller that is not dropped keeps being polled, and the signature      *)
(* service answers or fails every request.                                 *)
Fairness == \A c \in Callers : WF_vars(Advance(c))

FairSpec == Spec /\ Fairness

-----------------------------------------------------------------------------
(* Safety *)

(* A caller about to start a lookup finds the captured bytes: the          *)
(* expect("unverified response bytes") in verify_response never panics,    *)
(* whatever other callers settled since this one cloned the record.        *)
CaptureAvailable ==
    \A c \in Callers :
        (pc[c] = "holding" /\ verification[rec[c]] = None) => captured[rec[c]]

(* Callers of one record share one signature request: no second lookup is  *)
(* outstanding, and the outstanding one is the one installed in the record. *)
SingleLookup ==
    \A s \in Streams, l \in Lookups :
        outcome[s][l] = "pending" => verification[s] = l

(* Bytes are released only by a terminal result that stays cached: a       *)
(* retained completion without bytes has an installed ok or failed future. *)
ReleasedOnlyWhenDecided ==
    \A s \in Streams :
        (stream[s] = "retained" /\ ~captured[s]) =>
            /\ verification[s] # None
            /\ outcome[s][verification[s]] \in Terminal

(* Once decided, the bytes are gone unless a caller that saw the result is *)
(* still inside the poll that releases them or about to make it.           *)
DecidedReleases ==
    \A s \in Streams, l \in Lookups :
        (outcome[s][l] \in Terminal /\ captured[s]) =>
            \E c \in Callers : pc[c] = "ready" /\ rec[c] = s /\ fut[c] = l

(* A completion is never verified to two terminal results, so two callers  *)
(* of verify_response cannot be told different things about it.            *)
OneVerdict ==
    \A s \in Streams, k, l \in Lookups :
        (outcome[s][k] \in Terminal /\ outcome[s][l] \in Terminal) => k = l

(* Nothing sent before the last clear_response_cache is retained, although *)
(* its body may finish after the clear.                                    *)
ClearFence ==
    \A id \in Ids :
        responses[id] # None => sentGeneration[responses[id]] = generation

(* A retained completion is displaced by another one under the same ID     *)
(* only after its TTL.                                                     *)
NeverDisplaced ==
    [][\A id \in Ids :
          LET old == responses[id]
              new == responses'[id]
          IN (old # None /\ new # None /\ old # new) => ~Unexpired(old)]_vars

-----------------------------------------------------------------------------
(* The abstract receipts this cache implements. *)

VerdictOf(s) ==
    IF \E l \in Lookups : outcome[s][l] = "ok" THEN "ok"
    ELSE IF \E l \in Lookups : outcome[s][l] = "failed" THEN "failed"
    ELSE "undecided"

(* A clear fences off every call sent before it.                           *)
AgeOf(s) ==
    IF stream[s] = "idle" THEN "unsent"
    ELSE IF sentGeneration[s] = generation THEN "current"
    ELSE "fenced"

Promise == INSTANCE Receipts WITH
    Completions <- Streams,
    age <- [s \in Streams |-> AgeOf(s)],
    held <- responses,
    lapsed <- {s \in Streams : stream[s] = "retained" /\ ~Unexpired(s)},
    seen <- {s \in Streams : stream[s] = "retained"},
    bytes <- {s \in Streams : captured[s]},
    asking <- [s \in Streams |-> {l \in Lookups : outcome[s][l] = "pending"}],
    verdict <- [s \in Streams |-> VerdictOf(s)]

(* At most one lookup asks about a completion, and its bytes are there     *)
(* while one may; its verdict is final; nothing sent before a clear        *)
(* is retained after it; an unexpired completion is never                  *)
(* displaced: every step is one that Receipts allows.                      *)
ImplementsReceipts == Promise!Spec

-----------------------------------------------------------------------------
(* Liveness *)

(* A caller waiting for a shared lookup is answered or dropped, even if    *)
(* the caller that started the lookup was dropped.                         *)
WaitersAnswered ==
    \A c \in Callers : pc[c] = "awaiting" ~> pc[c] = "idle"

=============================================================================
