----------------------------- MODULE GoReceipts -----------------------------
(***************************************************************************)
(* The response cache of the Go client (go/client.go): RoundTrip captures  *)
(* a completion, register retains it, VerifyResponse shares one goroutine  *)
(* that fetches and checks its signature, ClearResponseCache and Close     *)
(* empty the cache.                                                        *)
(*                                                                         *)
(* One stream is one RoundTrip; a retained stream is also its              *)
(* responseRecord.  A lookup is one pendingResponse and its goroutine,     *)
(* which reads the record's bytes without c.mu.  Each action is one        *)
(* critical section of c.mu, or one receive of a waiting caller.           *)
(***************************************************************************)
EXTENDS Naturals

CONSTANTS Streams,        \* inference calls
          Ids,            \* completion IDs the service may answer with
          Callers,        \* goroutines calling VerifyResponse
          Lookups,        \* pendingResponses a record can allocate
          None,           \* an empty slot
          TTL,            \* ResponseTTL, in ticks; 0 disables retention
          MaxClock,       \* bound on time
          MaxGeneration   \* bound on calls of ClearResponseCache

ASSUME GoReceiptsAssumption ==
    /\ None \notin Streams \cup Lookups
    /\ TTL \in Nat
    /\ MaxClock \in Nat
    /\ MaxGeneration \in Nat

VARIABLES clock,
          close,           \* progress of Close; "open" before it
          generation,      \* c.responseGeneration
          responses,       \* c.responses: ID -> retained stream, or None
          stream,          \* what became of each inference call
          sentGeneration,  \* the generation RoundTrip read first
          expires,         \* responseRecord.expires
          captured,        \* the record's request, response and session
          verifying,       \* responseRecord.verifying: a lookup, or None
          outcome,         \* outcome[s][l]: state of lookup l of record s
          rec, fut         \* the record and lookup each caller waits for

streamVars == <<stream, sentGeneration>>
recordVars == <<expires, captured, verifying, outcome>>
callerVars == <<rec, fut>>
vars == <<clock, close, generation, responses, streamVars, recordVars,
          callerVars>>

closed == close # "open"

StreamStates == {"idle", "open", "retained", "unretained", "duplicate"}
Terminal == {"ok", "failed"}
Outcomes == {"unused", "running", "retryable"} \cup Terminal

TypeOK ==
    /\ clock \in 0..MaxClock
    /\ close \in {"open", "waiting", "returned"}
    /\ generation \in 0..MaxGeneration
    /\ responses \in [Ids -> Streams \cup {None}]
    /\ stream \in [Streams -> StreamStates]
    /\ sentGeneration \in [Streams -> 0..MaxGeneration]
    /\ expires \in [Streams -> 0..(MaxClock + TTL)]
    /\ captured \in [Streams -> BOOLEAN]
    /\ verifying \in [Streams -> Lookups \cup {None}]
    /\ outcome \in [Streams -> [Lookups -> Outcomes]]
    /\ rec \in [Callers -> Streams \cup {None}]
    /\ fut \in [Callers -> Lookups \cup {None}]

Init ==
    /\ clock = 0
    /\ close = "open"
    /\ generation = 0
    /\ responses = [id \in Ids |-> None]
    /\ stream = [s \in Streams |-> "idle"]
    /\ sentGeneration = [s \in Streams |-> 0]
    /\ expires = [s \in Streams |-> 0]
    /\ captured = [s \in Streams |-> FALSE]
    /\ verifying = [s \in Streams |-> None]
    /\ outcome = [s \in Streams |-> [l \in Lookups |-> "unused"]]
    /\ rec = [c \in Callers |-> None]
    /\ fut = [c \in Callers |-> None]

-----------------------------------------------------------------------------
(* The operators named Bad... are slips a maintainer could make in the      *)
(* definition that follows each of them; no action uses them.              *)

(* now.Before(expires)                                                     *)
Unexpired(s) == clock < expires[s]

Present(id) == responses[id] # None /\ Unexpired(responses[id])

Pruned == [id \in Ids |-> IF Present(id) THEN responses[id] ELSE None]

(* The expiry goroutine prunes every second until the client closes.       *)
Prune ==
    /\ ~closed
    /\ responses' = Pruned
    /\ UNCHANGED <<clock, close, generation, streamVars, recordVars, callerVars>>

(* RoundTrip reads the generation before it verifies, sends and reads.     *)
Send(s) ==
    /\ stream[s] = "idle"
    /\ stream' = [stream EXCEPT ![s] = "open"]
    /\ sentGeneration' = [sentGeneration EXCEPT ![s] = generation]
    /\ UNCHANGED <<clock, close, generation, responses, recordVars, callerVars>>

(* The call fails, its body errs, or its consumer closes it before the end. *)
Abandon(s) ==
    /\ stream[s] = "open"
    /\ stream' = [stream EXCEPT ![s] = "unretained"]
    /\ UNCHANGED <<clock, close, generation, responses, sentGeneration,
                   recordVars, callerVars>>

(* register: refuse after Close, retain nothing, refuse an ID that is in   *)
(* use, or retain the capture.                                             *)
BadShut == FALSE
Shut == closed

Fenced(s) == sentGeneration[s] # generation

Taken(id) == Present(id)

Refused(s, why) ==
    /\ stream' = [stream EXCEPT ![s] = why]
    /\ UNCHANGED <<clock, close, generation, responses, sentGeneration,
                   recordVars, callerVars>>

RegisterNothing(s) ==
    /\ stream[s] = "open"
    /\ Shut \/ Fenced(s) \/ TTL = 0
    /\ Refused(s, "unretained")

RegisterDuplicate(s, id) ==
    /\ stream[s] = "open"
    /\ ~Shut /\ ~Fenced(s) /\ TTL # 0
    /\ Taken(id)
    /\ Refused(s, "duplicate")

BadExpiry == clock + 2 * TTL
Expiry == clock + TTL

RegisterNew(s, id) ==
    /\ stream[s] = "open"
    /\ ~Shut /\ ~Fenced(s) /\ TTL # 0
    /\ ~Taken(id)
    /\ responses' = [Pruned EXCEPT ![id] = s]
    /\ stream' = [stream EXCEPT ![s] = "retained"]
    /\ expires' = [expires EXCEPT ![s] = Expiry]
    /\ captured' = [captured EXCEPT ![s] = TRUE]
    /\ UNCHANGED <<clock, close, generation, sentGeneration, verifying, outcome,
                   callerVars>>

ClearResponseCache ==
    /\ generation < MaxGeneration
    /\ generation' = generation + 1
    /\ responses' = [id \in Ids |-> None]
    /\ UNCHANGED <<clock, close, streamVars, recordVars, callerVars>>

-----------------------------------------------------------------------------
(* VerifyResponse: not found, join the running or decided lookup, or start *)
(* one.  It does not look at c.closed: Close has emptied the map.          *)
Found(c, id) == rec[c] = None /\ Present(id)

NotFound(c, id) ==
    /\ rec[c] = None
    /\ ~Present(id)
    /\ UNCHANGED vars

NeedsLookup(s) == verifying[s] = None

Unused(s) == {l \in Lookups : outcome[s][l] = "unused"}

NewLookup(s) == CHOOSE l \in Lookups : outcome[s][l] = "unused"

Start(c, id) ==
    LET s == responses[id]
    IN /\ Found(c, id)
       /\ NeedsLookup(s)
       /\ \E l \in Unused(s) :
             /\ l = NewLookup(s)
             /\ verifying' = [verifying EXCEPT ![s] = l]
             /\ outcome' = [outcome EXCEPT ![s][l] = "running"]
             /\ fut' = [fut EXCEPT ![c] = l]
       /\ rec' = [rec EXCEPT ![c] = s]
       /\ UNCHANGED <<clock, close, generation, responses, streamVars, expires,
                      captured>>

Join(c, id) ==
    /\ Found(c, id)
    /\ ~NeedsLookup(responses[id])
    /\ rec' = [rec EXCEPT ![c] = responses[id]]
    /\ fut' = [fut EXCEPT ![c] = verifying[responses[id]]]
    /\ UNCHANGED <<clock, close, generation, responses, streamVars, recordVars>>

(* The goroutine's last critical section.  A cancelled, timed-out or       *)
(* retryable lookup clears the slot and keeps the bytes; any other result  *)
(* stays and releases them.                                                *)
BadReleases(o) == TRUE
Releases(o) == o # "retryable"

Settle(s, l) ==
    /\ outcome[s][l] = "running"
    /\ \E o \in Terminal \cup {"retryable"} :
          /\ outcome' = [outcome EXCEPT ![s][l] = o]
          /\ verifying' = [verifying EXCEPT
                 ![s] = IF o = "retryable" THEN None ELSE @]
          /\ captured' = [captured EXCEPT
                 ![s] = IF Releases(o) THEN FALSE ELSE @]
    /\ UNCHANGED <<clock, close, generation, responses, streamVars, expires,
                   callerVars>>

(* The caller's select over its own context, c.ctx and p.done.             *)
Return(c) ==
    /\ rec[c] # None
    /\ rec' = [rec EXCEPT ![c] = None]
    /\ fut' = [fut EXCEPT ![c] = None]
    /\ UNCHANGED <<clock, close, generation, responses, streamVars, recordVars>>

BadSignalled(c) == outcome[rec[c]][fut[c]] \in Terminal
Signalled(c) == outcome[rec[c]][fut[c]] # "running" \/ closed

Receive(c) == rec[c] # None /\ Signalled(c) /\ Return(c)

GiveUp(c) == Return(c)

(* Close: empty the cache and cancel every context, then wait for the      *)
(* goroutines.  Later calls change nothing.                                *)
CloseMark ==
    /\ close = "open"
    /\ close' = "waiting"
    /\ responses' = [id \in Ids |-> None]
    /\ UNCHANGED <<clock, generation, streamVars, recordVars, callerVars>>

Running == {r \in Streams \X Lookups : outcome[r[1]][r[2]] = "running"}

BadDrained == \A s \in Streams : verifying[s] = None
Drained == Running = {}

CloseReturn ==
    /\ close = "waiting"
    /\ Drained
    /\ close' = "returned"
    /\ UNCHANGED <<clock, generation, responses, streamVars, recordVars,
                   callerVars>>

Tick ==
    /\ clock < MaxClock
    /\ clock' = clock + 1
    /\ UNCHANGED <<close, generation, responses, streamVars, recordVars,
                   callerVars>>

Register(s) ==
    \/ RegisterNothing(s)
    \/ \E id \in Ids : RegisterDuplicate(s, id) \/ RegisterNew(s, id)

StreamStep(s) == Send(s) \/ Abandon(s) \/ Register(s)

CallerStep(c) ==
    \/ \E id \in Ids : NotFound(c, id) \/ Start(c, id) \/ Join(c, id)
    \/ Receive(c)
    \/ GiveUp(c)

Next ==
    \/ \E s \in Streams : StreamStep(s)
    \/ \E s \in Streams, l \in Lookups : Settle(s, l)
    \/ \E c \in Callers : CallerStep(c)
    \/ Prune
    \/ ClearResponseCache
    \/ CloseMark
    \/ CloseReturn
    \/ Tick

Spec == Init /\ [][Next]_vars

(* Goroutines are scheduled; a lookup ends because its context has a       *)
(* two-minute timeout and is cancelled by Close.                           *)
Fairness ==
    /\ \A s \in Streams, l \in Lookups : WF_vars(Settle(s, l))
    /\ \A c \in Callers : WF_vars(Receive(c))
    /\ WF_vars(CloseReturn)

FairSpec == Spec /\ Fairness

-----------------------------------------------------------------------------
(* Safety *)

(* c.wg.Add never races c.wg.Wait: VerifyResponse starts no goroutine once *)
(* the client is closed although it never checks c.closed.                 *)
NoLateAdd == [][closed => Running' \subseteq Running]_vars

-----------------------------------------------------------------------------
(* The abstract receipts this cache implements. *)

VerdictOf(s) ==
    IF \E l \in Lookups : outcome[s][l] = "ok" THEN "ok"
    ELSE IF \E l \in Lookups : outcome[s][l] = "failed" THEN "failed"
    ELSE "undecided"

(* A clear fences off every call sent before it, and so does Close.        *)
AgeOf(s) ==
    IF stream[s] = "idle" THEN "unsent"
    ELSE IF sentGeneration[s] = generation /\ ~closed THEN "current"
    ELSE "fenced"

Promise == INSTANCE Receipts WITH
    Completions <- Streams,
    age <- [s \in Streams |-> AgeOf(s)],
    held <- responses,
    lapsed <- {s \in Streams : stream[s] = "retained" /\ ~Unexpired(s)},
    seen <- {s \in Streams : stream[s] = "retained"},
    bytes <- {s \in Streams : captured[s]},
    asking <- [s \in Streams |-> {l \in Lookups : outcome[s][l] = "running"}],
    verdict <- [s \in Streams |-> VerdictOf(s)]

(* At most one lookup asks about a completion, and its bytes are there     *)
(* while one may; its verdict is final; nothing sent before a clear or     *)
(* Close is retained after it; an unexpired completion is never            *)
(* displaced: every step is one that Receipts allows.                      *)
ImplementsReceipts == Promise!Spec

-----------------------------------------------------------------------------
(* Liveness *)

(* Every caller of VerifyResponse is answered, also when its lookup fails  *)
(* retryably or the client closes under it; and Close returns, whatever    *)
(* lookups are running when it is called.                                  *)
CallsReturn ==
    /\ \A c \in Callers : rec[c] # None ~> rec[c] = None
    /\ closed ~> close = "returned"

=============================================================================
