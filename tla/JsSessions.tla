----------------------------- MODULE JsSessions -----------------------------
(***************************************************************************)
(* The deployment cache of the JavaScript clients                          *)
(* (js/src/core/inference-client.ts): startVerification starts or joins    *)
(* one promise per model.  Its own handler, registered before any caller's, *)
(* caches the session and forgets the promise, one microtask after it      *)
(* settles.  A caller with an AbortSignal may leave; the check goes on.    *)
(*                                                                         *)
(* Each action is a stretch of code between two awaits.                    *)
(***************************************************************************)
EXTENDS Naturals

CONSTANTS Models,     \* cache keys
          Callers,    \* calls of verify, fetch and the resources
          Checks,     \* promises of createVerificationState and their sessions
          None,       \* an empty slot
          TTL,        \* attestationCacheTimeToLiveMs, in ticks
          MaxClock    \* bound on time

VARIABLES clock,
          sessions,   \* cachedVerifications: model -> check, or None
          expires,    \* expiresAt
          pending,    \* pendingVerifications: model -> check, or None
          run,        \* run[p]: state of the promise
          model,      \* model[p]: the model p was started for
          pc, fut     \* each caller's position and the promise it awaits

cacheVars == <<sessions, expires, pending>>
checkVars == <<run, model>>
callerVars == <<pc, fut>>
vars == <<clock, cacheVars, checkVars, callerVars>>

(* A promise that has settled is "ok" or "failed" until its handler runs.  *)
Live == {"checking", "ok", "failed"}

Due(p) == run[p] \in {"ok", "failed"}

TypeOK ==
    /\ clock \in 0..MaxClock
    /\ sessions \in [Models -> Checks \cup {None}]
    /\ expires \in [Checks -> 0..(MaxClock + TTL)]
    /\ pending \in [Models -> Checks \cup {None}]
    /\ run \in [Checks -> Live \cup {"free", "done", "error"}]
    /\ model \in [Checks -> Models \cup {None}]
    /\ pc \in [Callers -> {"idle", "waiting"}]
    /\ fut \in [Callers -> Checks \cup {None}]

Init ==
    /\ clock = 0
    /\ sessions = [m \in Models |-> None]
    /\ expires = [p \in Checks |-> 0]
    /\ pending = [m \in Models |-> None]
    /\ run = [p \in Checks |-> "free"]
    /\ model = [p \in Checks |-> None]
    /\ pc = [c \in Callers |-> "idle"]
    /\ fut = [c \in Callers |-> None]

-----------------------------------------------------------------------------
(* The operators named Bad... are slips a maintainer could make in the      *)
(* definition that follows each of them; no action uses them.              *)

Fresh(m) == sessions[m] # None /\ clock < expires[sessions[m]]

(* removeExpiredVerifications                                              *)
Pruned == [m \in Models |-> IF Fresh(m) THEN sessions[m] ELSE None]

FreeCheck(p) ==
    /\ run[p] \in {"free", "done", "error"}
    /\ \A m \in Models : p \notin {sessions[m], pending[m]}
    /\ \A c \in Callers : fut[c] # p

(* One object that nothing refers to is as good as another.                *)
NewCheck == CHOOSE p \in Checks : FreeCheck(p)

(* startVerification first drops every expired session.                    *)
Started(c) ==
    /\ pc[c] = "idle"
    /\ sessions' = Pruned

Hit(c, m) ==
    /\ Started(c)
    /\ TTL # 0
    /\ Fresh(m)
    /\ UNCHANGED <<clock, expires, pending, checkVars, callerVars>>

Await(c, p) ==
    /\ pc' = [pc EXCEPT ![c] = "waiting"]
    /\ fut' = [fut EXCEPT ![c] = p]

Join(c, m) ==
    /\ Started(c)
    /\ ~Fresh(m)
    /\ pending[m] # None
    /\ Await(c, pending[m])
    /\ UNCHANGED <<clock, expires, pending, checkVars>>

Launch(c, m, p) ==
    /\ Started(c)
    /\ ~Fresh(m)
    /\ pending[m] = None
    /\ FreeCheck(p) /\ p = NewCheck
    /\ pending' = [pending EXCEPT ![m] = p]
    /\ run' = [run EXCEPT ![p] = "checking"]
    /\ model' = [model EXCEPT ![p] = m]
    /\ expires' = [expires EXCEPT ![p] = 0]
    /\ Await(c, p)
    /\ UNCHANGED clock

Return(c) ==
    /\ pc[c] = "waiting"
    /\ pc' = [pc EXCEPT ![c] = "idle"]
    /\ fut' = [fut EXCEPT ![c] = None]

Answer(c) ==
    /\ Return(c)
    /\ run[fut[c]] \in {"done", "error"}
    /\ UNCHANGED <<clock, cacheVars, checkVars>>

(* awaitWithAbort rejects; nothing else is told.                           *)
GiveUp(c) ==
    /\ Return(c)
    /\ UNCHANGED <<clock, cacheVars, checkVars>>

-----------------------------------------------------------------------------
(* createVerificationState settles.                                        *)
Settle(p) ==
    /\ run[p] = "checking"
    /\ \E r \in {"ok", "failed"} : run' = [run EXCEPT ![p] = r]
    /\ UNCHANGED <<clock, cacheVars, model, callerVars>>

BadCacheable(p) == TTL # 0
Cacheable(p) == run[p] = "ok" /\ TTL # 0

(* clearPendingVerification                                                *)
BadCleared(p) ==
    IF run[p] = "ok" /\ pending[model[p]] = p
    THEN [pending EXCEPT ![model[p]] = None] ELSE pending
Cleared(p) ==
    IF pending[model[p]] = p
    THEN [pending EXCEPT ![model[p]] = None] ELSE pending

(* The handler startVerification has put on its promise.                   *)
Handle(p) ==
    /\ Due(p)
    /\ run' = [run EXCEPT ![p] = IF run[p] = "ok" THEN "done" ELSE "error"]
    /\ pending' = Cleared(p)
    /\ sessions' = IF Cacheable(p)
                   THEN [sessions EXCEPT ![model[p]] = p] ELSE sessions
    /\ expires' = IF Cacheable(p)
                  THEN [expires EXCEPT ![p] = clock + TTL] ELSE expires
    /\ UNCHANGED <<clock, model, callerVars>>

CheckStep(p) == Settle(p) \/ Handle(p)

Tick ==
    /\ clock < MaxClock
    /\ \A p \in Checks : ~Due(p)
    /\ clock' = clock + 1
    /\ UNCHANGED <<cacheVars, checkVars, callerVars>>

Enter(c, m) == Hit(c, m) \/ Join(c, m) \/ \E p \in Checks : Launch(c, m, p)

Next ==
    \/ \E c \in Callers, m \in Models : Enter(c, m)
    \/ \E c \in Callers : Answer(c) \/ GiveUp(c)
    \/ \E p \in Checks : CheckStep(p)
    \/ Tick

Spec == Init /\ [][Next]_vars

-----------------------------------------------------------------------------
(* A promise is in pendingVerifications from its start until its handler   *)
(* has run: no second check of a model starts beside it, and a call joins  *)
(* one that runs, or one that has just settled and whose handler is due,   *)
(* but never one whose outcome was handed out before, be it a failure long *)
(* overcome (startVerification, clearPendingVerification).                 *)
PendingIsUnhandled ==
    \A m \in Models, p \in Checks :
        pending[m] = p <=> run[p] \in Live /\ model[p] = m

(* What holds in every state of the cache.                                 *)
Inv == TypeOK /\ PendingIsUnhandled

-----------------------------------------------------------------------------
(* The abstract sessions this cache implements.                            *)
PhaseOf(p) ==
    IF run[p] = "done" THEN "verified"
    ELSE IF run[p] \in Live THEN "running"
    ELSE "idle"

Promise == INSTANCE Sessions WITH
    open <- TRUE,
    phase <- [p \in Checks |-> PhaseOf(p)],
    subject <- model,
    cached <- sessions,
    lapsed <- {m \in Models : sessions[m] # None /\ ~Fresh(m)}

=============================================================================
