---------------------------- MODULE RustSessions ----------------------------
(***************************************************************************)
(* The deployment cache of the Rust client (InferenceClient::session in    *)
(* rs/src/inference.rs).  Callers of one model share one attestation       *)
(* check, a futures::Shared future; State.pending holds it only weakly, so *)
(* the check lives exactly as long as a caller that holds it.  A finished  *)
(* check is inserted in State.sessions by the first holder that takes the  *)
(* state lock again.                                                       *)
(*                                                                         *)
(* A caller may be dropped at either await: on the shared future, or on    *)
(* the state lock it takes afterwards.                                     *)
(***************************************************************************)
EXTENDS Naturals

CONSTANTS Models,    \* cache keys
          Callers,   \* tasks calling session()
          Checks,    \* allocations of the shared check future
          None,      \* an empty slot
          TTL,       \* attestation_cache_ttl, in ticks; 0 disables the cache
          MaxClock   \* bound on time

ASSUME RustSessionsAssumption ==
    /\ None \notin Checks \cup Models
    /\ TTL \in Nat
    /\ MaxClock \in Nat

VARIABLES clock,
          sessions,    \* State.sessions: model -> finished check, or None
          inserted,    \* the Instant stored beside it
          pending,     \* State.pending: model -> weak reference, or None
          run,         \* run[p]: state of the shared future p
          model,       \* model[p]: the model p checks
          verifiedAt,  \* Session.verified_at, set when the check finishes
          pc, fut      \* each caller's position and strong reference

cacheVars == <<sessions, inserted, pending>>
checkVars == <<run, model, verifiedAt>>
callerVars == <<pc, fut>>
vars == <<clock, cacheVars, checkVars, callerVars>>

Runs == {"free", "running", "ok", "failed"}

TypeOK ==
    /\ clock \in 0..MaxClock
    /\ sessions \in [Models -> Checks \cup {None}]
    /\ inserted \in [Models -> 0..MaxClock]
    /\ pending \in [Models -> Checks \cup {None}]
    /\ run \in [Checks -> Runs]
    /\ model \in [Checks -> Models \cup {None}]
    /\ verifiedAt \in [Checks -> 0..MaxClock]
    /\ pc \in [Callers -> {"idle", "awaiting", "locking"}]
    /\ fut \in [Callers -> Checks \cup {None}]

Init ==
    /\ clock = 0
    /\ sessions = [m \in Models |-> None]
    /\ inserted = [m \in Models |-> 0]
    /\ pending = [m \in Models |-> None]
    /\ run = [p \in Checks |-> "free"]
    /\ model = [p \in Checks |-> None]
    /\ verifiedAt = [p \in Checks |-> 0]
    /\ pc = [c \in Callers |-> "idle"]
    /\ fut = [c \in Callers |-> None]

-----------------------------------------------------------------------------
(* The operators named Bad... are slips a maintainer could make in the      *)
(* definition that follows each of them; no action uses them.              *)

(* A weak reference upgrades while a caller holds the future: each keeps    *)
(* its own handle until it returns, long after the future has completed.   *)
Held(p) == \E c \in Callers : fut[c] = p

(* State.sessions after retain(time.elapsed() < attestation_cache_ttl).    *)
Fresh(m) == sessions[m] # None /\ clock < inserted[m] + TTL

BadPruned == sessions
Pruned == [m \in Models |-> IF Fresh(m) THEN sessions[m] ELSE None]

(* State.pending after retain(upgrade().is_some()).                        *)
Live == [m \in Models |->
            IF pending[m] # None /\ Held(pending[m]) THEN pending[m] ELSE None]

(* An allocation is reused once nothing refers to it.                      *)
Free(p) == /\ ~Held(p)
           /\ \A m \in Models : Pruned[m] # p /\ Live[m] # p

NewCheck == CHOOSE p \in Checks : Free(p)

(* First critical section of session(model).                               *)
Hit(c, m) ==
    /\ pc[c] = "idle"
    /\ Fresh(m)
    /\ sessions' = Pruned
    /\ UNCHANGED <<clock, inserted, pending, checkVars, callerVars>>

BadJoinable(m) == FALSE
Joinable(m) == Live[m] # None

Join(c, m) ==
    /\ pc[c] = "idle"
    /\ ~Fresh(m)
    /\ Joinable(m)
    /\ sessions' = Pruned
    /\ pending' = Live
    /\ pc' = [pc EXCEPT ![c] = "awaiting"]
    /\ fut' = [fut EXCEPT ![c] = Live[m]]
    /\ UNCHANGED <<clock, inserted, checkVars>>

Launch(c, m, p) ==
    /\ pc[c] = "idle"
    /\ ~Fresh(m)
    /\ ~Joinable(m)
    /\ Free(p)
    /\ p = NewCheck
    /\ sessions' = Pruned
    /\ pending' = [Live EXCEPT ![m] = p]
    /\ run' = [run EXCEPT ![p] = "running"]
    /\ model' = [model EXCEPT ![p] = m]
    /\ verifiedAt' = [verifiedAt EXCEPT ![p] = 0]
    /\ pc' = [pc EXCEPT ![c] = "awaiting"]
    /\ fut' = [fut EXCEPT ![c] = p]
    /\ UNCHANGED <<clock, inserted>>

(* Any caller awaiting the check may poll it to completion; create_session *)
(* stamps verified_at last.                                                *)
Drive(c) ==
    /\ pc[c] = "awaiting"
    /\ run[fut[c]] = "running"
    /\ \E r \in {"ok", "failed"} : run' = [run EXCEPT ![fut[c]] = r]
    /\ verifiedAt' = [verifiedAt EXCEPT ![fut[c]] = clock]
    /\ pc' = [pc EXCEPT ![c] = "locking"]
    /\ UNCHANGED <<clock, cacheVars, model, fut>>

BadWoken(c) == FALSE
Woken(c) == run[fut[c]] # "running"

Observe(c) ==
    /\ pc[c] = "awaiting"
    /\ Woken(c)
    /\ pc' = [pc EXCEPT ![c] = "locking"]
    /\ UNCHANGED <<clock, cacheVars, checkVars, fut>>

Return(c) ==
    /\ pc' = [pc EXCEPT ![c] = "idle"]
    /\ fut' = [fut EXCEPT ![c] = None]

(* Second critical section: only the holder that still finds its own       *)
(* future pending (ptr_eq) removes it and caches a success.                *)
Current(c) == pending[model[fut[c]]] = fut[c]

BadCacheable(p) == TTL # 0
Cacheable(p) == run[p] = "ok" /\ TTL # 0

InsertTime == clock

Settle(c) ==
    LET p == fut[c]
        m == model[p]
        insert == Current(c) /\ Cacheable(p)
    IN /\ pc[c] = "locking"
       /\ pending' = [pending EXCEPT ![m] = IF Current(c) THEN None ELSE @]
       /\ sessions' = [sessions EXCEPT ![m] = IF insert THEN p ELSE @]
       /\ inserted' = [inserted EXCEPT ![m] = IF insert THEN InsertTime ELSE @]
       /\ Return(c)
       /\ UNCHANGED <<clock, checkVars>>

(* The caller is dropped at one of its awaits.  The last holder to go ends *)
(* a running check; the weak reference in State.pending stays behind.      *)
Cancel(c) ==
    /\ pc[c] \in {"awaiting", "locking"}
    /\ Return(c)
    /\ UNCHANGED <<clock, cacheVars, checkVars>>

Tick ==
    /\ clock < MaxClock
    /\ clock' = clock + 1
    /\ UNCHANGED <<cacheVars, checkVars, callerVars>>

Enter(c, m) == Hit(c, m) \/ Join(c, m) \/ \E p \in Checks : Launch(c, m, p)

Advance(c) == Drive(c) \/ Observe(c) \/ Settle(c)

Next ==
    \/ \E c \in Callers, m \in Models : Enter(c, m)
    \/ \E c \in Callers : Advance(c) \/ Cancel(c)
    \/ Tick

Spec == Init /\ [][Next]_vars

(* A caller that is not dropped keeps being polled, and every request of   *)
(* an attestation check is answered or fails.                              *)
Fairness == \A c \in Callers : WF_vars(Advance(c))

FairSpec == Spec /\ Fairness

-----------------------------------------------------------------------------
(* Safety *)

(* Callers that need the same model share one attestation check: two       *)
(* checks of one model are never running at once, although callers come,   *)
(* go and are dropped at any await.                                        *)
SingleFlight ==
    \A p, q \in Checks :
        /\ Held(p) /\ run[p] = "running"
        /\ Held(q) /\ run[q] = "running"
        /\ model[p] = model[q]
        => p = q

(* Only a successful check of that very model is cached: a failure is      *)
(* never served from the cache, nor a session of another model.            *)
OnlyVerified ==
    \A m \in Models :
        sessions[m] # None => run[sessions[m]] = "ok" /\ model[sessions[m]] = m

(* A model with a cached session has no check pending, so no caller can    *)
(* join an old check while a newer result is served from the cache.        *)
CachedMeansSettled ==
    \A m \in Models : sessions[m] # None => pending[m] = None

(* A caller that settles late neither replaces the cached session of its   *)
(* model nor restarts its TTL.                                             *)
KeepsFresh ==
    [][\A m \in Models :
          Fresh(m) => sessions'[m] = sessions[m] /\ inserted'[m] = inserted[m]]_vars

(* "attestation_cache_ttl = Duration::ZERO disables reuse of completed     *)
(* deployment checks" (rs/docs/verification-guide.md): with a zero TTL no  *)
(* caller is handed a check that was complete before the tick it came in.  *)
ZeroTtlNeverReuses ==
    [][TTL = 0 =>
          \A c \in Callers : (fut[c] = None /\ fut'[c] # None)
               => \/ run'[fut'[c]] = "running"
                  \/ verifiedAt'[fut'[c]] = clock]_vars

-----------------------------------------------------------------------------
(* The abstract sessions this cache implements. *)

PhaseOf(p) ==
    IF run[p] = "ok" THEN "verified"
    ELSE IF run[p] = "running" /\ Held(p) THEN "running"
    ELSE "idle"

Promise == INSTANCE Sessions WITH
    open <- TRUE,
    phase <- [p \in Checks |-> PhaseOf(p)],
    subject <- model,
    cached <- sessions,
    lapsed <- {m \in Models : sessions[m] # None /\ ~Fresh(m)}

(* Every step of the cache is one Sessions allows: one check of a model at *)
(* a time, only the session of a successful check of that very model is    *)
(* cached, and a caller that settles late neither replaces a cached        *)
(* session nor restarts its TTL.                                           *)
ImplementsSessions == Promise!Spec

-----------------------------------------------------------------------------
(* Liveness *)

(* Every caller waiting for a check returns, also when the caller that     *)
(* launched it is dropped midway.                                          *)
WaitersReturn == \A c \in Callers : pc[c] # "idle" ~> pc[c] = "idle"

=============================================================================
