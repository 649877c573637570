----------------------------- MODULE GoSessions -----------------------------
(***************************************************************************)
(* The deployment cache of the Go client (go/client.go): getSession starts *)
(* one goroutine per model that runs createSession, callers wait on its    *)
(* done channel, and Close cancels everything and waits for the            *)
(* goroutines.  createSession also keeps one pinned transport (connection  *)
(* pool) per Gateway TLS key in a bounded map.                             *)
(*                                                                         *)
(* Each action is one critical section of c.mu, or one step outside it.    *)
(* Close cancels c.ctx inside its critical section, so c.ctx is done       *)
(* exactly when c.closed is set.                                           *)
(***************************************************************************)
EXTENDS Naturals, FiniteSets

CONSTANTS Models,     \* cache keys
          Callers,    \* goroutines calling Verify or RoundTrip
          Checks,     \* allocations of pendingSession and its session
          Keys,       \* TLS keys (SPKI fingerprints) the Gateway rotates over
          Pools,      \* allocations of pinned transports
          None,       \* an empty slot
          TTL,        \* AttestationTTL, in ticks; 0 disables the cache
          MaxClock,   \* bound on time
          PoolLimit   \* most pools kept in c.transports (16 in the code)

ASSUME GoSessionsAssumption ==
    /\ None \notin Models \cup Checks \cup Pools
    /\ TTL \in Nat
    /\ MaxClock \in Nat
    /\ PoolLimit \in Nat \ {0}
    /\ IsFiniteSet(Keys)

VARIABLES clock,
          close,       \* progress of the first call of Close; "open" before it
          ticker,      \* the expiry goroutine is running
          sessions,    \* c.sessions: model -> check, or None
          expires,     \* session.expires
          pending,     \* c.pending: model -> check, or None
          run,         \* run[p]: progress of p's goroutine
          model,       \* model[p]: the model p was started for
          pool,        \* pool[p]: session.transport when pinned, or None
          transports,  \* c.transports: TLS key -> pool, or None
          idle,        \* pools that keep an idle connection
          pc, fut      \* each caller's position and check (or session)

cacheVars == <<sessions, expires, pending>>
checkVars == <<run, model>>
poolVars == <<pool, transports, idle>>
callerVars == <<pc, fut>>
vars == <<clock, close, ticker, cacheVars, checkVars, poolVars, callerVars>>

closed == close # "open"

(* A goroutine counted in c.wg is before, inside or past its critical      *)
(* section on the pools, or about to enter the one that publishes.         *)
Live == {"checking", "pooled", "ok", "failed"}

Running == {p \in Checks : run[p] \in Live}

TypeOK ==
    /\ clock \in 0..MaxClock
    /\ close \in {"open", "closing", "waiting", "returned"}
    /\ ticker \in BOOLEAN
    /\ sessions \in [Models -> Checks \cup {None}]
    /\ expires \in [Checks -> 0..(MaxClock + TTL)]
    /\ pending \in [Models -> Checks \cup {None}]
    /\ run \in [Checks -> Live \cup {"free", "done", "error"}]
    /\ model \in [Checks -> Models \cup {None}]
    /\ pool \in [Checks -> Pools \cup {None}]
    /\ transports \in [Keys -> Pools \cup {None}]
    /\ idle \subseteq Pools
    /\ pc \in [Callers -> {"idle", "waiting", "granted"}]
    /\ fut \in [Callers -> Checks \cup {None}]

Init ==
    /\ clock = 0
    /\ close = "open"
    /\ ticker = TRUE
    /\ sessions = [m \in Models |-> None]
    /\ expires = [p \in Checks |-> 0]
    /\ pending = [m \in Models |-> None]
    /\ run = [p \in Checks |-> "free"]
    /\ model = [p \in Checks |-> None]
    /\ pool = [p \in Checks |-> None]
    /\ transports = [k \in Keys |-> None]
    /\ idle = {}
    /\ pc = [c \in Callers |-> "idle"]
    /\ fut = [c \in Callers |-> None]

-----------------------------------------------------------------------------
(* The operators named Bad... are slips a maintainer could make in the      *)
(* definition that follows each of them; no action uses them.              *)

Fresh(m) == sessions[m] # None /\ clock < expires[sessions[m]]

Pruned == [m \in Models |-> IF Fresh(m) THEN sessions[m] ELSE None]

(* Memory is reused once nothing refers to it.                             *)
FreeCheck(p) ==
    /\ run[p] \in {"free", "done", "error"}
    /\ \A m \in Models : sessions[m] # p
    /\ \A c \in Callers : fut[c] # p

FreePool(q) ==
    /\ q \notin idle
    /\ \A k \in Keys : transports[k] # q
    /\ \A p \in Checks : pool[p] # q \/ FreeCheck(p)

-----------------------------------------------------------------------------
(* getSession: refuse after Close, hit, join or launch; then wait.         *)
Admitted == ~closed

Hit(c, m) ==
    /\ pc[c] = "idle"
    /\ Admitted
    /\ Fresh(m)
    /\ pc' = [pc EXCEPT ![c] = "granted"]
    /\ fut' = [fut EXCEPT ![c] = sessions[m]]
    /\ UNCHANGED <<clock, close, ticker, cacheVars, checkVars, poolVars>>

Join(c, m) ==
    /\ pc[c] = "idle"
    /\ Admitted
    /\ ~Fresh(m)
    /\ pending[m] # None
    /\ pc' = [pc EXCEPT ![c] = "waiting"]
    /\ fut' = [fut EXCEPT ![c] = pending[m]]
    /\ UNCHANGED <<clock, close, ticker, cacheVars, checkVars, poolVars>>

Launch(c, m, p) ==
    /\ pc[c] = "idle"
    /\ Admitted
    /\ ~Fresh(m)
    /\ pending[m] = None
    /\ FreeCheck(p)
    /\ pending' = [pending EXCEPT ![m] = p]
    /\ run' = [run EXCEPT ![p] = "checking"]
    /\ model' = [model EXCEPT ![p] = m]
    /\ pool' = [pool EXCEPT ![p] = None]
    /\ expires' = [expires EXCEPT ![p] = 0]
    /\ pc' = [pc EXCEPT ![c] = "waiting"]
    /\ fut' = [fut EXCEPT ![c] = p]
    /\ UNCHANGED <<clock, close, ticker, sessions, transports, idle>>

Return(c) ==
    /\ pc' = [pc EXCEPT ![c] = "idle"]
    /\ fut' = [fut EXCEPT ![c] = None]

(* The select over p.done, the caller's own context and c.ctx.             *)
Receive(c) ==
    /\ pc[c] = "waiting"
    /\ run[fut[c]] = "done"
    /\ pc' = [pc EXCEPT ![c] = "granted"]
    /\ UNCHANGED <<clock, close, ticker, cacheVars, checkVars, poolVars, fut>>

Abandoned(c) == pending

GiveUp(c) ==
    /\ pc[c] = "waiting"
    /\ pending' = Abandoned(c)
    /\ Return(c)
    /\ UNCHANGED <<clock, close, ticker, sessions, expires, checkVars,
                   poolVars>>

BadFailed(c) == closed
Failed(c) == run[fut[c]] = "error" \/ closed

Fail(c) ==
    /\ pc[c] = "waiting"
    /\ Failed(c)
    /\ Return(c)
    /\ UNCHANGED <<clock, close, ticker, cacheVars, checkVars, poolVars>>

(* RoundTrip over the session's transport; the connection it used becomes  *)
(* idle.  Its context is cancelled when the client closes.                 *)
Request(c) ==
    /\ pc[c] = "granted"
    /\ idle' = IF closed THEN idle ELSE idle \cup ({pool[fut[c]]} \ {None})
    /\ Return(c)
    /\ UNCHANGED <<clock, close, ticker, cacheVars, checkVars, pool,
                   transports>>

-----------------------------------------------------------------------------
(* createSession in its goroutine.  Direct clients, clients without TLS    *)
(* binding and failing checks finish without a pool.                       *)
Kept == {k \in Keys : transports[k] # None}

Finish(p) ==
    /\ run[p] \in {"checking", "pooled"}
    /\ \E r \in {"ok", "failed"} : run' = [run EXCEPT ![p] = r]
    /\ UNCHANGED <<clock, close, ticker, cacheVars, model, poolVars,
                   callerVars>>

(* The critical section that finds or creates the pool of a TLS key.       *)
BadPoolsOpen == TRUE
PoolsOpen == ~closed

PoolRefused(p) ==
    /\ run[p] = "checking"
    /\ ~PoolsOpen
    /\ run' = [run EXCEPT ![p] = "failed"]
    /\ UNCHANGED <<clock, close, ticker, cacheVars, model, poolVars,
                   callerVars>>

UsePool(p, q, kept) ==
    /\ run[p] = "checking"
    /\ PoolsOpen
    /\ run' = [run EXCEPT ![p] = "pooled"]
    /\ pool' = [pool EXCEPT ![p] = q]
    /\ transports' = kept
    /\ UNCHANGED <<clock, close, ticker, cacheVars, model, callerVars>>

PoolFound(p, k) ==
    /\ transports[k] # None
    /\ UsePool(p, transports[k], transports)
    /\ UNCHANGED idle

BadFull == Cardinality(Kept) > PoolLimit
Full == Cardinality(Kept) >= PoolLimit

PoolCreated(p, k, q) ==
    /\ transports[k] = None
    /\ FreePool(q)
    /\ ~Full
    /\ UsePool(p, q, [transports EXCEPT ![k] = q])
    /\ UNCHANGED idle

(* Eviction closes the idle connections of any one kept pool.              *)
PoolEvicting(p, k, q, v) ==
    /\ transports[k] = None
    /\ FreePool(q)
    /\ Full
    /\ v \in Kept
    /\ UsePool(p, q, [transports EXCEPT ![v] = None, ![k] = q])
    /\ idle' = idle \ {transports[v]}

(* The model's metadata and reports are fetched through the pool; what the *)
(* Gateway keeps alive stays in it as an idle connection.                  *)
Fetch(p) ==
    /\ run[p] = "pooled"
    /\ ~closed
    /\ pool[p] \notin idle
    /\ idle' = idle \cup {pool[p]}
    /\ UNCHANGED <<clock, close, ticker, cacheVars, checkVars, pool, transports,
                   callerVars>>

(* The last critical section publishes the result, closes p.done and ends  *)
(* the goroutine.                                                          *)
BadCacheable(p) == run[p] = "ok" /\ TTL > 0
Cacheable(p) == run[p] = "ok" /\ ~closed /\ TTL > 0

Expiry == clock + TTL

Publish(p) ==
    LET m == model[p]
    IN /\ run[p] \in {"ok", "failed"}
       /\ run' = [run EXCEPT ![p] = IF run[p] = "ok" THEN "done" ELSE "error"]
       /\ pending' = [pending EXCEPT ![m] = None]
       /\ sessions' = IF Cacheable(p)
                      THEN [Pruned EXCEPT ![m] = p] ELSE sessions
       /\ expires' = IF Cacheable(p)
                     THEN [expires EXCEPT ![p] = Expiry] ELSE expires
       /\ UNCHANGED <<clock, close, ticker, model, poolVars, callerVars>>

CheckStep(p) ==
    \/ Finish(p)
    \/ PoolRefused(p)
    \/ \E k \in Keys : PoolFound(p, k)
    \/ \E k \in Keys, q \in Pools : PoolCreated(p, k, q)
    \/ \E k, v \in Keys, q \in Pools : PoolEvicting(p, k, q, v)
    \/ Fetch(p)
    \/ Publish(p)

-----------------------------------------------------------------------------
(* The expiry goroutine prunes every second until c.ctx is done.           *)
Prune ==
    /\ ticker
    /\ sessions' = Pruned
    /\ UNCHANGED <<clock, close, ticker, expires, pending, checkVars, poolVars,
                   callerVars>>

BadTickerStops == close = "returned"
TickerStops == closed

StopTicker ==
    /\ ticker
    /\ TickerStops
    /\ ticker' = FALSE
    /\ UNCHANGED <<clock, close, cacheVars, checkVars, poolVars, callerVars>>

(* Close: mark and cancel, close the idle connections of the kept pools    *)
(* without the lock, then wait for the goroutines.  Later calls return at  *)
(* once and change nothing.                                                *)
CloseMark ==
    /\ close = "open"
    /\ close' = "closing"
    /\ sessions' = [m \in Models |-> None]
    /\ UNCHANGED <<clock, ticker, expires, pending, checkVars, poolVars,
                   callerVars>>

CloseIdleConnections ==
    /\ close = "closing"
    /\ close' = "waiting"
    /\ idle' = idle \ {transports[k] : k \in Kept}
    /\ UNCHANGED <<clock, ticker, cacheVars, checkVars, pool, transports,
                   callerVars>>

AllDone == Running = {} /\ ~ticker

CloseReturn ==
    /\ close = "waiting"
    /\ AllDone
    /\ close' = "returned"
    /\ UNCHANGED <<clock, ticker, cacheVars, checkVars, poolVars, callerVars>>

Tick ==
    /\ clock < MaxClock
    /\ clock' = clock + 1
    /\ UNCHANGED <<close, ticker, cacheVars, checkVars, poolVars, callerVars>>

Enter(c, m) == Hit(c, m) \/ Join(c, m) \/ \E p \in Checks : Launch(c, m, p)

Answer(c) == Receive(c) \/ Fail(c)

CloseStep == CloseIdleConnections \/ CloseReturn

Next ==
    \/ \E c \in Callers, m \in Models : Enter(c, m)
    \/ \E c \in Callers : Answer(c) \/ GiveUp(c) \/ Request(c)
    \/ \E p \in Checks : CheckStep(p)
    \/ Prune
    \/ StopTicker
    \/ CloseMark
    \/ CloseStep
    \/ Tick

Spec == Init /\ [][Next]_vars

-----------------------------------------------------------------------------
(* Safety *)

(* Close reads c.transports after it has released the lock: nobody writes  *)
(* the map from then on.                                                   *)
PoolsFrozen == [][closed => transports' = transports]_vars

(* At most PoolLimit pools are kept, however often the Gateway's TLS key   *)
(* rotates and however many checks run at once.                            *)
PoolBound == Cardinality(Kept) <= PoolLimit

(* What holds in every state: the types, and the bound on the pool map,    *)
(* which only eviction keeps (createSession).                              *)
Inv == TypeOK /\ PoolBound

(* "Close ... closes owned idle connections" (go/docs/api-reference.md):   *)
(* once Close has returned, no pool the client made keeps a connection.    *)
NoIdleAfterClose == close = "returned" => idle = {}

-----------------------------------------------------------------------------
(* The abstract sessions this cache implements. *)

PhaseOf(p) ==
    IF run[p] = "done" THEN "verified"
    ELSE IF run[p] \in Live THEN "running"
    ELSE "idle"

Promise == INSTANCE Sessions WITH
    open <- ~closed,
    phase <- [p \in Checks |-> PhaseOf(p)],
    subject <- model,
    cached <- sessions,
    lapsed <- {m \in Models : sessions[m] # None /\ ~Fresh(m)}

(* Every step of the cache is one Sessions allows: one goroutine per model *)
(* checks at a time, only the session of a successful check of that very   *)
(* model is cached, and once Close has begun no goroutine starts, so       *)
(* c.wg.Add never races c.wg.Wait, and no session is cached.               *)
ImplementsSessions == Promise!Spec

=============================================================================
