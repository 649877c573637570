-------------------------- MODULE GoSessions_proofs --------------------------
(***************************************************************************)
(* Proofs about GoSessions for any models, callers, checks, TLS keys and   *)
(* pools, any TTL and any limit on the pools.                              *)
(*                                                                         *)
(* The invariant follows a goroutine from getSession to the critical       *)
(* section that publishes its result: while it lives it is the pending     *)
(* check of its model, and nothing fresh is cached for that model, so its  *)
(* result replaces only what has expired.                                  *)
(***************************************************************************)
EXTENDS GoSessions, FiniteSetTheorems, TLAPS

CallerOK == \A c \in Callers : pc[c] # "idle" => fut[c] \in Checks

LiveIsPending ==
    \A p \in Checks :
        run[p] \in Live => model[p] \in Models /\ pending[model[p]] = p

NothingFresh == \A p \in Checks : run[p] \in Live => ~Fresh(model[p])

CachedIsDone ==
    \A m \in Models : sessions[m] # None => run[sessions[m]] = "done"

PooledOK == \A p \in Checks : run[p] = "pooled" => pool[p] \in Pools

IInv ==
    /\ TypeOK
    /\ PoolBound
    /\ CallerOK
    /\ LiveIsPending
    /\ NothingFresh
    /\ CachedIsDone
    /\ PooledOK

LEMMA PrunedOK ==
    ASSUME TypeOK
    PROVE  /\ Pruned \in [Models -> Checks \cup {None}]
           /\ \A m \in Models : Pruned[m] \in {None, sessions[m]}
           /\ \A m \in Models : Pruned[m] # None <=> Fresh(m)
BY GoSessionsAssumption DEF Pruned, Fresh, TypeOK

(***************************************************************************)
(* The pools kept are finitely many, whatever the code keeps of them.      *)
(***************************************************************************)
LEMMA KeptFinite ==
    /\ IsFiniteSet(Kept)
    /\ Cardinality(Kept) \in Nat
<1>1. Kept \subseteq Keys
  BY DEF Kept
<1> QED  BY <1>1, FS_Subset, FS_CardinalityType, GoSessionsAssumption

LEMMA InitInv == Init => IInv
<1> SUFFICES ASSUME Init PROVE IInv
  OBVIOUS
<1>1. Kept = {}
  BY DEF Init, Kept
<1>2. PoolBound
  BY <1>1, FS_EmptySet, GoSessionsAssumption DEF PoolBound
<1> QED
  BY <1>2, GoSessionsAssumption
     DEF Init, IInv, TypeOK, Live, CallerOK, LiveIsPending, NothingFresh,
         CachedIsDone, PooledOK

LEMMA SamePools ==
    ASSUME PoolBound, transports' = transports
    PROVE  PoolBound'
BY DEF PoolBound, Kept

-----------------------------------------------------------------------------
(***************************************************************************)
(* getSession and the caller's side of it.                                 *)
(***************************************************************************)
LEMMA CallerInv ==
    ASSUME IInv, NEW c \in Callers,
           \/ \E m \in Models : Hit(c, m) \/ Join(c, m)
           \/ Answer(c) \/ GiveUp(c) \/ Request(c)
    PROVE  IInv'
<1> USE GoSessionsAssumption DEF IInv, Fresh, Live
<1>1. ASSUME NEW m \in Models, Hit(c, m) \/ Join(c, m)
      PROVE  IInv'
  <2> USE <1>1 DEF Hit, Join, cacheVars, checkVars, poolVars
  <2>1. TypeOK'
    BY DEF TypeOK
  <2>2. CallerOK'
    BY DEF CallerOK, TypeOK
  <2>3. PoolBound' /\ LiveIsPending' /\ NothingFresh' /\ CachedIsDone'
            /\ PooledOK'
    BY SamePools DEF LiveIsPending, NothingFresh, CachedIsDone, PooledOK
  <2> QED  BY <2>1, <2>2, <2>3
<1>2. CASE Answer(c) \/ GiveUp(c) \/ Request(c)
  <2> USE <1>2
      DEF Answer, Receive, Fail, GiveUp, Abandoned, Request, Return,
          cacheVars, checkVars, poolVars, callerVars
  <2>1. TypeOK'
    <3>1. pc[c] # "idle"
      OBVIOUS
    <3>2. pool[fut[c]] \in Pools \cup {None}
      BY <3>1 DEF CallerOK, TypeOK
    <3>3. idle' \subseteq Pools
      BY <3>2 DEF TypeOK
    <3> QED  BY <3>3 DEF TypeOK
  <2>2. CallerOK'
    BY DEF CallerOK, TypeOK
  <2>3. PoolBound' /\ LiveIsPending' /\ NothingFresh' /\ CachedIsDone'
            /\ PooledOK'
    BY SamePools DEF LiveIsPending, NothingFresh, CachedIsDone, PooledOK
  <2> QED  BY <2>1, <2>2, <2>3
<1> QED  BY <1>1, <1>2

LEMMA LaunchInv ==
    ASSUME IInv, NEW c \in Callers, NEW m \in Models, NEW p \in Checks,
           Launch(c, m, p)
    PROVE  IInv'
<1> USE GoSessionsAssumption DEF IInv, Launch, FreeCheck
<1>1. TypeOK'
  BY DEF TypeOK, Live
<1>2. CallerOK'
  BY DEF CallerOK, TypeOK
<1>3. LiveIsPending'
  BY DEF LiveIsPending, Live, TypeOK
<1>4. \A n \in Models : Fresh(n)' <=> Fresh(n)
  BY DEF Fresh, TypeOK
<1>5. NothingFresh'
  <2> SUFFICES ASSUME NEW q \in Checks, run'[q] \in Live
               PROVE  ~Fresh(model[q])'
    BY DEF NothingFresh
  <2>1. CASE q = p
    BY <2>1, <1>4 DEF TypeOK, Fresh
  <2>2. CASE q # p
    <3>1. run[q] \in Live /\ model'[q] = model[q] /\ model[q] \in Models
      BY <2>2 DEF TypeOK, LiveIsPending
    <3> QED  BY <3>1, <1>4 DEF NothingFresh, Fresh
  <2> QED  BY <2>1, <2>2
<1>6. CachedIsDone' /\ PooledOK'
  BY DEF CachedIsDone, PooledOK, TypeOK
<1> QED  BY <1>1, <1>2, <1>3, <1>5, <1>6, SamePools

-----------------------------------------------------------------------------
(***************************************************************************)
(* createSession in its goroutine: the pools.                              *)
(***************************************************************************)
LEMMA ProgressInv ==
    ASSUME IInv, NEW p \in Checks,
           Finish(p) \/ PoolRefused(p) \/ Fetch(p)
    PROVE  IInv'
<1> USE GoSessionsAssumption
    DEF IInv, Finish, PoolRefused, Fetch, cacheVars, checkVars, poolVars,
        callerVars
<1>1. TypeOK'
  BY DEF TypeOK, Live, PooledOK
<1>2. CallerOK' /\ PoolBound'
  BY SamePools DEF CallerOK
<1>3. LiveIsPending' /\ NothingFresh'
  BY DEF LiveIsPending, NothingFresh, Fresh, Live, TypeOK
<1>4. CachedIsDone' /\ PooledOK'
  BY DEF CachedIsDone, PooledOK, TypeOK
<1> QED  BY <1>1, <1>2, <1>3, <1>4

LEMMA UsePoolInv ==
    ASSUME IInv, NEW p \in Checks, NEW q \in Pools, NEW kept,
           kept \in [Keys -> Pools \cup {None}],
           UsePool(p, q, kept), PoolBound', idle' \subseteq idle
    PROVE  IInv'
<1> USE GoSessionsAssumption DEF IInv, UsePool, cacheVars, callerVars
<1>1. TypeOK'
  BY DEF TypeOK, Live
<1>2. CallerOK'
  BY DEF CallerOK
<1>3. LiveIsPending' /\ NothingFresh'
  BY DEF LiveIsPending, NothingFresh, Fresh, Live, TypeOK
<1>4. CachedIsDone' /\ PooledOK'
  BY DEF CachedIsDone, PooledOK, TypeOK
<1> QED  BY <1>1, <1>2, <1>3, <1>4

(***************************************************************************)
(* A pool is added below the limit, or in the place of the one evicted.    *)
(***************************************************************************)
LEMMA PoolInv ==
    ASSUME IInv, NEW p \in Checks, NEW k \in Keys,
           \/ PoolFound(p, k)
           \/ \E q \in Pools : PoolCreated(p, k, q)
           \/ \E v \in Keys, q \in Pools : PoolEvicting(p, k, q, v)
    PROVE  IInv'
<1> USE DEF IInv
<1>1. CASE PoolFound(p, k)
  <2>1. transports[k] \in Pools /\ transports' = transports
    BY <1>1 DEF PoolFound, UsePool, TypeOK
  <2> QED
    BY <1>1, <2>1, SamePools, UsePoolInv DEF PoolFound, TypeOK
<1>2. ASSUME NEW q \in Pools, PoolCreated(p, k, q)
      PROVE  IInv'
  <2> USE <1>2 DEF PoolCreated
  <2> DEFINE kept == [transports EXCEPT ![k] = q]
  <2>1. kept \in [Keys -> Pools \cup {None}] /\ transports' = kept
    BY DEF TypeOK, UsePool
  <2>2. Kept' = Kept \cup {k} /\ k \notin Kept
    BY <2>1, GoSessionsAssumption DEF Kept, TypeOK
  <2>3. Cardinality(Kept') = Cardinality(Kept) + 1
    BY <2>2, KeptFinite, FS_AddElement
  <2>4. PoolBound'
    BY <2>3, KeptFinite, GoSessionsAssumption DEF PoolBound, Full
  <2> QED  BY <2>1, <2>4, UsePoolInv
<1>3. ASSUME NEW v \in Keys, NEW q \in Pools, PoolEvicting(p, k, q, v)
      PROVE  IInv'
  <2> USE <1>3 DEF PoolEvicting
  <2> DEFINE kept == [transports EXCEPT ![v] = None, ![k] = q]
  <2>1. kept \in [Keys -> Pools \cup {None}] /\ transports' = kept
    BY DEF TypeOK, UsePool
  <2>2. v \in Kept /\ k \notin Kept
    BY DEF Kept
  <2>3. Kept' = (Kept \ {v}) \cup {k} /\ k \notin Kept \ {v}
    BY <2>1, <2>2, GoSessionsAssumption DEF Kept, TypeOK
  <2>4. /\ IsFiniteSet(Kept \ {v})
        /\ Cardinality(Kept \ {v}) = Cardinality(Kept) - 1
    BY <2>2, KeptFinite, FS_RemoveElement
  <2>5. Cardinality(Kept') = Cardinality(Kept \ {v}) + 1
    BY <2>3, <2>4, FS_AddElement
  <2>6. PoolBound'
    BY <2>4, <2>5, KeptFinite, GoSessionsAssumption DEF PoolBound
  <2> QED  BY <2>1, <2>6, UsePoolInv
<1> QED  BY <1>1, <1>2, <1>3

-----------------------------------------------------------------------------
(***************************************************************************)
(* The critical section that publishes, and the client's own goroutines.   *)
(***************************************************************************)
LEMMA PublishInv ==
    ASSUME IInv, NEW p \in Checks, Publish(p)
    PROVE  IInv'
<1> DEFINE m == model[p]
<1> USE GoSessionsAssumption DEF IInv, Publish, poolVars, callerVars
<1>1. m \in Models /\ pending[m] = p /\ ~Fresh(m) /\ run[p] \in Live
  BY DEF LiveIsPending, NothingFresh, Live
<1>2. TypeOK'
  BY <1>1, PrunedOK DEF TypeOK, Expiry, Live
<1>3. CallerOK' /\ PoolBound'
  BY SamePools DEF CallerOK
<1>4. \A q \in Checks : run'[q] \in Live => run[q] \in Live /\ model[q] # m
  BY <1>1 DEF LiveIsPending, Live, TypeOK
<1>5. LiveIsPending'
  BY <1>1, <1>4 DEF LiveIsPending, TypeOK
<1>6. \A n \in Models \ {m} : Fresh(n)' => Fresh(n)
  <2> SUFFICES ASSUME NEW n \in Models \ {m}, Fresh(n)'
               PROVE  Fresh(n)
    OBVIOUS
  <2>1. sessions'[n] = sessions[n] /\ sessions[n] # None
    BY <1>1, PrunedOK DEF Fresh, TypeOK
  <2>2. sessions[n] # p
    BY <2>1 DEF CachedIsDone
  <2> QED  BY <2>1, <2>2 DEF Fresh, TypeOK
<1>7. NothingFresh'
  <2> SUFFICES ASSUME NEW q \in Checks, run'[q] \in Live
               PROVE  ~Fresh(model[q])'
    BY DEF NothingFresh
  <2>1. model[q] \in Models \ {m} /\ ~Fresh(model[q]) /\ model'[q] = model[q]
    BY <1>4 DEF LiveIsPending, NothingFresh
  <2> QED  BY <2>1, <1>6 DEF Fresh
<1>8. CachedIsDone'
  BY <1>1, PrunedOK DEF CachedIsDone, Cacheable, TypeOK
<1>9. PooledOK'
  BY DEF PooledOK, TypeOK
<1> QED  BY <1>2, <1>3, <1>5, <1>7, <1>8, <1>9

LEMMA ClientInv ==
    ASSUME IInv,
           Prune \/ StopTicker \/ CloseMark \/ CloseStep \/ Tick
               \/ UNCHANGED vars
    PROVE  IInv'
<1> USE GoSessionsAssumption
    DEF IInv, Prune, StopTicker, CloseMark, CloseStep, CloseIdleConnections,
        CloseReturn, Tick, vars, cacheVars, checkVars, poolVars, callerVars
<1>1. TypeOK'
  <2>1. sessions' \in [Models -> Checks \cup {None}]
    BY PrunedOK DEF TypeOK
  <2>2. clock' \in 0..MaxClock /\ idle' \subseteq Pools
    BY DEF TypeOK
  <2>3. close' \in {"open", "closing", "waiting", "returned"}
    BY DEF TypeOK
  <2>4. ticker' \in BOOLEAN
    BY DEF TypeOK
  <2> QED  BY <2>1, <2>2, <2>3, <2>4 DEF TypeOK
<1>2. CallerOK' /\ PoolBound' /\ LiveIsPending' /\ PooledOK'
  BY SamePools DEF CallerOK, LiveIsPending, PooledOK
<1>3. \A m \in Models : sessions'[m] \in {None, sessions[m]}
  BY PrunedOK
<1>4. CachedIsDone'
  BY <1>3 DEF CachedIsDone
<1>5. NothingFresh'
  <2> SUFFICES ASSUME NEW p \in Checks, run[p] \in Live
               PROVE  ~Fresh(model[p])'
    BY DEF NothingFresh
  <2>1. model[p] \in Models /\ ~Fresh(model[p])
    BY DEF LiveIsPending, NothingFresh
  <2>2. CASE sessions[model[p]] = None
    BY <2>1, <2>2, <1>3 DEF Fresh
  <2>3. CASE sessions[model[p]] # None
    <3>1. /\ sessions[model[p]] \in Checks
          /\ expires[sessions[model[p]]] \in Nat
          /\ clock \in Nat /\ clock' \in {clock, clock + 1}
      BY <2>1, <2>3 DEF TypeOK
    <3>2. clock' >= expires[sessions[model[p]]]
      BY <2>1, <2>3, <3>1 DEF Fresh
    <3> QED  BY <2>1, <3>1, <3>2, <1>3 DEF Fresh
  <2> QED  BY <2>2, <2>3
<1> QED  BY <1>1, <1>2, <1>4, <1>5

LEMMA StepInv == IInv /\ [Next]_vars => IInv'
<1> SUFFICES ASSUME IInv, [Next]_vars PROVE IInv'
  OBVIOUS
<1>1. ASSUME NEW c \in Callers, NEW m \in Models, Enter(c, m)
      PROVE  IInv'
  BY <1>1, CallerInv, LaunchInv DEF Enter
<1>2. ASSUME NEW c \in Callers, Answer(c) \/ GiveUp(c) \/ Request(c)
      PROVE  IInv'
  BY <1>2, CallerInv
<1>3. ASSUME NEW p \in Checks, CheckStep(p)
      PROVE  IInv'
  <2>1. CASE Finish(p) \/ PoolRefused(p) \/ Fetch(p)
    BY <2>1, ProgressInv
  <2>2. CASE Publish(p)
    BY <2>2, PublishInv
  <2> QED  BY <1>3, <2>1, <2>2, PoolInv DEF CheckStep
<1> QED  BY <1>1, <1>2, <1>3, ClientInv DEF Next

LEMMA Invariance == Spec => []IInv
BY InitInv, StepInv, PTL DEF Spec

-----------------------------------------------------------------------------
(***************************************************************************)
(* Every variable keeps its type, and createSession never keeps more than  *)
(* PoolLimit pools.                                                        *)
(***************************************************************************)
THEOREM BoundedPools == Spec => []Inv
BY Invariance, PTL DEF IInv, Inv

(***************************************************************************)
(* From Close on nobody writes c.transports, so Close may read it without  *)
(* the lock.                                                               *)
(***************************************************************************)
THEOREM ClosedFreezesPools == Spec => PoolsFrozen
<1>1. [Next]_vars => [closed => transports' = transports]_vars
  <2> SUFFICES ASSUME Next, closed PROVE transports' = transports
    BY DEF vars, poolVars
  <2> USE DEF cacheVars, checkVars, poolVars, callerVars
  <2>1. ASSUME NEW c \in Callers, NEW m \in Models, Enter(c, m)
        PROVE  transports' = transports
    BY <2>1 DEF Enter, Hit, Join, Launch
  <2>2. ASSUME NEW c \in Callers, Answer(c) \/ GiveUp(c) \/ Request(c)
        PROVE  transports' = transports
    BY <2>2 DEF Answer, Receive, Fail, GiveUp, Request
  <2>3. ASSUME NEW p \in Checks, CheckStep(p)
        PROVE  transports' = transports
    BY <2>3
       DEF CheckStep, Finish, PoolRefused, PoolFound, PoolCreated,
           PoolEvicting, UsePool, PoolsOpen, Fetch, Publish
  <2>4. Prune \/ StopTicker \/ CloseMark \/ CloseStep \/ Tick
            => transports' = transports
    BY DEF Prune, StopTicker, CloseMark, CloseStep, CloseIdleConnections,
           CloseReturn, Tick
  <2> QED  BY <2>1, <2>2, <2>3, <2>4 DEF Next
<1> QED  BY <1>1, PTL DEF Spec, PoolsFrozen

-----------------------------------------------------------------------------
(***************************************************************************)
(* Refinement: the cache implements the abstract Sessions.  A goroutine    *)
(* that has its result but has not published it is still running.          *)
(***************************************************************************)
Phase == [p \in Checks |-> PhaseOf(p)]
Stale == {m \in Models : sessions[m] # None /\ ~Fresh(m)}
Open == ~closed

LEMMA InitRefines == Init => Promise!Init
BY GoSessionsAssumption DEF Init, Promise!Init, PhaseOf, Live, Fresh, closed

LEMMA PrunedDrops ==
    ASSUME TypeOK
    PROVE  Pruned = Promise!Without(Stale)
BY DEF Pruned, Promise!Without, Stale, TypeOK

LEMMA StutterRefines ==
    ASSUME UNCHANGED <<sessions, model>>, Stale' = Stale, Phase' = Phase,
           Open' = Open
    PROVE  UNCHANGED Promise!vars
BY DEF Promise!vars, Stale, Phase, Open

LEMMA SameStale ==
    ASSUME UNCHANGED <<sessions, expires, clock>>
    PROVE  Stale' = Stale
BY DEF Stale, Fresh

LEMMA SamePhase ==
    ASSUME UNCHANGED run
    PROVE  Phase' = Phase
BY DEF Phase, PhaseOf

LEMMA CallerRefines ==
    ASSUME NEW c \in Callers,
           \/ \E m \in Models : Hit(c, m) \/ Join(c, m)
           \/ Answer(c) \/ GiveUp(c) \/ Request(c)
    PROVE  UNCHANGED Promise!vars
<1>1. UNCHANGED <<clock, close, sessions, expires, run, model>>
  BY DEF Hit, Join, Answer, Receive, Fail, GiveUp, Request, cacheVars, checkVars
<1> QED  BY <1>1, SameStale, SamePhase, StutterRefines DEF Open, closed

LEMMA LaunchRefines ==
    ASSUME IInv, NEW c \in Callers, NEW m \in Models, NEW p \in Checks,
           Launch(c, m, p)
    PROVE  Promise!Launch(p, m)
<1> USE GoSessionsAssumption DEF IInv, Launch, FreeCheck
<1>1. Open /\ Open' = Open
  BY DEF Open, closed, Admitted
<1>2. Phase[p] # "running" /\ Phase' = [Phase EXCEPT ![p] = "running"]
  BY DEF Phase, PhaseOf, Live, TypeOK
<1>3. \A q \in Checks : Phase[q] = "running" => model[q] # m
  BY DEF Phase, PhaseOf, LiveIsPending
<1>4. sessions[m] = None \/ m \in Stale
  BY DEF Stale
<1>5. Promise!Without({}) = sessions /\ sessions' = sessions
  BY DEF Promise!Without, TypeOK
<1>6. Stale' = Stale \ {} /\ {} \in SUBSET Stale
  BY DEF Stale, Fresh, TypeOK
<1>7. \A n \in Models : Promise!Without({})[n] # p
  BY <1>5
<1>8. model' = [model EXCEPT ![p] = m]
  OBVIOUS
<1> QED
  BY <1>1, <1>2, <1>3, <1>4, <1>5, <1>6, <1>7, <1>8
     DEF Promise!Launch, Phase, Stale, Open

(***************************************************************************)
(* What a goroutine does before it publishes nobody else can see.          *)
(***************************************************************************)
LEMMA ProgressRefines ==
    ASSUME IInv, NEW p \in Checks,
           \/ Finish(p) \/ PoolRefused(p) \/ Fetch(p)
           \/ \E k \in Keys : PoolFound(p, k)
           \/ \E k \in Keys, q \in Pools : PoolCreated(p, k, q)
           \/ \E k, v \in Keys, q \in Pools : PoolEvicting(p, k, q, v)
    PROVE  UNCHANGED Promise!vars
<1> USE DEF Finish, PoolRefused, Fetch, PoolFound, PoolCreated, PoolEvicting,
            UsePool, cacheVars, checkVars
<1>1. UNCHANGED <<clock, close, sessions, expires, model>>
  OBVIOUS
<1>2. \/ run' = run
      \/ /\ run[p] \in Live
         /\ \E r \in Live : run' = [run EXCEPT ![p] = r]
  BY DEF Live
<1>3. Phase' = Phase
  BY <1>2 DEF Phase, PhaseOf, Live, IInv, TypeOK
<1> QED  BY <1>1, <1>3, SameStale, StutterRefines DEF Open, closed

LEMMA PublishRefines ==
    ASSUME IInv, NEW p \in Checks, Publish(p)
    PROVE  Promise!Cache(p) \/ Promise!Finish(p)
<1> DEFINE m == model[p]
<1> USE GoSessionsAssumption DEF IInv, Publish
<1>1. m \in Models /\ ~Fresh(m) /\ run[p] \in Live
  BY DEF LiveIsPending, NothingFresh, Live
<1>2. Open' = Open /\ model' = model
  BY DEF Open, closed
<1>3. /\ Phase[p] = "running"
      /\ Phase' = [Phase EXCEPT ![p] = IF run[p] = "ok" THEN "verified"
                                      ELSE "idle"]
  BY <1>1 DEF Phase, PhaseOf, Live, TypeOK
<1>4. CASE Cacheable(p)
  <2>1. Open /\ Phase' = [Phase EXCEPT ![p] = "verified"]
    BY <1>3, <1>4 DEF Cacheable, Open
  <2>2. Promise!Without(Stale)[m] = None
    BY <1>1, PrunedDrops, PrunedOK
  <2>3. sessions' = [Promise!Without(Stale) EXCEPT ![m] = p]
    BY <1>4, PrunedDrops
  <2>4. \A n \in Models : sessions'[n] # None => Fresh(n)'
    <3>1. ASSUME NEW n \in Models \ {m}, sessions'[n] # None
          PROVE  Fresh(n)'
      <4>1. sessions'[n] = sessions[n] /\ Fresh(n)
        BY <1>1, <1>4, <3>1, PrunedOK DEF TypeOK
      <4>2. sessions[n] # p
        BY <4>1 DEF Fresh, CachedIsDone
      <4> QED  BY <1>4, <4>1, <4>2 DEF Fresh, TypeOK
    <3>2. Fresh(m)'
      <4>1. sessions'[m] = p /\ expires'[p] = clock + TTL /\ TTL > 0
        BY <1>1, <1>4, PrunedOK DEF Cacheable, Expiry, TypeOK
      <4> QED  BY <1>1, <4>1 DEF Fresh, TypeOK
    <3> QED  BY <3>1, <3>2
  <2>5. Stale' = Stale \ Stale /\ Stale \in SUBSET Stale
    BY <2>4 DEF Stale
  <2>6. Promise!Cache(p)
    BY <1>2, <1>3, <2>1, <2>2, <2>3, <2>5 DEF Promise!Cache, Phase, Stale, Open
  <2> QED  BY <2>6
<1>5. CASE ~Cacheable(p)
  <2>1. UNCHANGED <<sessions, expires, clock>>
    BY <1>5
  <2>2. Phase' \in {[Phase EXCEPT ![p] = r] : r \in {"idle", "verified"}}
    BY <1>3
  <2> QED
    BY <1>2, <1>3, <2>1, <2>2, SameStale DEF Promise!Finish, Phase, Stale, Open
<1> QED  BY <1>4, <1>5

LEMMA ClientRefines ==
    ASSUME IInv,
           Prune \/ StopTicker \/ CloseMark \/ CloseStep \/ Tick
    PROVE  Promise!Next \/ UNCHANGED Promise!vars
<1> USE GoSessionsAssumption DEF IInv, cacheVars, checkVars
<1>1. CASE Prune
  <2> USE <1>1 DEF Prune
  <2>1. sessions' = Promise!Without(Stale)
    BY PrunedDrops
  <2>2. \A m \in Models : sessions'[m] # None => Fresh(m)'
    BY PrunedOK DEF Fresh
  <2>3. Stale' = Stale \ Stale /\ Stale \in SUBSET Stale
    BY <2>2 DEF Stale
  <2>4. Promise!Drop
    BY <2>1, <2>3, SamePhase DEF Promise!Drop, Phase, Stale, Open, closed
  <2> QED  BY <2>4 DEF Promise!Next
<1>2. CASE CloseMark
  <2> USE <1>2 DEF CloseMark
  <2>1. Stale' = {} /\ Open' = FALSE
    BY DEF Stale, Open, closed
  <2>2. Promise!Close
    BY <2>1, SamePhase DEF Promise!Close, Phase, Stale, Open
  <2> QED  BY <2>2 DEF Promise!Next
<1>3. CASE Tick
  <2> USE <1>3 DEF Tick
  <2>1. /\ Stale \subseteq Stale'
        /\ Stale' \subseteq {m \in Models : sessions[m] # None}
    BY DEF Stale, Fresh, TypeOK
  <2>2. Stale' = Stale \cup Stale'
    BY <2>1
  <2>3. Promise!Lapse
    BY <2>1, <2>2, SamePhase DEF Promise!Lapse, Phase, Stale, Open, closed
  <2> QED  BY <2>3 DEF Promise!Next
<1>4. CASE StopTicker \/ CloseStep
  <2>1. UNCHANGED <<clock, sessions, expires, run, model>> /\ closed' = closed
    BY <1>4 DEF StopTicker, CloseStep, CloseIdleConnections, CloseReturn, closed
  <2> QED  BY <2>1, SameStale, SamePhase, StutterRefines DEF Open
<1> QED  BY <1>1, <1>2, <1>3, <1>4

(***************************************************************************)
(* Every behaviour of the deployment cache is one Sessions allows: one     *)
(* goroutine per model checks at a time, only the session of a successful  *)
(* check of that very model is cached, and after Close nothing starts.     *)
(***************************************************************************)
THEOREM RefinesSessions == Spec => ImplementsSessions
<1>1. IInv /\ [Next]_vars => [Promise!Next]_(Promise!vars)
  <2> SUFFICES ASSUME IInv, [Next]_vars
               PROVE  Promise!Next \/ UNCHANGED Promise!vars
    OBVIOUS
  <2>1. ASSUME NEW c \in Callers, NEW m \in Models, Enter(c, m)
        PROVE  Promise!Next \/ UNCHANGED Promise!vars
    BY <2>1, CallerRefines, LaunchRefines DEF Enter, Promise!Next
  <2>2. ASSUME NEW c \in Callers, Answer(c) \/ GiveUp(c) \/ Request(c)
        PROVE  UNCHANGED Promise!vars
    BY <2>2, CallerRefines
  <2>3. ASSUME NEW p \in Checks, CheckStep(p)
        PROVE  Promise!Next \/ UNCHANGED Promise!vars
    <3>1. CASE Publish(p)
      BY <3>1, PublishRefines DEF Promise!Next
    <3> QED  BY <2>3, <3>1, ProgressRefines DEF CheckStep
  <2>4. CASE UNCHANGED vars
    <3>1. UNCHANGED <<clock, close, sessions, expires, run, model>>
      BY <2>4 DEF vars, cacheVars, checkVars
    <3> QED  BY <3>1, SameStale, SamePhase, StutterRefines DEF Open, closed
  <2> QED  BY <2>1, <2>2, <2>3, <2>4, ClientRefines DEF Next
<1> QED
  BY <1>1, InitRefines, Invariance, PTL
     DEF Spec, Promise!Spec, ImplementsSessions
=============================================================================
