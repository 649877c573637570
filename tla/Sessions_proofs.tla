--------------------------- MODULE Sessions_proofs ---------------------------
(***************************************************************************)
(* Proofs about sessions: how the tasks of the Rust client share them      *)
(* (RustSessions), for any models, tasks and checks, any TTL and any clock *)
(* bound, and how the preflights of all four SDKs come to create one       *)
(* (Preflights), for any evidence and options.                             *)
(***************************************************************************)
EXTENDS RustSessions, Preflights, SequenceTheorems, WellFoundedInduction, TLAPS

-----------------------------------------------------------------------------
(***************************************************************************)
(* The cache of the Rust client (RustSessions).                            *)
(*                                                                         *)
(* Single flight rests on RunningIsPending: a check that is running and    *)
(* still held is the one in State.pending for its model, so whoever comes  *)
(* next can upgrade the weak reference.                                    *)
(***************************************************************************)
CallerOK ==
    \A c \in Callers :
        /\ pc[c] = "idle" <=> fut[c] = None
        /\ pc[c] # "idle" => run[fut[c]] # "free" /\ model[fut[c]] \in Models
        /\ pc[c] = "locking" => run[fut[c]] # "running"

PendingOK ==
    \A m \in Models : pending[m] # None => model[pending[m]] = m

RunningIsPending ==
    \A c \in Callers :
        fut[c] # None /\ run[fut[c]] = "running"
            => pending[model[fut[c]]] = fut[c]

IInv ==
    /\ TypeOK
    /\ CallerOK
    /\ PendingOK
    /\ RunningIsPending
    /\ OnlyVerified
    /\ CachedMeansSettled

LEMMA PrunedOK ==
    ASSUME TypeOK
    PROVE  /\ Pruned \in [Models -> Checks \cup {None}]
           /\ \A m \in Models : Pruned[m] \in {None, sessions[m]}
           /\ \A m \in Models : Pruned[m] # None <=> Fresh(m)
BY RustSessionsAssumption DEF Pruned, Fresh, TypeOK

LEMMA LiveOK ==
    ASSUME TypeOK
    PROVE  /\ Live \in [Models -> Checks \cup {None}]
           /\ \A m \in Models : Live[m] \in {None, pending[m]}
           /\ \A m \in Models, c \in Callers :
                  pending[m] # None /\ fut[c] = pending[m]
                      => Live[m] = pending[m]
BY DEF Live, Held, TypeOK

LEMMA InitInv == Init => IInv
BY RustSessionsAssumption
   DEF Init, IInv, TypeOK, Runs, CallerOK, PendingOK, RunningIsPending,
       OnlyVerified, CachedMeansSettled

-----------------------------------------------------------------------------
(***************************************************************************)
(* The first critical section of session().                                *)
(***************************************************************************)
LEMMA HitInv ==
    ASSUME IInv, NEW c \in Callers, NEW m \in Models, Hit(c, m)
    PROVE  IInv'
BY PrunedOK
   DEF Hit, checkVars, callerVars, IInv, TypeOK, CallerOK, PendingOK,
       RunningIsPending, OnlyVerified, CachedMeansSettled

LEMMA JoinInv ==
    ASSUME IInv, NEW c \in Callers, NEW m \in Models, Join(c, m)
    PROVE  IInv'
<1> USE PrunedOK, LiveOK, RustSessionsAssumption DEF Join, checkVars, IInv
<1>1. TypeOK'
  BY DEF TypeOK
<1>2. Live[m] \in Checks /\ Live[m] = pending[m] /\ Held(Live[m])
  BY DEF Joinable, Live, TypeOK
<1>3. CallerOK'
  BY <1>2 DEF CallerOK, PendingOK, Held, TypeOK
<1>4. PendingOK' /\ RunningIsPending'
  BY <1>2 DEF PendingOK, RunningIsPending, CallerOK, TypeOK
<1>5. OnlyVerified' /\ CachedMeansSettled'
  BY DEF OnlyVerified, CachedMeansSettled
<1> QED  BY <1>1, <1>3, <1>4, <1>5

LEMMA LaunchInv ==
    ASSUME IInv, NEW c \in Callers, NEW m \in Models, NEW p \in Checks,
           Launch(c, m, p)
    PROVE  IInv'
<1> USE PrunedOK, LiveOK, RustSessionsAssumption DEF Launch, IInv
<1>1. TypeOK'
  BY DEF TypeOK, Runs
<1>2. \A d \in Callers : fut[d] # p
  BY DEF Free, Held
<1>3. \A n \in Models : Pruned[n] # p /\ Live[n] # p
  BY DEF Free
<1>4. CallerOK'
  BY <1>2 DEF CallerOK, TypeOK
<1>5. PendingOK'
  BY <1>3 DEF PendingOK, TypeOK
<1>6. RunningIsPending'
  <2> SUFFICES ASSUME NEW d \in Callers, fut'[d] # None,
                      run'[fut'[d]] = "running"
               PROVE  pending'[model'[fut'[d]]] = fut'[d]
    BY DEF RunningIsPending
  <2>1. CASE d = c
    BY <2>1 DEF TypeOK
  <2>2. CASE d # c
    <3>1. fut'[d] = fut[d] /\ fut[d] \in Checks \ {p}
      BY <1>2, <2>2 DEF TypeOK
    <3>2. model[fut[d]] \in Models /\ pending[model[fut[d]]] = fut[d]
      BY <2>2, <3>1 DEF RunningIsPending, CallerOK, TypeOK
    <3>3. model[fut[d]] # m
      BY <3>1, <3>2 DEF Joinable
    <3> QED  BY <3>1, <3>2, <3>3 DEF TypeOK
  <2> QED  BY <2>1, <2>2
<1>7. OnlyVerified'
  BY <1>3 DEF OnlyVerified, TypeOK
<1>8. CachedMeansSettled'
  BY DEF CachedMeansSettled, TypeOK
<1> QED  BY <1>1, <1>4, <1>5, <1>6, <1>7, <1>8

-----------------------------------------------------------------------------
(***************************************************************************)
(* The rest of session(): the shared future and the second section.        *)
(***************************************************************************)
LEMMA AdvanceInv ==
    ASSUME IInv, NEW c \in Callers, Advance(c) \/ Cancel(c)
    PROVE  IInv'
<1> USE RustSessionsAssumption DEF IInv
<1>1. CASE Drive(c)
  <2> USE <1>1 DEF Drive, cacheVars
  <2>1. fut[c] \in Checks
    BY DEF CallerOK, TypeOK
  <2>2. TypeOK'
    BY <2>1 DEF TypeOK, Runs
  <2>3. CallerOK'
    BY <2>1 DEF CallerOK, TypeOK
  <2>4. PendingOK' /\ RunningIsPending' /\ CachedMeansSettled'
    BY <2>1 DEF PendingOK, RunningIsPending, CachedMeansSettled, TypeOK
  <2>5. OnlyVerified'
    BY <2>1 DEF OnlyVerified, TypeOK
  <2> QED  BY <2>2, <2>3, <2>4, <2>5
<1>2. CASE Observe(c)
  BY <1>2
     DEF Observe, Woken, cacheVars, checkVars, TypeOK, CallerOK, PendingOK,
         RunningIsPending, OnlyVerified, CachedMeansSettled
<1>3. CASE Settle(c)
  <2> USE <1>3 DEF Settle, Return, checkVars
  <2>1. fut[c] \in Checks /\ model[fut[c]] \in Models
    BY DEF CallerOK, TypeOK
  <2>2. TypeOK'
    BY <2>1 DEF TypeOK, InsertTime
  <2>3. CallerOK' /\ PendingOK'
    BY <2>1 DEF CallerOK, PendingOK, TypeOK
  <2>4. RunningIsPending'
    BY <2>1 DEF RunningIsPending, Current, CallerOK, TypeOK
  <2>5. OnlyVerified'
    BY <2>1 DEF OnlyVerified, Cacheable, TypeOK
  <2>6. CachedMeansSettled'
    BY <2>1 DEF CachedMeansSettled, Current, TypeOK
  <2> QED  BY <2>2, <2>3, <2>4, <2>5, <2>6
<1>4. CASE Cancel(c)
  BY <1>4
     DEF Cancel, Return, cacheVars, checkVars, TypeOK, CallerOK, PendingOK,
         RunningIsPending, OnlyVerified, CachedMeansSettled
<1> QED  BY <1>1, <1>2, <1>3, <1>4 DEF Advance

LEMMA IdleInv == IInv /\ (Tick \/ UNCHANGED vars) => IInv'
BY RustSessionsAssumption
   DEF IInv, Tick, vars, cacheVars, checkVars, callerVars, TypeOK, CallerOK,
       PendingOK, RunningIsPending, OnlyVerified, CachedMeansSettled

LEMMA Invariance == Spec => []IInv
<1>1. IInv /\ [Next]_vars => IInv'
  BY HitInv, JoinInv, LaunchInv, AdvanceInv, IdleInv DEF Next, Enter
<1> QED  BY <1>1, InitInv, PTL DEF Spec

-----------------------------------------------------------------------------
(***************************************************************************)
(* Every variable of the deployment cache keeps its type.                  *)
(***************************************************************************)
THEOREM TypeCorrect == Spec => []TypeOK
BY Invariance, PTL DEF IInv

(***************************************************************************)
(* session() never runs two attestation checks of one model at once.       *)
(***************************************************************************)
THEOREM OneCheckPerModel == Spec => []SingleFlight
<1>1. IInv => SingleFlight
  BY RustSessionsAssumption
     DEF IInv, TypeOK, RunningIsPending, SingleFlight, Held
<1> QED  BY <1>1, Invariance, PTL

(***************************************************************************)
(* The cache serves only successful checks of the model asked for.         *)
(***************************************************************************)
THEOREM CacheIsVerified == Spec => [](OnlyVerified /\ CachedMeansSettled)
BY Invariance, PTL DEF IInv

(***************************************************************************)
(* No step replaces or restamps an unexpired cached session: the only      *)
(* insertion happens for a check that is still pending, and then nothing   *)
(* is cached for its model.                                                *)
(***************************************************************************)
LEMMA StepKeeps ==
    ASSUME IInv, [Next]_vars, NEW m \in Models, Fresh(m)
    PROVE  sessions'[m] = sessions[m] /\ inserted'[m] = inserted[m]
<1> USE DEF IInv
<1>1. Pruned[m] = sessions[m]
  BY DEF Pruned
<1>2. ASSUME NEW c \in Callers, NEW n \in Models, Enter(c, n)
      PROVE  sessions'[m] = sessions[m] /\ inserted'[m] = inserted[m]
  BY <1>1, <1>2 DEF Enter, Hit, Join, Launch
<1>3. ASSUME NEW c \in Callers, Settle(c)
      PROVE  sessions'[m] = sessions[m] /\ inserted'[m] = inserted[m]
  <2>1. fut[c] \in Checks /\ model[fut[c]] \in Models
    BY <1>3 DEF Settle, CallerOK, TypeOK
  <2>2. sessions[m] # None => pending[m] = None
    BY DEF CachedMeansSettled
  <2>3. fut[c] # None
    BY <2>1, RustSessionsAssumption
  <2>4. ~(Current(c) /\ m = model[fut[c]])
    BY <2>2, <2>3 DEF Current, Fresh
  <2> QED  BY <1>3, <2>1, <2>4 DEF Settle, TypeOK
<1>4. ASSUME NEW c \in Callers, Drive(c) \/ Observe(c) \/ Cancel(c)
      PROVE  sessions' = sessions /\ inserted' = inserted
  BY <1>4 DEF Drive, Observe, Cancel, cacheVars
<1>5. Tick \/ UNCHANGED vars => sessions' = sessions /\ inserted' = inserted
  BY DEF Tick, vars, cacheVars
<1> QED  BY <1>2, <1>3, <1>4, <1>5 DEF Next, Advance

THEOREM NeverReplaced == Spec => KeepsFresh
<1>1. IInv /\ [Next]_vars =>
        [\A m \in Models :
            Fresh(m) => sessions'[m] = sessions[m]
                            /\ inserted'[m] = inserted[m]]_vars
  BY StepKeeps
<1> QED  BY <1>1, Invariance, PTL DEF Spec, KeepsFresh

-----------------------------------------------------------------------------
(***************************************************************************)
(* Refinement: the cache implements the abstract Sessions.  A caller that  *)
(* comes or goes changes the phase of no check but the one it holds.       *)
(***************************************************************************)
Phase == [p \in Checks |-> PhaseOf(p)]
Stale == {m \in Models : sessions[m] # None /\ ~Fresh(m)}

LEMMA InitRefines == Init => Promise!Init
BY RustSessionsAssumption DEF Init, Promise!Init, PhaseOf, Fresh

(***************************************************************************)
(* Pruning drops every lapsed session.                                     *)
(***************************************************************************)
LEMMA PrunedDrops ==
    ASSUME TypeOK
    PROVE  Pruned = Promise!Without(Stale)
BY DEF Pruned, Promise!Without, Stale, TypeOK

LEMMA NoneStale ==
    ASSUME TypeOK, sessions' = Pruned, UNCHANGED <<clock, inserted>>
    PROVE  Stale' = {}
BY DEF Stale, Fresh, Pruned, TypeOK

LEMMA DropRefines ==
    ASSUME TypeOK, sessions' = Pruned, UNCHANGED <<clock, inserted, model>>,
           Phase' = Phase
    PROVE  Promise!Drop
<1>1. sessions' = Promise!Without(Stale) /\ Stale' = Stale \ Stale
  BY PrunedDrops, NoneStale
<1>2. Stale \in SUBSET Stale
  OBVIOUS
<1> QED  BY <1>1, <1>2 DEF Promise!Drop, Phase, Stale

LEMMA StutterRefines ==
    ASSUME UNCHANGED <<sessions, model>>, Stale' = Stale, Phase' = Phase
    PROVE  UNCHANGED Promise!vars
BY DEF Promise!vars, Stale, Phase

LEMMA EnterRefines ==
    ASSUME IInv, NEW c \in Callers, NEW m \in Models, Enter(c, m)
    PROVE  Promise!Next
<1> USE DEF IInv
<1>1. CASE Hit(c, m)
  <2>1. Phase' = Phase
    BY <1>1 DEF Hit, Phase, PhaseOf, Held, checkVars, callerVars
  <2> QED  BY <1>1, <2>1, DropRefines DEF Hit, checkVars, Promise!Next
<1>2. CASE Join(c, m)
  <2> USE <1>2 DEF Join, checkVars
  <2>1. fut[c] = None /\ Held(Live[m]) /\ Live[m] \in Checks
    BY LiveOK DEF CallerOK, Joinable, Live
  <2>2. \A p \in Checks : Held(p)' = Held(p)
    BY <2>1, RustSessionsAssumption DEF Held, TypeOK
  <2>3. Phase' = Phase
    BY <2>2 DEF Phase, PhaseOf
  <2> QED  BY <2>3, DropRefines DEF Promise!Next
<1>3. ASSUME NEW p \in Checks, Launch(c, m, p) PROVE Promise!Launch(p, m)
  <2> USE <1>3 DEF Launch
  <2>1. fut[c] = None /\ ~Held(p)
    BY DEF CallerOK, Free
  <2>2. \A q \in Checks \ {p} : Held(q)' = Held(q)
    BY <2>1, RustSessionsAssumption DEF Held, TypeOK
  <2>3. Held(p)'
    BY DEF Held, TypeOK
  <2>4. Phase' = [Phase EXCEPT ![p] = "running"]
    <3>1. Phase'[p] = "running"
      BY <2>3 DEF Phase, PhaseOf, TypeOK
    <3>2. \A q \in Checks \ {p} : Phase'[q] = Phase[q]
      BY <2>2 DEF Phase, PhaseOf, TypeOK
    <3> QED  BY <3>1, <3>2 DEF Phase
  <2>5. Phase[p] # "running"
    BY <2>1 DEF Phase, PhaseOf
  <2>6. ASSUME NEW q \in Checks, Phase[q] = "running" PROVE model[q] # m
    <3>1. PICK d \in Callers : fut[d] = q
      BY <2>6 DEF Phase, PhaseOf, Held
    <3>2. pending[model[q]] = q
      BY <2>6, <3>1, RustSessionsAssumption
         DEF Phase, PhaseOf, RunningIsPending
    <3>3. model[q] = m => Live[m] = q
      BY <3>1, <3>2, LiveOK, RustSessionsAssumption
    <3> QED  BY <3>3, RustSessionsAssumption DEF Joinable
  <2>7. sessions[m] = None \/ m \in Stale
    BY DEF Stale
  <2>8. \A n \in Models : Promise!Without(Stale)[n] # p
    BY PrunedDrops DEF Free
  <2>9. sessions' = Promise!Without(Stale) /\ Stale' = Stale \ Stale
    BY PrunedDrops, NoneStale
  <2>10. Stale \in SUBSET Stale /\ model' = [model EXCEPT ![p] = m]
    OBVIOUS
  <2> QED
    BY <2>4, <2>5, <2>6, <2>7, <2>8, <2>9, <2>10
       DEF Promise!Launch, Phase, Stale
<1> QED  BY <1>1, <1>2, <1>3 DEF Enter, Promise!Next

LEMMA DriveRefines ==
    ASSUME IInv, NEW c \in Callers, Drive(c), NEW p \in Checks, p = fut[c]
    PROVE  Promise!Finish(p)
<1> USE DEF IInv, Drive, cacheVars
<1>1. Held(p) /\ \A q \in Checks : Held(q)' = Held(q)
  BY DEF Held
<1>2. PICK r \in {"ok", "failed"} : run' = [run EXCEPT ![p] = r]
  OBVIOUS
<1>3. Phase[p] = "running" /\ Phase'[p] \in {"idle", "verified"}
  BY <1>1, <1>2 DEF Phase, PhaseOf, TypeOK
<1>4. \A q \in Checks \ {p} : Phase'[q] = Phase[q]
  BY <1>1, <1>2 DEF Phase, PhaseOf, TypeOK
<1>5. Phase' = [Phase EXCEPT ![p] = Phase'[p]]
  BY <1>4 DEF Phase
<1>6. Phase' \in {[Phase EXCEPT ![p] = x] : x \in {"idle", "verified"}}
  BY <1>3, <1>5
<1>7. Stale' = Stale
  BY DEF Stale, Fresh
<1> QED  BY <1>3, <1>6, <1>7 DEF Promise!Finish, Phase, Stale

(***************************************************************************)
(* A caller that returns lets go of its check; only a running check that   *)
(* nobody else holds is lost with it.                                      *)
(***************************************************************************)
LEMMA ReturnKeeps ==
    ASSUME IInv, NEW c \in Callers, Return(c), UNCHANGED checkVars,
           NEW p \in Checks, p = fut[c]
    PROVE  /\ \A q \in Checks \ {p} : Phase'[q] = Phase[q]
           /\ run[p] # "running" => Phase' = Phase
<1> USE DEF IInv, Return, checkVars
<1>1. \A q \in Checks \ {p} : Held(q)' = Held(q)
  BY RustSessionsAssumption DEF Held, TypeOK
<1>2. \A q \in Checks \ {p} : Phase'[q] = Phase[q]
  BY <1>1 DEF Phase, PhaseOf
<1>3. run[p] # "running" => Phase'[p] = Phase[p]
  BY DEF Phase, PhaseOf
<1> QED  BY <1>2, <1>3 DEF Phase

LEMMA SettleRefines ==
    ASSUME IInv, NEW c \in Callers, Settle(c), NEW p \in Checks, p = fut[c]
    PROVE  Promise!Cache(p) \/ UNCHANGED Promise!vars
<1> DEFINE m == model[p]
           insert == Current(c) /\ Cacheable(p)
<1> USE DEF IInv, Settle
<1>1. m \in Models /\ run[p] # "running"
  BY DEF CallerOK
<1>2. Phase' = Phase
  BY <1>1, ReturnKeeps
<1>3. CASE insert
  <2>1. sessions[m] = None
    BY <1>1, <1>3, RustSessionsAssumption DEF Current, CachedMeansSettled
  <2>2. Phase[p] = "verified" /\ Phase' = [Phase EXCEPT ![p] = "verified"]
    BY <1>2, <1>3 DEF Cacheable, Phase, PhaseOf
  <2>3. /\ Promise!Without({})[m] = None
        /\ sessions' = [Promise!Without({}) EXCEPT ![m] = p]
    BY <1>1, <1>3, <2>1 DEF Promise!Without, TypeOK
  <2>4. Stale' = Stale \ {}
    <3>1. m \notin Stale' /\ m \notin Stale
      BY <1>1, <1>3, <2>1, RustSessionsAssumption
         DEF Stale, Fresh, Cacheable, InsertTime, TypeOK
    <3>2. \A n \in Models \ {m} : n \in Stale' <=> n \in Stale
      BY <1>1 DEF Stale, Fresh, TypeOK
    <3> QED  BY <3>1, <3>2 DEF Stale
  <2>5. {} \in SUBSET Stale /\ model' = model
    BY DEF checkVars
  <2>6. Promise!Cache(p)
    BY <2>2, <2>3, <2>4, <2>5 DEF Promise!Cache, Phase, Stale
  <2> QED  BY <2>6
<1>4. CASE ~insert
  <2>1. sessions' = sessions /\ inserted' = inserted
    BY <1>4 DEF TypeOK
  <2>2. Stale' = Stale
    BY <2>1 DEF Stale, Fresh
  <2> QED  BY <1>2, <2>1, <2>2, StutterRefines DEF checkVars
<1> QED  BY <1>3, <1>4

LEMMA CancelRefines ==
    ASSUME IInv, NEW c \in Callers, Cancel(c), NEW p \in Checks, p = fut[c]
    PROVE  Promise!Finish(p) \/ UNCHANGED Promise!vars
<1> USE DEF IInv, Cancel, cacheVars
<1>1. Stale' = Stale /\ sessions' = sessions /\ model' = model
  BY DEF Stale, Fresh, checkVars
<1>2. \A q \in Checks \ {p} : Phase'[q] = Phase[q]
  BY ReturnKeeps
<1>3. CASE Phase'[p] = Phase[p]
  <2>1. Phase' = Phase
    BY <1>2, <1>3 DEF Phase
  <2> QED  BY <1>1, <2>1, StutterRefines
<1>4. CASE Phase'[p] # Phase[p]
  <2>1. Phase[p] = "running" /\ Phase'[p] = "idle"
    BY <1>4 DEF Phase, PhaseOf, Held, checkVars
  <2>2. Phase' = [Phase EXCEPT ![p] = "idle"]
    BY <1>2, <2>1 DEF Phase
  <2>3. Phase' \in {[Phase EXCEPT ![p] = r] : r \in {"idle", "verified"}}
    BY <2>2
  <2> QED  BY <1>1, <2>1, <2>3 DEF Promise!Finish, Phase, Stale
<1> QED  BY <1>3, <1>4

LEMMA AdvanceRefines ==
    ASSUME IInv, NEW c \in Callers, Advance(c) \/ Cancel(c)
    PROVE  Promise!Next \/ UNCHANGED Promise!vars
<1>1. CASE Observe(c)
  <2>1. Phase' = Phase /\ Stale' = Stale
    BY <1>1 DEF Observe, Phase, PhaseOf, Held, Stale, Fresh, checkVars, cacheVars
  <2> QED  BY <1>1, <2>1, StutterRefines DEF Observe, checkVars, cacheVars
<1>2. ASSUME Drive(c) \/ Settle(c) \/ Cancel(c)
      PROVE  Promise!Next \/ UNCHANGED Promise!vars
  <2>1. PICK p \in Checks : p = fut[c]
    BY <1>2 DEF Drive, Settle, Cancel, IInv, CallerOK, TypeOK
  <2> QED
    BY <1>2, <2>1, DriveRefines, SettleRefines, CancelRefines DEF Promise!Next
<1> QED  BY <1>1, <1>2 DEF Advance

LEMMA TickRefines == IInv /\ Tick => Promise!Lapse
<1> SUFFICES ASSUME IInv, Tick PROVE Promise!Lapse
  OBVIOUS
<1> USE DEF IInv, Tick, cacheVars, checkVars, callerVars
<1>1. Phase' = Phase
  BY DEF Phase, PhaseOf, Held
<1>2. Stale \subseteq Stale' /\ Stale' \subseteq {m \in Models : sessions[m] # None}
  BY RustSessionsAssumption DEF Stale, Fresh, TypeOK
<1>3. Stale' = Stale \cup Stale'
  BY <1>2
<1> QED  BY <1>1, <1>2, <1>3 DEF Promise!Lapse, Phase, Stale

(***************************************************************************)
(* Every behaviour of the deployment cache is one Sessions allows.         *)
(***************************************************************************)
THEOREM RefinesSessions == Spec => ImplementsSessions
<1>1. IInv /\ [Next]_vars => [Promise!Next]_(Promise!vars)
  <2> SUFFICES ASSUME IInv, [Next]_vars
               PROVE  Promise!Next \/ UNCHANGED Promise!vars
    OBVIOUS
  <2>1. CASE Tick
    BY <2>1, TickRefines DEF Promise!Next
  <2>2. CASE UNCHANGED vars
    <3>1. Phase' = Phase /\ Stale' = Stale
      BY <2>2 DEF vars, cacheVars, checkVars, callerVars, Phase, PhaseOf, Held,
                  Stale, Fresh
    <3> QED  BY <2>2, <3>1, StutterRefines DEF vars, cacheVars, checkVars
  <2> QED  BY <2>1, <2>2, EnterRefines, AdvanceRefines DEF Next
<1> QED
  BY <1>1, InitRefines, Invariance, PTL
     DEF Spec, Promise!Spec, ImplementsSessions

-----------------------------------------------------------------------------
(***************************************************************************)
(* Preflights (Preflights).                                                *)
(*                                                                         *)
(* A verification is a sequence of steps, the calls of which are told      *)
(* apart by the party asked and the report it is asked about.  The         *)
(* invariant places every call in flight in the one verification it        *)
(* belongs to, with all steps before it passed, and says of every          *)
(* verification that it has been passed or that one of its calls is in     *)
(* flight; in JavaScript and Python but for those a failure has stopped.   *)
(***************************************************************************)
(* Steps of a verification. *)

IsSeq(s) == s \in Seq({s[k] : k \in DOMAIN s})

\* A sequence of steps, and one in which somebody is asked.
Asks(steps) == \E k \in DOMAIN steps : IsCall(steps[k])

\* A single step is a sequence; Ask asks.
LEMMA OneStep ==
    /\ \A holds : IsSeq(Check(holds)) /\ IsSeq(Connect(holds))
    /\ \A to, p, verdict : IsSeq(Ask(to, p, verdict)) /\ (to # "nobody" => Asks(Ask(to, p, verdict)))
    /\ IsSeq(<<>>)
<1>1. ASSUME NEW x  PROVE IsSeq(<<x>>)
  <2>1. <<x>> \in Seq({x})
    OBVIOUS
  <2>2. {<<x>>[k] : k \in DOMAIN <<x>>} = {x}
    OBVIOUS
  <2> QED  BY <2>1, <2>2 DEF IsSeq
<1>2. ASSUME NEW to, NEW p, NEW verdict, to # "nobody"
      PROVE  Asks(Ask(to, p, verdict))
  <2>1. 1 \in DOMAIN Ask(to, p, verdict) /\ Ask(to, p, verdict)[1].call = Call(to, p)
    BY DEF Ask
  <2>2. Call(to, p) # NoCall
    BY <1>2 DEF Call, NoCall
  <2> QED  BY <2>1, <2>2 DEF Asks, IsCall
<1>3. IsSeq(<<>>)
  BY DEF IsSeq
<1> QED  BY <1>1, <1>2, <1>3 DEF Check, Connect, Ask

\* Where the steps of a concatenation come from.
LEMMA Concatenation ==
    ASSUME NEW a, NEW b, IsSeq(a), IsSeq(b)
    PROVE  /\ Len(a) \in Nat /\ DOMAIN a = 1..Len(a) /\ DOMAIN b = 1..Len(b) /\ Len(b) \in Nat
           /\ DOMAIN (a \o b) = 1..(Len(a) + Len(b)) /\ IsSeq(a \o b)
           /\ \A k \in DOMAIN a : (a \o b)[k] = a[k]
           /\ \A k \in DOMAIN b : (a \o b)[k + Len(a)] = b[k]
<1> DEFINE S == {a[k] : k \in DOMAIN a} \cup {b[k] : k \in DOMAIN b}
           c == a \o b
<1>1. a \in Seq(S) /\ b \in Seq(S)
  <2>1. {a[k] : k \in DOMAIN a} \subseteq S /\ {b[k] : k \in DOMAIN b} \subseteq S
    OBVIOUS
  <2> QED  BY <2>1, SeqMonotonic DEF IsSeq
<1> HIDE DEF S
<1>2. /\ Len(a) \in Nat /\ DOMAIN a = 1..Len(a) /\ DOMAIN b = 1..Len(b) /\ Len(b) \in Nat
      /\ c \in Seq(S) /\ Len(c) = Len(a) + Len(b) /\ DOMAIN c = 1..Len(c)
      /\ \A i \in 1..(Len(a) + Len(b)) : c[i] = IF i <= Len(a) THEN a[i] ELSE b[i - Len(a)]
  BY <1>1, ConcatProperties, LenProperties
<1> HIDE DEF c
<1>3. IsSeq(c)
  <2> DEFINE T == {c[k] : k \in DOMAIN c}
  <2>1. \A k \in DOMAIN c : c[k] \in T
    OBVIOUS
  <2> HIDE DEF T
  <2>2. c = [k \in 1..Len(c) |-> c[k]]
    BY <1>2
  <2>3. c \in Seq(T)
    BY <1>2, <2>1, <2>2
  <2> QED  BY <2>3 DEF IsSeq, T
<1> QED  BY <1>2, <1>3 DEF c

\* Verifications concatenate.
LEMMA Joining ==
    ASSUME NEW a, NEW b, IsSeq(a), IsSeq(b)
    PROVE  /\ IsSeq(a \o b)
           /\ Asks(a) \/ Asks(b) => Asks(a \o b)
<1> DEFINE c == a \o b
<1>1. /\ Len(a) \in Nat /\ DOMAIN a = 1..Len(a) /\ DOMAIN b = 1..Len(b)
      /\ DOMAIN c = 1..(Len(a) + Len(b)) /\ IsSeq(c) /\ Len(b) \in Nat
      /\ \A k \in DOMAIN a : c[k] = a[k]
      /\ \A k \in DOMAIN b : c[k + Len(a)] = b[k]
  BY Concatenation
<1> HIDE DEF c
<1>2. ASSUME NEW k \in DOMAIN a, IsCall(a[k])  PROVE Asks(c)
  <2>1. k \in DOMAIN c /\ c[k] = a[k]
    BY <1>1
  <2> QED  BY <1>2, <2>1 DEF Asks
<1>3. ASSUME NEW k \in DOMAIN b, IsCall(b[k])  PROVE Asks(c)
  <2>1. k + Len(a) \in DOMAIN c /\ c[k + Len(a)] = b[k]
    BY <1>1
  <2> QED  BY <1>3, <2>1 DEF Asks
<1> QED  BY <1>1, <1>2, <1>3 DEF c, Asks

\* What the CHOOSE of HaltAfter finds: the least of all stops.
LEMMA HaltHolds ==
    ASSUME NEW steps, IsSeq(steps), NEW i \in 0..Len(steps)
    PROVE  LET h == HaltAfter(steps, i)
           IN /\ h \in (i + 1)..(Len(steps) + 1)
              /\ h \in DOMAIN steps => IsCall(steps[h]) \/ ~steps[h].ok
              /\ \A k \in (i + 1)..(h - 1) : ~IsCall(steps[k]) /\ steps[k].ok
<1> DEFINE n == Len(steps)
           Stop == {j \in (i + 1)..(n + 1) :
                      j \in DOMAIN steps => IsCall(steps[j]) \/ ~steps[j].ok}
           Halt(h) ==
               /\ h \in DOMAIN steps => IsCall(steps[h]) \/ ~steps[h].ok
               /\ \A k \in (i + 1)..(h - 1) : ~IsCall(steps[k]) /\ steps[k].ok
<1>1. DOMAIN steps = 1..n /\ n \in Nat
  BY LenProperties DEF IsSeq
<1>2. PICK j \in Stop : \A k \in Stop : ~(k < j)
  <2>1. n + 1 \in Stop /\ Stop \subseteq Nat
    BY <1>1
  <2> HIDE DEF Stop
  <2>2. \E j \in Stop : \A k \in Stop : ~(<<k, j>> \in OpToRel(<, Nat))
    BY <2>1, NatLessThanWellFounded, WFMin
  <2> QED  BY <2>1, <2>2 DEF OpToRel
<1>3. j \in (i + 1)..(n + 1) /\ Halt(j)
  BY <1>1, <1>2
<1>4. HaltAfter(steps, i) = CHOOSE h \in (i + 1)..(n + 1) : Halt(h)
  BY DEF HaltAfter
<1> QED  BY <1>3, <1>4

\* Steps in which somebody is asked do not run to their end at once.
LEMMA FirstHalt ==
    ASSUME NEW steps, IsSeq(steps), Asks(steps)
    PROVE  HaltAfter(steps, 0) \in DOMAIN steps
<1> DEFINE h == HaltAfter(steps, 0)
<1>1. DOMAIN steps = 1..Len(steps) /\ Len(steps) \in Nat
  BY LenProperties DEF IsSeq
<1>2. h \in 1..(Len(steps) + 1) /\ \A k \in 1..(h - 1) : ~IsCall(steps[k])
  BY <1>1, HaltHolds
<1> HIDE DEF h
<1>3. h # Len(steps) + 1
  BY <1>1, <1>2 DEF Asks
<1> QED  BY <1>1, <1>2, <1>3 DEF h

\* The instances of Evidence within the clients are Evidence itself.
LEMMA RustSteps ==
    /\ \A h : Rust!Check(h) = Check(h) /\ Rust!Connect(h) = Connect(h)
    /\ \A to, p, h : Rust!Ask(to, p, h) = Ask(to, p, h) /\ Rust!Call(to, p) = Call(to, p)
    /\ \A h, s : Rust!When(h, s) = IF h THEN s ELSE <<>>
    /\ \A s : Rust!IsCall(s) = IsCall(s)
    /\ \A s, i : Rust!HaltAfter(s, i) = HaltAfter(s, i) /\ Rust!PositionOf(s, i) = PositionOf(s, i)
    /\ \A s, j : /\ Rust!Waits(s, j) = Waits(s, j) /\ Rust!Fails(s, j) = Fails(s, j)
                /\ Rust!Finished(s, j) = Finished(s, j)
BY DEF Rust!Check, Check, Rust!Connect, Connect, Rust!Ask, Ask, Rust!When, Rust!IsCall, IsCall,
       Rust!HaltAfter, HaltAfter, Rust!PositionOf, PositionOf, Rust!Waits, Waits, Rust!Fails, Fails,
       Rust!Finished, Finished, Rust!NoCall, NoCall, Rust!Call, Call

LEMMA JsSteps ==
    /\ \A h : Js!Check(h) = Check(h) /\ Js!Connect(h) = Connect(h)
    /\ \A to, p, h : Js!Ask(to, p, h) = Ask(to, p, h) /\ Js!Call(to, p) = Call(to, p)
    /\ \A h, s : Js!When(h, s) = IF h THEN s ELSE <<>>
    /\ \A s : Js!IsCall(s) = IsCall(s)
    /\ \A s, i : Js!HaltAfter(s, i) = HaltAfter(s, i) /\ Js!PositionOf(s, i) = PositionOf(s, i)
    /\ \A s, j : /\ Js!Waits(s, j) = Waits(s, j) /\ Js!Fails(s, j) = Fails(s, j)
                /\ Js!Finished(s, j) = Finished(s, j)
BY DEF Js!Check, Check, Js!Connect, Connect, Js!Ask, Ask, Js!When, Js!IsCall, IsCall,
       Js!HaltAfter, HaltAfter, Js!PositionOf, PositionOf, Js!Waits, Waits, Js!Fails, Fails,
       Js!Finished, Finished, Js!NoCall, NoCall, Js!Call, Call

LEMMA PySteps ==
    /\ \A h : Py!Check(h) = Check(h) /\ Py!Connect(h) = Connect(h)
    /\ \A to, p, h : Py!Ask(to, p, h) = Ask(to, p, h) /\ Py!Call(to, p) = Call(to, p)
    /\ \A h, s : Py!When(h, s) = IF h THEN s ELSE <<>>
    /\ \A s : Py!IsCall(s) = IsCall(s)
    /\ \A s, i : Py!HaltAfter(s, i) = HaltAfter(s, i) /\ Py!PositionOf(s, i) = PositionOf(s, i)
    /\ \A s, j : /\ Py!Waits(s, j) = Waits(s, j) /\ Py!Fails(s, j) = Fails(s, j)
                /\ Py!Finished(s, j) = Finished(s, j)
BY DEF Py!Check, Check, Py!Connect, Connect, Py!Ask, Ask, Py!When, Py!IsCall, IsCall,
       Py!HaltAfter, HaltAfter, Py!PositionOf, PositionOf, Py!Waits, Waits, Py!Fails, Fails,
       Py!Finished, Finished, Py!NoCall, NoCall, Py!Call, Call

\* The verification of a report is a sequence of steps, and Intel is asked.
LEMMA RustReport ==
    ASSUME NEW i, NEW p
    PROVE  IsSeq(Rust!ReportSteps(i, p)) /\ Asks(Rust!ReportSteps(i, p))
<1> USE OneStep, Joining, RustSteps
<1>1. ASSUME NEW r, NEW o, NEW fingerprint
      PROVE  LET steps == Rust!VerifyModelWithTls(r, p, o, fingerprint)
             IN IsSeq(steps) /\ Asks(steps)
  <2>1. IsSeq(Rust!VerifyDstackQuote(r, p, o)) /\ Asks(Rust!VerifyDstackQuote(r, p, o))
    BY DEF Rust!VerifyDstackQuote, Rust!VerifyTdxQuotePolicy
  <2>2. \A m, compose : IsSeq(Rust!VerifyComposeManager(m, p, compose, o))
    BY DEF Rust!VerifyComposeManager, Rust!VerifyTdxQuotePolicy
  <2>3. IsSeq(Rust!VerifyDstackDeployment(r))
    BY DEF Rust!VerifyDstackDeployment
  <2>4. IsSeq(Rust!RunDeploymentVerifier(r, p, o.verifier, o.policy))
    BY DEF Rust!RunDeploymentVerifier
  <2>5. IsSeq(Rust!VerifyGpuEvidence(r.gpu, p, o))
    BY DEF Rust!VerifyGpuEvidence
  <2> QED  BY <2>1, <2>2, <2>3, <2>4, <2>5 DEF Rust!VerifyModelWithTls
<1> QED  BY <1>1 DEF Rust!ReportSteps

\* A track is a sequence of steps, and a CPU track asks Intel.
LEMMA JsTrack ==
    ASSUME NEW i, NEW t
    PROVE  IsSeq(Js!track(i, t)) /\ (t[2] = "cpu" => Asks(Js!track(i, t)))
<1> USE OneStep, Joining, JsSteps
<1>1. ASSUME NEW r, NEW p, NEW o
      PROVE  IsSeq(Js!verifyCpu(r, p, o)) /\ Asks(Js!verifyCpu(r, p, o))
  <2>1. \A nonce : IsSeq(Js!verifyReportedNonce(nonce))
    BY DEF Js!verifyReportedNonce
  <2>2. \A echo, quote : IsSeq(Js!verifyAdvertisedReportData(echo, quote))
    BY DEF Js!verifyAdvertisedReportData
  <2>3. \A quote : IsSeq(Js!verifyQuoteReportDataNonce(quote))
    BY DEF Js!verifyQuoteReportDataNonce
  <2>4. \A compose, quote : IsSeq(Js!verifyAppComposeMrConfigBinding(compose, quote))
    BY DEF Js!verifyAppComposeMrConfigBinding
  <2>5. \A log, quote : IsSeq(Js!verifyAndReplayRtmr3(log, quote))
    BY DEF Js!verifyAndReplayRtmr3
  <2>6. \A to, quote : /\ IsSeq(Js!verifyTdxQuote(to, p, quote, o))
                       /\ to # "nobody" => Asks(Js!verifyTdxQuote(to, p, quote, o))
    BY DEF Js!verifyTdxQuote
  <2>7. IsSeq(Js!verifyDstackQuote(r, p, o)) /\ Asks(Js!verifyDstackQuote(r, p, o))
    BY <2>1, <2>2, <2>6 DEF Js!verifyDstackQuote
  <2>8. \A m, compose : IsSeq(Js!verifyComposeManagerAttestation(m, p, compose, o))
    BY <2>1, <2>2, <2>3, <2>4, <2>5, <2>6 DEF Js!verifyComposeManagerAttestation
  <2>9. IsSeq(Js!verifyDstackDeployment(r))
    BY <2>4, <2>5 DEF Js!verifyDstackDeployment
  <2>10. IsSeq(Js!runDeploymentVerifier(r, p, o.verifier, o.policy))
    BY DEF Js!runDeploymentVerifier
  <2>11. IsSeq(Js!verifySigningPublicKey(r))
    BY DEF Js!verifySigningPublicKey
  <2>12. IsSeq(Js!verifyModelDeployment(r, p, o))
    BY <2>8, <2>9, <2>10, <2>11 DEF Js!verifyModelDeployment
  <2>13. /\ IsSeq(Js!verifyReportDataBinding(r))
         /\ IsSeq(Js!verifyReportDataBindingWithTlsFingerprint(r))
    BY <2>3 DEF Js!verifyReportDataBinding, Js!verifyReportDataBindingWithTlsFingerprint
  <2> QED  BY <2>7, <2>12, <2>13 DEF Js!verifyCpu
<1>2. ASSUME NEW r, NEW p, NEW o  PROVE IsSeq(Js!verifyGpuEvidence(r, p, o))
  BY DEF Js!verifyGpuEvidence, Js!verifyReportedNonce
<1> QED  BY <1>1, <1>2 DEF Js!track

\* A track is a sequence of steps, and a CPU track asks Intel.
LEMMA PyTrack ==
    ASSUME NEW i, NEW x
    PROVE  /\ IsSeq(Py!StepsIn(i, x[1], x[2]))
           /\ x[1] = "cpu" => Asks(Py!StepsIn(i, x[1], x[2]))
<1> USE OneStep, Joining, PySteps
<1>1. ASSUME NEW r, NEW p, NEW o
      PROVE  IsSeq(Py!verify_cpu(r, p, o)) /\ Asks(Py!verify_cpu(r, p, o))
  <2>1. IsSeq(Py!verify_dstack_quote(r, p, o)) /\ Asks(Py!verify_dstack_quote(r, p, o))
    BY DEF Py!verify_dstack_quote, Py!verify_tdx_quote
  <2>2. \A m, compose : IsSeq(Py!verify_compose_manager_attestation(m, p, compose, o))
    BY DEF Py!verify_compose_manager_attestation, Py!verify_tdx_quote
  <2>3. IsSeq(Py!verify_dstack_deployment(r))
    BY DEF Py!verify_dstack_deployment
  <2>4. IsSeq(Py!run_deployment_verifier(r, p, o.verifier, o.policy))
    BY DEF Py!run_deployment_verifier
  <2>5. IsSeq(Py!verify_model_deployment(r, p, o))
    BY <2>2, <2>3, <2>4 DEF Py!verify_model_deployment
  <2> QED  BY <2>1, <2>5 DEF Py!verify_cpu
<1>2. ASSUME NEW r, NEW p, NEW o  PROVE IsSeq(Py!verify_gpu_evidence(r, p, o))
  BY DEF Py!verify_gpu_evidence
<1> QED  BY <1>1, <1>2 DEF Py!StepsIn

-----------------------------------------------------------------------------
(* Nobody waits for nothing. *)

PreflightInv ==
    /\ outcome = "running" => inflight # {} \/ faults # {}
    /\ NoCall \notin inflight
    /\ \A f \in faults : f.error # "running"

\* A failed step ends a preflight.
LEMMA ErrorEnds ==
    /\ \A step : Rust!ErrorOf(step) \in {"refused", "unreachable"}
    /\ \A step : Go!ErrorOf(step) \in {"refused", "unreachable"}
    /\ \A step : Js!ErrorOf(step) \in {"refused", "unreachable"}
    /\ \A step : Py!ErrorOf(step) \in {"refused", "unreachable"}
BY DEF Rust!ErrorOf, Go!ErrorOf, Js!ErrorOf, Py!ErrorOf

\* A step of a client leaves somebody to wait for, or ends the preflight.
LEMMA RustStep ==
    ASSUME PreflightInv, Rust!Next, UNCHANGED faults
    PROVE  PreflightInv'
<1> USE RustSteps, ErrorEnds DEF PreflightInv
<1>1. ASSUME NEW error, error # "running", Rust!Fail(error)  PROVE PreflightInv'
  BY <1>1 DEF Rust!Fail
<1>2. ASSUME NEW c \in inflight, NEW steps, Rust!Answer(c, steps)  PROVE PreflightInv'
  <2>1. CASE Rust!Resume(c, steps)
    BY <2>1 DEF Rust!Resume, Rust!Waits, IsCall
  <2>2. CASE Rust!Return(c, steps)
    <3>1. ASSUME Rust!Joined(case) # {},
                 Rust!JoinReports(c, [p \in Rust!Joined(case) |-> Rust!ReportSteps(case, p)])
          PROVE  PreflightInv'
      <4> DEFINE futures == [p \in Rust!Joined(case) |-> Rust!ReportSteps(case, p)]
                 first(p) == HaltAfter(futures[p], 0)
      <4>1. \A p \in DOMAIN futures : first(p) \in DOMAIN futures[p]
        BY RustReport, FirstHalt
      <4>2. CASE \E p \in DOMAIN futures : Rust!Fails(futures[p], first(p))
        <5>1. Rust!Fail("refused")
          BY <3>1, <4>2 DEF Rust!JoinReports
        <5> QED  BY <1>1, <5>1
      <4>3. CASE ~ \E p \in DOMAIN futures : Rust!Fails(futures[p], first(p))
        <5>1. \A p \in DOMAIN futures : IsCall(futures[p][first(p)])
          BY <4>1, <4>3 DEF Rust!Fails
        <5>2. inflight' = {futures[p][first(p)].call : p \in DOMAIN futures}
          BY <3>1, <4>3 DEF Rust!JoinReports
        <5>3. DOMAIN futures # {}
          BY <3>1
        <5> HIDE DEF futures, first
        <5>4. inflight' # {} /\ NoCall \notin inflight'
          BY <5>1, <5>2, <5>3 DEF IsCall
        <5> QED  BY <5>4
      <4> QED  BY <4>2, <4>3
    <3>2. ASSUME NEW epilogue, Rust!Finish(c, epilogue)  PROVE PreflightInv'
      BY <1>1, <3>2 DEF Rust!Finish
    <3> QED  BY <2>2, <3>1, <3>2 DEF Rust!Return
  <2>3. CASE Rust!Reject(c, steps)
    BY <1>1, <2>3 DEF Rust!Reject
  <2> QED  BY <1>2, <2>1, <2>2, <2>3 DEF Rust!Answer
<1>3. CASE Rust!Abandon
  BY <1>1, <1>3 DEF Rust!Abandon
<1>4. CASE Rust!Done
  BY <1>4 DEF Rust!Done, Rust!vars
<1>5. ASSUME NEW c \in inflight, Rust!Unreachable(c)  PROVE PreflightInv'
  BY <1>1, <1>5 DEF Rust!Unreachable
<1> QED  BY <1>2, <1>3, <1>4, <1>5 DEF Rust!Next

LEMMA GoStep ==
    ASSUME PreflightInv, Go!Next, UNCHANGED faults
    PROVE  PreflightInv'
<1> USE ErrorEnds DEF PreflightInv, Go!Fail
<1>1. ASSUME NEW c \in inflight, NEW steps, Go!Answer(c, steps)  PROVE PreflightInv'
  BY <1>1 DEF Go!Answer, Go!Resume, Go!Return, Go!Reject, Go!Waits, Go!IsCall, Go!NoCall,
              Go!Call, NoCall, Call
<1>2. ASSUME NEW c \in inflight, Go!Unreachable(c) \/ Go!Cancel(c)  PROVE PreflightInv'
  BY <1>2 DEF Go!Unreachable, Go!Cancel
<1>3. CASE Go!Done
  BY <1>3 DEF Go!Done, Go!vars
<1> QED  BY <1>1, <1>2, <1>3 DEF Go!Next

LEMMA JsStep ==
    ASSUME PreflightInv, Js!Next, UNCHANGED faults
    PROVE  PreflightInv'
<1> USE JsSteps, ErrorEnds DEF PreflightInv
<1>1. ASSUME NEW error, error # "running", Js!Settle(error)  PROVE outcome' # "running"
  BY <1>1 DEF Js!Settle
<1>2. ASSUME NEW c \in inflight, NEW steps, Js!Answer(c, steps)  PROVE PreflightInv'
  <2>1. CASE Js!Resume(c, steps)
    BY <2>1 DEF Js!Resume, Js!Waits, IsCall
  <2>2. CASE Js!Return(c, steps)
    <3>1. ASSUME Js!joined(case) # {},
                 Js!Start(c, [t \in Js!joined(case) |-> Js!track(case, t)])
          PROVE  PreflightInv'
      <4> DEFINE tracks == [t \in Js!joined(case) |-> Js!track(case, t)]
                 halt(t) == HaltAfter(tracks[t], 0)
                 waiting == {t \in DOMAIN tracks : Js!Waits(tracks[t], halt(t))}
      <4>1. PICK t \in DOMAIN tracks : t[2] = "cpu"
        <5>1. PICK u \in Js!joined(case) : TRUE
          BY <3>1
        <5>2. <<u[1], "cpu">> \in Js!joined(case) /\ <<u[1], "cpu">>[2] = "cpu"
          BY <5>1 DEF Js!joined
        <5> QED  BY <5>2
      <4>2. halt(t) \in DOMAIN tracks[t]
        BY <4>1, JsTrack, FirstHalt
      <4>3. t \in waiting \/ Js!Fails(tracks[t], halt(t))
        BY <4>1, <4>2 DEF Js!Waits, Js!Fails
      <4>4. inflight' = {tracks[x][halt(x)].call : x \in waiting}
        BY <3>1 DEF Js!Start
      <4>5. UNCHANGED outcome \/ outcome' # "running"
        BY <1>1, <3>1 DEF Js!Start
      <4>6. (\E x \in DOMAIN tracks : Js!Fails(tracks[x], halt(x))) => outcome' # "running"
        BY <1>1, <3>1 DEF Js!Start
      <4>7. \A x \in waiting : IsCall(tracks[x][halt(x)])
        BY DEF Js!Waits
      <4> HIDE DEF tracks, halt, waiting
      <4>8. NoCall \notin inflight'
        BY <4>4, <4>7 DEF IsCall
      <4>9. outcome' = "running" => inflight' # {}
        BY <4>1, <4>3, <4>4, <4>6
      <4> QED  BY <4>8, <4>9
    <3>2. ASSUME Js!Conclude(c, Js!conclusion(case))  PROVE PreflightInv'
      <4>1. outcome' # "running" /\ inflight' = {}
        BY <1>1, <3>2 DEF Js!Conclude
      <4> QED  BY <4>1
    <3> QED  BY <2>2, <3>1, <3>2 DEF Js!Return
  <2>3. CASE Js!Reject(c, steps)
    <3>1. outcome' # "running" /\ inflight' = inflight \ {c}
      BY <1>1, <2>3 DEF Js!Reject
    <3> QED  BY <3>1
  <2> QED  BY <1>2, <2>1, <2>2, <2>3 DEF Js!Answer
<1>3. ASSUME NEW c \in inflight, Js!Unreachable(c)  PROVE PreflightInv'
  <2>1. outcome' # "running" /\ inflight' = inflight \ {c}
    BY <1>1, <1>3 DEF Js!Unreachable
  <2> QED  BY <2>1
<1>4. CASE Js!Done
  BY <1>4 DEF Js!Done, Js!vars
<1> QED  BY <1>2, <1>3, <1>4 DEF Js!Next

LEMMA PyStep ==
    ASSUME PreflightInv, Py!Next
    PROVE  PreflightInv'
<1> USE PySteps, ErrorEnds DEF PreflightInv
<1>1. ASSUME NEW error, error # "running", Py!Raise(error)  PROVE PreflightInv'
  BY <1>1 DEF Py!Raise
<1>2. ASSUME NEW c \in inflight, NEW error, error # "running", Py!FailAt(c, error)
      PROVE  PreflightInv'
  <2>1. CASE Py!FailTrack(c, error)
    <3>1. faults' # {}
      BY <2>1 DEF Py!FailTrack, Py!Faulty
    <3>2. \A f \in faults' : f.error # "running"
      BY <1>2, <2>1 DEF Py!FailTrack, Py!Fault
    <3>3. inflight' = inflight \ {c}
      BY <2>1 DEF Py!FailTrack
    <3> QED  BY <3>1, <3>2, <3>3
  <2> QED  BY <1>1, <1>2, <2>1 DEF Py!FailAt
<1>3. ASSUME NEW c, NEW steps, Py!Finish(c, steps)  PROVE PreflightInv'
  BY <1>1, <1>3 DEF Py!Finish
<1>4. ASSUME NEW c \in inflight, NEW steps, Py!Answer(c, steps)  PROVE PreflightInv'
  <2>1. CASE Py!Resume(c, steps)
    BY <2>1 DEF Py!Resume, Py!Waits, IsCall
  <2>2. CASE Py!Return(c, steps)
    <3>1. ASSUME ~Py!InPrologue(c), Py!EndTrack(c)  PROVE PreflightInv'
      <4> DEFINE p == c.for
                 ends == Py!CallsFor(p) = {c} /\ ~Py!Faulty(p)
                 key == Py!verify_signing_public_key(Py!report(case, p))
      <4>1. CASE ends /\ key /\ inflight = {c} /\ faults = {}
        BY <1>3, <3>1, <4>1 DEF Py!EndTrack
      <4>2. CASE ~(ends /\ key /\ inflight = {c} /\ faults = {})
        <5>1. /\ inflight' = inflight \ {c}
              /\ faults' = IF ends /\ ~key THEN faults \cup {Py!Fault(p, "refused", TRUE)}
                           ELSE faults
          BY <3>1, <4>2 DEF Py!EndTrack
        <5>2. \A f \in faults' : f.error # "running"
          BY <5>1 DEF Py!Fault
        <5>3. ASSUME inflight = {c}, faults = {}  PROVE ends /\ ~key
          <6>1. ~Py!Faulty(p)
            BY <5>3 DEF Py!Faulty
          <6>2. Py!CallsFor(p) = {c}
            BY <3>1, <5>3 DEF Py!CallsFor
          <6> QED  BY <4>2, <5>3, <6>1, <6>2
        <5>4. inflight' # {} \/ faults' # {}
          <6> HIDE DEF ends, key
          <6> QED  BY <5>1, <5>3
        <5> QED  BY <5>1, <5>2, <5>4
      <4> QED  BY <4>1, <4>2
    <3>2. ASSUME Py!gathered(case) # {},
                 Py!Gather(c, [x \in Py!Tracks \X Py!gathered(case) |->
                                  Py!StepsIn(case, x[1], x[2])])
          PROVE  PreflightInv'
      <4> DEFINE tasks == [x \in Py!Tracks \X Py!gathered(case) |->
                              Py!StepsIn(case, x[1], x[2])]
                 halt(x) == HaltAfter(tasks[x], 0)
                 asking == {x \in DOMAIN tasks : Py!Waits(tasks[x], halt(x))}
                 failing == {x \in DOMAIN tasks : Py!Fails(tasks[x], halt(x))}
      <4>1. PICK x \in DOMAIN tasks : x[1] = "cpu"
        <5>1. PICK p \in Py!gathered(case) : TRUE
          BY <3>2
        <5>2. <<"cpu", p>> \in DOMAIN tasks /\ <<"cpu", p>>[1] = "cpu"
          BY <5>1 DEF Py!Tracks
        <5> QED  BY <5>2
      <4>2. halt(x) \in DOMAIN tasks[x]
        BY <4>1, PyTrack, FirstHalt
      <4>3. x \in asking \/ x \in failing
        BY <4>1, <4>2 DEF Py!Waits, Py!Fails
      <4>4. /\ inflight' = {tasks[y][halt(y)].call : y \in asking}
            /\ faults' = {Py!Fault(y[2], "refused", FALSE) : y \in failing}
        BY <3>2 DEF Py!Gather
      <4>5. \A y \in asking : IsCall(tasks[y][halt(y)])
        BY DEF Py!Waits
      <4> HIDE DEF tasks, halt, asking, failing
      <4>6. NoCall \notin inflight'
        BY <4>4, <4>5 DEF IsCall
      <4>7. \A f \in faults' : f.error # "running"
        BY <4>4 DEF Py!Fault
      <4>8. inflight' # {} \/ faults' # {}
        BY <4>3, <4>4
      <4> QED  BY <4>6, <4>7, <4>8
    <3> QED  BY <1>3, <2>2, <3>1, <3>2 DEF Py!Return
  <2>3. CASE Py!Reject(c, steps)
    BY <1>2, <2>3 DEF Py!Reject
  <2> QED  BY <1>4, <2>1, <2>2, <2>3 DEF Py!Answer
<1>5. ASSUME NEW c \in inflight, Py!Unreachable(c)  PROVE PreflightInv'
  BY <1>2, <1>5 DEF Py!Unreachable
<1>6. ASSUME NEW f \in faults, Py!CancelTracks(f)  PROVE PreflightInv'
  <2>1. [f EXCEPT !.stopped = TRUE].error = f.error
    OBVIOUS
  <2> QED  BY <1>6, <2>1 DEF Py!CancelTracks
<1>7. ASSUME NEW f \in faults, Py!CancelReports(f)  PROVE PreflightInv'
  BY <1>1, <1>7 DEF Py!CancelReports
<1>8. CASE Py!Close
  BY <1>1, <1>8 DEF Py!Close
<1>9. CASE Py!Done
  BY <1>9 DEF Py!Done, Py!vars
<1> QED  BY <1>4, <1>5, <1>6, <1>7, <1>8, <1>9 DEF Py!Next

LEMMA PreflightInvariance == PreflightSpec => []PreflightInv
<1>1. PreflightInit => PreflightInv
  BY DEF PreflightInit, PreflightInv, NoCall, Call,
         Rust!Init, Rust!Call, Go!Init, Go!Call, Js!Init, Js!Call, Py!Init, Py!Call
<1>2. ASSUME PreflightInv, [PreflightNext]_preflightVars  PROVE PreflightInv'
  <2>1. CASE UNCHANGED preflightVars
    BY <1>2, <2>1 DEF PreflightInv, preflightVars
  <2> QED  BY <1>2, <2>1, RustStep, GoStep, JsStep, PyStep DEF PreflightNext
<1> QED  BY <1>1, <1>2, PTL DEF PreflightSpec

(***************************************************************************)
(* Whatever the cases: whoever calls createSession waits for a party that  *)
(* has been asked, or for a failed task, until the preflight has ended.    *)
(***************************************************************************)
THEOREM NobodyIsStranded == PreflightSpec => []NeverStranded
<1>1. PreflightInv => NeverStranded
  BY DEF PreflightInv, NeverStranded
<1> QED  BY <1>1, PreflightInvariance, PTL

-----------------------------------------------------------------------------
(* The places of a verification. *)

\* Calls of a verification are told apart by the party and the report.
Distinct(steps) ==
    \A j, k \in DOMAIN steps : IsCall(steps[j]) /\ steps[j].call = steps[k].call => j = k

\* A verification of report p that asks each of some parties at most once.
Verification(steps, p, parties) ==
    /\ IsSeq(steps) /\ Distinct(steps)
    /\ \A k \in DOMAIN steps :
           IsCall(steps[k]) => steps[k].call.for = p /\ steps[k].call.to \in parties

\* All steps before step j have passed, or all there are.
Behind(steps, j, done) ==
    \A k \in DOMAIN steps :
        k < j => steps[k].ok /\ (IsCall(steps[k]) => steps[k].call \in done)
Through(steps, done) ==
    \A k \in DOMAIN steps : steps[k].ok /\ (IsCall(steps[k]) => steps[k].call \in done)

\* A verification has come as far as call c.
At(steps, c, done) ==
    \E j \in DOMAIN steps : steps[j].call = c /\ IsCall(steps[j]) /\ Behind(steps, j, done)

\* An answer takes a verification to its next call or through its end.
LEMMA StepForward ==
    ASSUME NEW steps, IsSeq(steps), Distinct(steps), NEW c, NEW done, At(steps, c, done),
           steps[PositionOf(steps, c)].ok
    PROVE  LET next == HaltAfter(steps, PositionOf(steps, c))
           IN /\ Waits(steps, next) => At(steps, steps[next].call, done \cup {c})
              /\ Finished(steps, next) => Through(steps, done \cup {c})
<1> DEFINE n == Len(steps)
           here == PositionOf(steps, c)
           next == HaltAfter(steps, here)
<1>1. DOMAIN steps = 1..n /\ n \in Nat
  BY LenProperties DEF IsSeq
<1>2. PICK j \in DOMAIN steps : steps[j].call = c /\ IsCall(steps[j]) /\ Behind(steps, j, done)
  BY DEF At
<1>3. here = j
  <2>1. here \in DOMAIN steps /\ steps[here].call = c
    BY <1>2 DEF PositionOf
  <2> QED  BY <1>2, <2>1 DEF Distinct
<1>4. /\ next \in (here + 1)..(n + 1)
      /\ \A k \in (here + 1)..(next - 1) : ~IsCall(steps[k]) /\ steps[k].ok
  BY <1>1, <1>2, <1>3, HaltHolds
<1> HIDE DEF here, next
<1>5. Behind(steps, next, done \cup {c})
  <2>1. ASSUME NEW k \in DOMAIN steps, k < next
        PROVE  steps[k].ok /\ (IsCall(steps[k]) => steps[k].call \in done \cup {c})
    <3>1. CASE k < here
      BY <1>2, <1>3, <3>1 DEF Behind
    <3>2. CASE k = here
      BY <1>2, <1>3, <3>2 DEF here
    <3>3. CASE k > here
      BY <1>1, <1>2, <1>3, <1>4, <2>1, <3>3
    <3> QED  BY <1>1, <1>2, <1>3, <3>1, <3>2, <3>3
  <2> QED  BY <2>1 DEF Behind
<1>6. ASSUME Waits(steps, next)  PROVE At(steps, steps[next].call, done \cup {c})
  BY <1>5, <1>6 DEF Waits, At
<1>7. ASSUME Finished(steps, next)  PROVE Through(steps, done \cup {c})
  <2>1. \A k \in DOMAIN steps : k < next
    BY <1>1, <1>2, <1>3, <1>4, <1>7 DEF Finished
  <2> QED  BY <1>5, <2>1 DEF Behind, Through
<1> QED  BY <1>6, <1>7 DEF here, next

\* A verification starts at its first call or runs through.
LEMMA Begin ==
    ASSUME NEW steps, IsSeq(steps), NEW done
    PROVE  LET first == HaltAfter(steps, 0)
           IN /\ Waits(steps, first) => At(steps, steps[first].call, done)
              /\ Finished(steps, first) => Through(steps, done)
<1> DEFINE first == HaltAfter(steps, 0)
<1>1. DOMAIN steps = 1..Len(steps) /\ Len(steps) \in Nat
  BY LenProperties DEF IsSeq
<1>2. /\ first \in 1..(Len(steps) + 1)
      /\ \A k \in 1..(first - 1) : ~IsCall(steps[k]) /\ steps[k].ok
  BY <1>1, HaltHolds
<1> HIDE DEF first
<1>3. Waits(steps, first) => At(steps, steps[first].call, done)
  BY <1>1, <1>2 DEF Waits, At, Behind
<1>4. Finished(steps, first) => Through(steps, done)
  BY <1>1, <1>2 DEF Finished, Through
<1> QED  BY <1>3, <1>4 DEF first

\* Nothing is lost by further answers.
LEMMA MoreDone ==
    ASSUME NEW done, NEW more, done \subseteq more
    PROVE  /\ \A steps, c : At(steps, c, done) => At(steps, c, more)
           /\ \A steps : Through(steps, done) => Through(steps, more)
BY DEF At, Through, Behind

-----------------------------------------------------------------------------
(* Verifications side by side. *)

Apart(T, f) ==
    /\ \A t \in T : IsSeq(f[t]) /\ Distinct(f[t])
    /\ \A t, u \in T : \A c, more, done : At(f[t], c, done) /\ At(f[u], c, more) => t = u

Spread(T, f, lost, waiting, done) ==
    /\ \A c \in waiting : \E t \in T : At(f[t], c, done)
    /\ \A t \in T \ lost : Through(f[t], done) \/ \E c \in waiting : At(f[t], c, done)

\* One of the verifications goes on, the others stay where they are.
LEMMA SpreadStep ==
    ASSUME NEW T, NEW f, Apart(T, f), NEW lost, NEW waiting, NEW done,
           Spread(T, f, lost, waiting, done),
           NEW t \in T, NEW c \in waiting, At(f[t], c, done), f[t][PositionOf(f[t], c)].ok
    PROVE  LET next == HaltAfter(f[t], PositionOf(f[t], c))
               more == done \cup {c}
           IN /\ Waits(f[t], next) =>
                     Spread(T, f, lost, (waiting \ {c}) \cup {f[t][next].call}, more)
              /\ Finished(f[t], next) =>
                     Spread(T, f, lost, waiting \ {c}, more) /\ Through(f[t], more)
<1> DEFINE next == HaltAfter(f[t], PositionOf(f[t], c))
           more == done \cup {c}
<1>1. /\ Waits(f[t], next) => At(f[t], f[t][next].call, more)
      /\ Finished(f[t], next) => Through(f[t], more)
  BY StepForward DEF Apart
<1> HIDE DEF next
<1>2. /\ \A d : \A u \in T : At(f[u], d, done) => At(f[u], d, more)
      /\ \A u \in T : Through(f[u], done) => Through(f[u], more)
  BY MoreDone
<1>3. \A u \in T : u # t => ~At(f[u], c, done)
  BY DEF Apart
<1> HIDE DEF more
<1>4. ASSUME NEW u \in T \ lost, u # t
      PROVE  Through(f[u], more) \/ \E d \in waiting \ {c} : At(f[u], d, more)
  BY <1>2, <1>3, <1>4 DEF Spread
<1>5. \A d \in waiting \ {c} : \E u \in T : At(f[u], d, more)
  BY <1>2 DEF Spread
<1>6. ASSUME Waits(f[t], next)
      PROVE  Spread(T, f, lost, (waiting \ {c}) \cup {f[t][next].call}, more)
  BY <1>1, <1>4, <1>5, <1>6 DEF Spread
<1>7. ASSUME Finished(f[t], next)  PROVE Spread(T, f, lost, waiting \ {c}, more)
  BY <1>1, <1>4, <1>5, <1>7 DEF Spread
<1> QED  BY <1>1, <1>6, <1>7 DEF next, more

\* All verifications start at once, those that fail at once are lost.
LEMMA SpreadBegin ==
    ASSUME NEW T, NEW f, \A t \in T : IsSeq(f[t]), NEW done,
           NEW lost, \A t \in T : Fails(f[t], HaltAfter(f[t], 0)) => t \in lost
    PROVE  Spread(T, f, lost,
                  {f[t][HaltAfter(f[t], 0)].call : t \in {u \in T : Waits(f[u], HaltAfter(f[u], 0))}},
                  done)
<1> DEFINE first(t) == HaltAfter(f[t], 0)
           asking == {u \in T : Waits(f[u], first(u))}
<1>1. \A t \in T : /\ Waits(f[t], first(t)) => At(f[t], f[t][first(t)].call, done)
                   /\ Finished(f[t], first(t)) => Through(f[t], done)
  BY Begin
<1>2. \A t \in T : Waits(f[t], first(t)) \/ Finished(f[t], first(t)) \/ t \in lost
  BY DEF Waits, Finished, Fails
<1>3. asking \subseteq T /\ \A t \in T : t \in asking <=> Waits(f[t], first(t))
  OBVIOUS
<1> HIDE DEF first, asking
<1>4. Spread(T, f, lost, {f[t][first(t)].call : t \in asking}, done)
  BY <1>1, <1>2, <1>3 DEF Spread
<1> QED  BY <1>4 DEF first, asking

\* Some more verifications are lost, and with them what they asked.
LEMMA SpreadLoss ==
    ASSUME NEW T, NEW f, NEW lost, NEW waiting, NEW done, Spread(T, f, lost, waiting, done),
           NEW further, lost \subseteq further, NEW left, left \subseteq waiting,
           \A c \in waiting \ left : \A t \in T : At(f[t], c, done) => t \in further
    PROVE  Spread(T, f, further, left, done)
BY DEF Spread

-----------------------------------------------------------------------------
(* What the verifications of a preflight ask, each at most once. *)

\* The smallest verifications.
LEMMA Plain ==
    /\ \A h, p : Verification(Check(h), p, {}) /\ Verification(Connect(h), p, {})
    /\ \A to, p, h : Verification(Ask(to, p, h), p, {to})
    /\ \A p : Verification(<<>>, p, {})
<1>1. ASSUME NEW x  PROVE DOMAIN <<x>> = {1} /\ <<x>>[1] = x
  OBVIOUS
<1>2. \A h, p : Verification(Check(h), p, {}) /\ Verification(Connect(h), p, {})
  BY <1>1, OneStep DEF Verification, Distinct, Check, Connect, IsCall
<1>3. ASSUME NEW to, NEW p, NEW h  PROVE Verification(Ask(to, p, h), p, {to})
  <2>1. /\ DOMAIN Ask(to, p, h) = {1} /\ IsSeq(Ask(to, p, h))
        /\ Ask(to, p, h)[1].call = Call(to, p)
    BY <1>1, OneStep DEF Ask
  <2>2. Call(to, p).for = p /\ Call(to, p).to = to
    BY DEF Call
  <2> QED  BY <2>1, <2>2 DEF Verification, Distinct
<1>4. \A p : Verification(<<>>, p, {})
  BY OneStep DEF Verification, Distinct
<1> QED  BY <1>2, <1>3, <1>4

\* Who has come to the second of two verifications has passed the first.
LEMMA OneAfterAnother ==
    ASSUME NEW a, NEW b, NEW p, NEW S, NEW T, S \cap T = {},
           Verification(a, p, S), Verification(b, p, T)
    PROVE  /\ Verification(a \o b, p, S \cup T)
           /\ \A done : Through(a \o b, done) => Through(a, done) /\ Through(b, done)
           /\ \A done, c : At(a \o b, c, done) =>
                  At(a, c, done) \/ (Through(a, done) /\ At(b, c, done))
<1> DEFINE m == Len(a)  n == Len(b)  s == a \o b
<1>1. /\ m \in Nat /\ DOMAIN a = 1..m /\ DOMAIN b = 1..n /\ n \in Nat
      /\ DOMAIN s = 1..(m + n)
      /\ \A k \in DOMAIN a : s[k] = a[k]
      /\ \A k \in DOMAIN b : s[k + m] = b[k]
  BY Concatenation DEF Verification
<1>2. IsSeq(s)
  BY Joining DEF Verification
<1> HIDE DEF m, n, s
<1>3. \A k \in DOMAIN s : k \in DOMAIN a \/ (k - m \in DOMAIN b /\ k = (k - m) + m)
  BY <1>1
<1>4. \A k \in DOMAIN s :
          \/ k \in DOMAIN a /\ s[k] = a[k]
          \/ k - m \in DOMAIN b /\ s[k] = b[k - m]
  BY <1>1, <1>3
<1>5. \A k \in DOMAIN s : IsCall(s[k]) => s[k].call.for = p /\ s[k].call.to \in S \cup T
  BY <1>4 DEF Verification
<1>6. ASSUME NEW j \in DOMAIN s, NEW k \in DOMAIN s, IsCall(s[j]), s[j].call = s[k].call
      PROVE  j = k
  <2>1. IsCall(s[k])
    BY <1>6 DEF IsCall
  <2>2. CASE j \in DOMAIN a /\ k \in DOMAIN a
    BY <1>1, <1>6, <2>2 DEF Verification, Distinct
  <2>3. CASE j - m \in DOMAIN b /\ k - m \in DOMAIN b
    <3>1. s[j] = b[j - m] /\ s[k] = b[k - m]
      BY <1>1, <1>3, <1>4, <2>3
    <3>2. j - m = k - m
      BY <1>6, <2>3, <3>1 DEF Verification, Distinct
    <3> QED  BY <1>1, <3>2
  <2>4. CASE j \in DOMAIN a /\ k - m \in DOMAIN b
    <3>1. s[j] = a[j] /\ s[k] = b[k - m]
      BY <1>1, <1>3, <2>4
    <3> QED  BY <1>6, <2>1, <2>4, <3>1 DEF Verification
  <2>5. CASE j - m \in DOMAIN b /\ k \in DOMAIN a
    <3>1. s[j] = b[j - m] /\ s[k] = a[k]
      BY <1>1, <1>3, <2>5
    <3> QED  BY <1>6, <2>1, <2>5, <3>1 DEF Verification
  <2> QED  BY <1>3, <2>2, <2>3, <2>4, <2>5
<1>7. Verification(s, p, S \cup T)
  BY <1>2, <1>5, <1>6 DEF Verification, Distinct
<1>8. ASSUME NEW done, Through(s, done)
      PROVE  Through(a, done) /\ Through(b, done)
  <2>1. \A k \in DOMAIN a : k \in DOMAIN s /\ s[k] = a[k]
    BY <1>1
  <2>2. \A k \in DOMAIN b : k + m \in DOMAIN s /\ s[k + m] = b[k]
    BY <1>1
  <2> QED  BY <1>8, <2>1, <2>2 DEF Through
<1>9. ASSUME NEW done, NEW c, At(s, c, done)
      PROVE  At(a, c, done) \/ (Through(a, done) /\ At(b, c, done))
  <2>1. PICK j \in DOMAIN s : s[j].call = c /\ IsCall(s[j]) /\ Behind(s, j, done)
    BY <1>9 DEF At
  <2>2. CASE j \in DOMAIN a
    <3>1. Behind(a, j, done)
      BY <1>1, <2>1, <2>2 DEF Behind
    <3> QED  BY <1>1, <2>1, <2>2, <3>1 DEF At
  <2>3. CASE j - m \in DOMAIN b
    <3>1. \A k \in DOMAIN a : k < j /\ k \in DOMAIN s /\ s[k] = a[k]
      BY <1>1, <2>3
    <3>2. Through(a, done)
      BY <2>1, <3>1 DEF Behind, Through
    <3>3. \A k \in DOMAIN b : k < j - m => k + m < j /\ k + m \in DOMAIN s /\ s[k + m] = b[k]
      BY <1>1, <2>3
    <3>4. Behind(b, j - m, done)
      BY <2>1, <3>3 DEF Behind
    <3> QED  BY <1>1, <1>3, <2>1, <2>3, <3>2, <3>4 DEF At
  <2> QED  BY <1>3, <2>2, <2>3
<1> QED  BY <1>7, <1>8, <1>9 DEF s

\* Verifications of different parties concatenate to one of all of them.
LEMMA Chain ==
    /\ \A a, b, p, S, T : Verification(a, p, S) /\ Verification(b, p, T) /\ S \cap T = {}
                              => Verification(a \o b, p, S \cup T)
    /\ \A a, b, p, S : Verification(a, p, S) /\ Verification(b, p, {})
                              => Verification(a \o b, p, S) /\ Verification(b \o a, p, S)
    /\ \A a, p, S, T : Verification(a, p, S) /\ S \subseteq T => Verification(a, p, T)
<1>1. \A S : S \cup {} = S /\ {} \cup S = S /\ S \cap {} = {} /\ {} \cap S = {}
  OBVIOUS
<1>2. \A a, p, S, T : Verification(a, p, S) /\ S \subseteq T => Verification(a, p, T)
  BY DEF Verification
<1> QED  BY <1>1, <1>2, OneAfterAnother

\* Each SDK asks the caller's verifier and then its policy.
LEMMA CallersVerifier ==
    ASSUME NEW p, NEW verifier, NEW policy, NEW releases, NEW accepts
    PROVE  Verification((IF verifier THEN Ask("verifier", p, releases) ELSE <<>>)
                            \o (IF policy THEN Ask("policy", p, accepts) ELSE <<>>),
                        p, {"verifier"} \cup {"policy"})
<1>1. Verification(IF verifier THEN Ask("verifier", p, releases) ELSE <<>>, p, {"verifier"})
  BY Plain, Chain
<1>2. Verification(IF policy THEN Ask("policy", p, accepts) ELSE <<>>, p, {"policy"})
  BY Plain, Chain
<1> QED  BY <1>1, <1>2, Chain

Parties == {"intel", "manager", "verifier", "policy", "nvidia"}

\* The verification of a report asks each party at most once.
LEMMA RustVerification ==
    ASSUME NEW i, NEW p
    PROVE  Verification(Rust!ReportSteps(i, p), p, Parties)
<1> USE Plain, Chain, RustSteps
<1>1. ASSUME NEW r, NEW o, NEW fingerprint
      PROVE  Verification(Rust!VerifyModelWithTls(r, p, o, fingerprint), p, Parties)
  <2>1. Verification(Rust!VerifyDstackQuote(r, p, o), p, {"intel"})
    BY DEF Rust!VerifyDstackQuote, Rust!VerifyTdxQuotePolicy
  <2>2. \A m, compose : Verification(Rust!VerifyComposeManager(m, p, compose, o), p, {"manager"})
    BY DEF Rust!VerifyComposeManager, Rust!VerifyTdxQuotePolicy
  <2>3. Verification(Rust!VerifyDstackDeployment(r), p, {})
    BY DEF Rust!VerifyDstackDeployment
  <2>4. Verification(Rust!RunDeploymentVerifier(r, p, o.verifier, o.policy), p,
                     {"verifier"} \cup {"policy"})
    BY CallersVerifier, RustSteps DEF Rust!RunDeploymentVerifier
  <2>5. Verification(Rust!VerifyGpuEvidence(r.gpu, p, o), p, {"nvidia"})
    BY DEF Rust!VerifyGpuEvidence
  <2> DEFINE q == Rust!VerifyDstackQuote(r, p, o)
             b == Rust!Check(IF fingerprint = "none" THEN Rust!VerifyReportDataBinding(r)
                             ELSE Rust!VerifyReportDataBindingWithTls(r, fingerprint))
             m == IF r.manager = <<>> THEN <<>>
                  ELSE Rust!VerifyComposeManager(r.manager[1], p, r.compose, o)
             d == Rust!VerifyDstackDeployment(r)
             v == Rust!RunDeploymentVerifier(r, p, o.verifier, o.policy)
             g == Rust!VerifyGpuEvidence(r.gpu, p, o)
             k == Rust!Check(Rust!VerifySigningPublicKey(r))
  <2>6. Rust!VerifyModelWithTls(r, p, o, fingerprint) = q \o b \o m \o d \o v \o g \o k
    BY DEF Rust!VerifyModelWithTls
  <2>7. Verification(b, p, {}) /\ Verification(k, p, {})
    BY Plain, RustSteps
  <2>8. Verification(m, p, {"manager"})
    BY <2>2, Plain, Chain
  <2> HIDE DEF q, b, m, d, v, g, k
  <2>9. Verification(q \o b \o m, p, {"intel"} \cup {"manager"})
    BY <2>1, <2>7, <2>8 DEF q
  <2>10. Verification(q \o b \o m \o d, p, {"intel"} \cup {"manager"})
    BY <2>3, <2>9 DEF d
  <2>11. Verification(q \o b \o m \o d \o v, p,
                      {"intel"} \cup {"manager"} \cup ({"verifier"} \cup {"policy"}))
    BY <2>4, <2>10 DEF v
  <2>12. Verification(q \o b \o m \o d \o v \o g, p,
                      {"intel"} \cup {"manager"} \cup ({"verifier"} \cup {"policy"}) \cup {"nvidia"})
    BY <2>5, <2>11 DEF g
  <2> QED  BY <2>6, <2>7, <2>12 DEF Parties
<1> QED  BY <1>1 DEF Rust!ReportSteps

\* So does a track; GPU evidence is a track of its own.
LEMMA JsVerification ==
    ASSUME NEW i, NEW t
    PROVE  Verification(Js!track(i, t), t[1], IF t[2] = "cpu" THEN Parties \ {"nvidia"} ELSE {"nvidia"})
<1> USE Plain, Chain, JsSteps
<1>1. ASSUME NEW r, NEW p, NEW o
      PROVE  Verification(Js!verifyCpu(r, p, o), p, Parties \ {"nvidia"})
  <2>1. /\ \A nonce : Verification(Js!verifyReportedNonce(nonce), p, {})
        /\ \A echo, quote : Verification(Js!verifyAdvertisedReportData(echo, quote), p, {})
        /\ \A quote : Verification(Js!verifyQuoteReportDataNonce(quote), p, {})
        /\ \A compose, quote : Verification(Js!verifyAppComposeMrConfigBinding(compose, quote), p, {})
        /\ Verification(Js!verifySigningPublicKey(r), p, {})
    BY DEF Js!verifyReportedNonce, Js!verifyAdvertisedReportData, Js!verifyQuoteReportDataNonce,
           Js!verifyAppComposeMrConfigBinding, Js!verifySigningPublicKey
  <2>2. \A log, quote : Verification(Js!verifyAndReplayRtmr3(log, quote), p, {})
    BY DEF Js!verifyAndReplayRtmr3
  <2>3. \A to, quote : Verification(Js!verifyTdxQuote(to, p, quote, o), p, {to})
    BY DEF Js!verifyTdxQuote
  <2>4. Verification(Js!verifyDstackQuote(r, p, o), p, {"intel"})
    BY <2>1, <2>3 DEF Js!verifyDstackQuote
  <2>5. \A m, compose : Verification(Js!verifyComposeManagerAttestation(m, p, compose, o), p, {"manager"})
    BY <2>1, <2>2, <2>3 DEF Js!verifyComposeManagerAttestation
  <2>6. Verification(Js!verifyDstackDeployment(r), p, {})
    BY <2>1, <2>2 DEF Js!verifyDstackDeployment
  <2>7. Verification(Js!runDeploymentVerifier(r, p, o.verifier, o.policy), p,
                     {"verifier"} \cup {"policy"})
    BY CallersVerifier, JsSteps DEF Js!runDeploymentVerifier
  <2>8. Verification(IF o.direct /\ r.fingerprint # "none"
                     THEN Js!verifyReportDataBindingWithTlsFingerprint(r)
                     ELSE Js!verifyReportDataBinding(r), p, {})
    BY <2>1 DEF Js!verifyReportDataBinding, Js!verifyReportDataBindingWithTlsFingerprint
  <2>9. Verification(Js!verifyModelDeployment(r, p, o), p,
                     {"manager"} \cup ({"verifier"} \cup {"policy"}))
    <3> DEFINE m == IF r.manager = <<>> THEN <<>>
                    ELSE Js!verifyComposeManagerAttestation(r.manager[1], p, r.compose, o)
               d == Js!verifyDstackDeployment(r)
               v == Js!runDeploymentVerifier(r, p, o.verifier, o.policy)
               k == Js!verifySigningPublicKey(r)
    <3>1. Js!verifyModelDeployment(r, p, o) = m \o d \o v \o k
      BY DEF Js!verifyModelDeployment
    <3>2. Verification(m, p, {"manager"})
      BY <2>5, Plain, Chain
    <3> HIDE DEF m, d, v, k
    <3>3. Verification(m \o d, p, {"manager"})
      BY <2>6, <3>2 DEF d
    <3>4. Verification(m \o d \o v, p, {"manager"} \cup ({"verifier"} \cup {"policy"}))
      BY <2>7, <3>3 DEF v
    <3> QED  BY <2>1, <3>1, <3>4 DEF k
  <2>10. Verification(Js!verifyCpu(r, p, o), p,
                      {"intel"} \cup ({"manager"} \cup ({"verifier"} \cup {"policy"})))
    <3> DEFINE q == Js!verifyDstackQuote(r, p, o)
               b == IF o.direct /\ r.fingerprint # "none"
                    THEN Js!verifyReportDataBindingWithTlsFingerprint(r)
                    ELSE Js!verifyReportDataBinding(r)
               d == Js!verifyModelDeployment(r, p, o)
    <3>1. Js!verifyCpu(r, p, o) = q \o b \o d
      BY DEF Js!verifyCpu
    <3> HIDE DEF q, b, d
    <3>2. Verification(q \o b, p, {"intel"})
      BY <2>4, <2>8 DEF q, b
    <3> QED  BY <2>9, <3>1, <3>2 DEF d
  <2> QED  BY <2>10 DEF Parties
<1>2. ASSUME NEW r, NEW p, NEW o  PROVE Verification(Js!verifyGpuEvidence(r, p, o), p, {"nvidia"})
  BY DEF Js!verifyGpuEvidence, Js!verifyReportedNonce
<1> QED  BY <1>1, <1>2 DEF Js!track

\* So does a track; GPU evidence is a track of its own.
LEMMA PyVerification ==
    ASSUME NEW i, NEW kind, NEW p
    PROVE  Verification(Py!StepsIn(i, kind, p), p,
                        IF kind = "cpu" THEN Parties \ {"nvidia"} ELSE {"nvidia"})
<1> USE Plain, Chain, PySteps
<1>1. ASSUME NEW r, NEW o
      PROVE  Verification(Py!verify_cpu(r, p, o), p, Parties \ {"nvidia"})
  <2>1. \A to, quote : Verification(Py!verify_tdx_quote(to, p, quote, o), p, {to})
    BY DEF Py!verify_tdx_quote
  <2>2. Verification(Py!verify_dstack_quote(r, p, o), p, {"intel"})
    BY <2>1 DEF Py!verify_dstack_quote
  <2>3. \A m, compose : Verification(Py!verify_compose_manager_attestation(m, p, compose, o), p, {"manager"})
    BY <2>1 DEF Py!verify_compose_manager_attestation
  <2>4. Verification(Py!verify_dstack_deployment(r), p, {})
    BY DEF Py!verify_dstack_deployment
  <2>5. Verification(Py!run_deployment_verifier(r, p, o.verifier, o.policy), p,
                     {"verifier"} \cup {"policy"})
    BY CallersVerifier, PySteps DEF Py!run_deployment_verifier
  <2>6. Verification(Py!verify_model_deployment(r, p, o), p,
                     {"manager"} \cup ({"verifier"} \cup {"policy"}))
    <3> DEFINE m == IF r.manager = <<>> THEN <<>>
                    ELSE Py!verify_compose_manager_attestation(r.manager[1], p, r.compose, o)
               d == Py!verify_dstack_deployment(r)
               v == Py!run_deployment_verifier(r, p, o.verifier, o.policy)
    <3>1. Py!verify_model_deployment(r, p, o) = m \o d \o v
      BY DEF Py!verify_model_deployment
    <3>2. Verification(m, p, {"manager"})
      BY <2>3, Plain, Chain
    <3> HIDE DEF m, d, v
    <3>3. Verification(m \o d, p, {"manager"})
      BY <2>4, <3>2 DEF d
    <3> QED  BY <2>5, <3>1, <3>3 DEF v
  <2>7. Verification(Py!verify_cpu(r, p, o), p,
                     {"intel"} \cup ({"manager"} \cup ({"verifier"} \cup {"policy"})))
    <3> DEFINE q == Py!verify_dstack_quote(r, p, o)
               b == Py!Check(IF o.direct /\ r.fingerprint # "none"
                             THEN Py!verify_report_data_binding_with_tls_fingerprint(r)
                             ELSE Py!verify_report_data_binding(r))
               d == Py!verify_model_deployment(r, p, o)
    <3>1. Py!verify_cpu(r, p, o) = q \o b \o d
      BY DEF Py!verify_cpu
    <3>2. Verification(b, p, {})
      BY Plain, PySteps
    <3> HIDE DEF q, b, d
    <3>3. Verification(q \o b, p, {"intel"})
      BY <2>2, <3>2 DEF q
    <3> QED  BY <2>6, <3>1, <3>3 DEF d
  <2> QED  BY <2>7 DEF Parties
<1>2. ASSUME NEW r, NEW o  PROVE Verification(Py!verify_gpu_evidence(r, p, o), p, {"nvidia"})
  BY DEF Py!verify_gpu_evidence
<1> QED  BY <1>1, <1>2 DEF Py!StepsIn

-----------------------------------------------------------------------------
(* The API key. *)

\* Whom a verification asks, and about which report.
LEMMA Addressee ==
    ASSUME NEW steps, NEW p, NEW S, Verification(steps, p, S), NEW c, NEW done, At(steps, c, done)
    PROVE  c.for = p /\ c.to \in S
BY DEF Verification, At

LEMMA Associative ==
    ASSUME NEW a, NEW b, NEW c, IsSeq(a), IsSeq(b), IsSeq(c)
    PROVE  (a \o b) \o c = a \o (b \o c)
<1> DEFINE S == {a[k] : k \in DOMAIN a} \cup {b[k] : k \in DOMAIN b} \cup {c[k] : k \in DOMAIN c}
<1>1. a \in Seq(S) /\ b \in Seq(S) /\ c \in Seq(S)
  <2>1. /\ {a[k] : k \in DOMAIN a} \subseteq S /\ {b[k] : k \in DOMAIN b} \subseteq S
        /\ {c[k] : k \in DOMAIN c} \subseteq S
    OBVIOUS
  <2> QED  BY <2>1, SeqMonotonic DEF IsSeq
<1> HIDE DEF S
<1> QED  BY <1>1, ConcatAssociative

\* Through both of two verifications.
LEMMA ThroughBoth ==
    ASSUME NEW a, NEW b, IsSeq(a), IsSeq(b), NEW done, Through(a \o b, done)
    PROVE  Through(a, done) /\ Through(b, done)
<1> DEFINE m == Len(a)  s == a \o b
<1>1. /\ \A k \in DOMAIN a : k \in DOMAIN s /\ s[k] = a[k]
      /\ \A k \in DOMAIN b : k + m \in DOMAIN s /\ s[k + m] = b[k]
  BY Concatenation
<1> HIDE DEF m, s
<1> QED  BY <1>1 DEF Through, s

\* What is asked with the API key.
Keyed == {"catalog"} \cup {"reports"}

\* A keyed request comes after all that precedes it.
LEMMA KeyComesLate ==
    ASSUME NEW first, NEW S, Verification(first, 0, S), S \cap Keyed = {},
           NEW pin, Verification(pin, 0, {}),
           NEW ask, Verification(ask, 0, {"catalog"}),
           NEW rest, Verification(rest, 0, {"reports"})
    PROVE  LET all == first \o (pin \o ask \o rest)
           IN /\ Verification(all, 0, S \cup Keyed)
              /\ \A c, done : At(all, c, done) /\ c.to \in Keyed =>
                     Through(first, done) /\ Through(pin, done)
<1> DEFINE then == pin \o ask \o rest
           all == first \o then
<1>1. Verification(pin \o ask, 0, {"catalog"})
  BY Chain
<1>2. Verification(then, 0, Keyed)
  BY <1>1, Chain DEF Keyed
<1>3. Verification(all, 0, S \cup Keyed)
  BY <1>2, Chain
<1>4. ASSUME NEW c, NEW done, At(all, c, done), c.to \in Keyed
      PROVE  Through(first, done) /\ Through(pin, done)
  <2>1. Through(first, done) /\ At(then, c, done)
    BY <1>2, <1>4, OneAfterAnother, Addressee
  <2>2. At(pin \o ask, c, done) \/ Through(pin \o ask, done)
    <3>1. {"catalog"} \cap {"reports"} = {}
      OBVIOUS
    <3> QED  BY <1>1, <2>1, <3>1, OneAfterAnother
  <2>3. {} \cap {"catalog"} = {}
    OBVIOUS
  <2>4. At(pin \o ask, c, done) => At(pin, c, done) \/ Through(pin, done)
    BY <2>3, OneAfterAnother
  <2>5. ~At(pin, c, done)
    BY Addressee
  <2>6. Through(pin \o ask, done) => Through(pin, done)
    BY <2>3, OneAfterAnother
  <2> QED  BY <2>1, <2>2, <2>4, <2>5, <2>6
<1> QED  BY <1>3, <1>4

Gatekeepers == {"evidence"} \cup ({"intel"} \cup ({"verifier"} \cup {"policy"}))

\* A Rust client asks with the key only behind the Gateway's verification.
LEMMA RustPrologue ==
    ASSUME NEW i
    PROVE  /\ Verification(Rust!Prologue(i), 0, Gatekeepers \cup Keyed)
           /\ \A c, done : At(Rust!Prologue(i), c, done) /\ c.to \in Keyed =>
                  /\ Through(Rust!FetchGatewayAttestation(Rust!GatewayOf(i), i.o), done)
                  /\ Through(Rust!VerifyGatewayAttestation(Rust!GatewayOf(i), i.o), done)
                  /\ Through(Rust!PinnedTo(i), done)
<1> DEFINE r == Rust!GatewayOf(i)
           f == Rust!FetchGatewayAttestation(r, i.o)
           v == Rust!VerifyGatewayAttestation(r, i.o)
           k == Rust!Check(r.algo = i.o.algo)
           o == Rust!OhttpSteps(i, r)
           pin == Rust!PinnedTo(i)
           ask == Rust!Ask("catalog", 0, TRUE)
           n == Rust!When(~i.vllm, Rust!Check(~(i.o.e2ee \/ i.o.verifier \/ i.o.policy
                                                 \/ Rust!ModelPolicy(i.o))))
           w == Rust!When(i.vllm, pin \o Rust!FetchModelAttestations(i)
                                      \o Rust!Check(Rust!Reports(i) # {}))
<1>1. Rust!GatewaySteps(i) = f \o v \o k \o o \o (pin \o ask \o n) \o w
  BY DEF Rust!GatewaySteps, Rust!ModelMetadata
<1>2. Verification(f, 0, {"evidence"})
  BY Plain, Chain, RustSteps DEF Rust!FetchGatewayAttestation
<1>3. Verification(v, 0, {"intel"} \cup ({"verifier"} \cup {"policy"}))
  <2>1. Verification(Rust!VerifyDstackQuote(r, 0, i.o), 0, {"intel"})
    BY Plain, Chain, RustSteps DEF Rust!VerifyDstackQuote, Rust!VerifyTdxQuotePolicy
  <2>2. Verification(Rust!VerifyDstackDeployment(r), 0, {})
    BY Plain, Chain, RustSteps DEF Rust!VerifyDstackDeployment
  <2>3. Verification(Rust!RunDeploymentVerifier(r, 0, i.o.gatewayVerifier, FALSE), 0,
                     {"verifier"} \cup {"policy"})
    BY CallersVerifier, RustSteps DEF Rust!RunDeploymentVerifier
  <2> QED  BY <2>1, <2>2, <2>3, Plain, Chain, RustSteps DEF Rust!VerifyGatewayAttestation
<1>4. Verification(k, 0, {}) /\ Verification(pin, 0, {}) /\ Verification(ask, 0, {"catalog"})
  BY Plain, RustSteps DEF Rust!PinnedTo
<1>5. Verification(o, 0, {})
  BY Plain, Chain, RustSteps DEF Rust!OhttpSteps
<1>6. Verification(n, 0, {})
  BY Plain, RustSteps
<1>7. Verification(w, 0, {"reports"})
  <2>1. Verification(Rust!FetchModelAttestations(i), 0, {"reports"})
    BY Plain, Chain, RustSteps DEF Rust!FetchModelAttestations
  <2> HIDE DEF pin
  <2>2. Verification(pin \o Rust!FetchModelAttestations(i) \o Rust!Check(Rust!Reports(i) # {}),
                     0, {"reports"})
    BY <1>4, <2>1, Plain, Chain, RustSteps
  <2> QED  BY <2>2, Plain, Chain, RustSteps
<1>8. Verification(Rust!FetchDirectModelAttestations(i), 0, {"evidence"})
  BY Plain, Chain, RustSteps DEF Rust!FetchDirectModelAttestations
<1> HIDE DEF f, v, k, o, pin, ask, n, w
<1> DEFINE first == f \o v \o k \o o
<1>9. Verification(f \o v, 0, Gatekeepers)
  BY <1>2, <1>3, Chain DEF Gatekeepers
<1>10. Verification(first, 0, Gatekeepers)
  BY <1>4, <1>5, <1>9, Chain
<1>11. Verification(n \o w, 0, {"reports"})
  BY <1>6, <1>7, Chain
<1>12. Gatekeepers \cap Keyed = {}
  BY DEF Gatekeepers, Keyed
<1>13. Rust!GatewaySteps(i) = first \o (pin \o ask \o (n \o w))
  <2> HIDE DEF first
  <2>1. IsSeq(first) /\ IsSeq(pin) /\ IsSeq(ask) /\ IsSeq(n) /\ IsSeq(w)
    BY <1>4, <1>6, <1>7, <1>10 DEF Verification
  <2>2. IsSeq(pin \o ask) /\ IsSeq(pin \o ask \o n)
    BY <2>1, Joining
  <2> DEFINE x == pin \o ask
             y == x \o n
  <2>3. IsSeq(x) /\ IsSeq(y)
    BY <2>2
  <2>4. Rust!GatewaySteps(i) = (first \o y) \o w /\ y = x \o n
    BY <1>1 DEF first
  <2> HIDE DEF x, y
  <2>5. IsSeq(first) /\ IsSeq(y) /\ IsSeq(w)
    BY <2>1, <2>3
  <2>6. (first \o y) \o w = first \o (y \o w)
    BY ONLY <2>5, Associative
  <2>7. IsSeq(x) /\ IsSeq(n) /\ IsSeq(w)
    BY <2>1, <2>3
  <2>8. (x \o n) \o w = x \o (n \o w)
    BY ONLY <2>7, Associative
  <2> QED  BY <2>4, <2>6, <2>8 DEF x
<1>14. ASSUME NEW done, Through(first, done)
       PROVE  Through(f, done) /\ Through(v, done)
  <2>1. IsSeq(f) /\ IsSeq(v) /\ IsSeq(k) /\ IsSeq(o)
    BY <1>2, <1>3, <1>4, <1>5 DEF Verification
  <2>2. IsSeq(f \o v) /\ IsSeq(f \o v \o k)
    BY <2>1, Joining
  <2>3. Through(f \o v \o k, done)
    BY <1>14, <2>1, <2>2, ThroughBoth
  <2>4. Through(f \o v, done)
    BY <2>1, <2>2, <2>3, ThroughBoth
  <2> QED  BY <2>1, <2>4, ThroughBoth
<1>15. CASE i.o.direct
  <2>1. Verification(Rust!Prologue(i), 0, {"evidence"})
    BY <1>8, <1>15 DEF Rust!Prologue
  <2>2. ~("evidence" \in Keyed) /\ {"evidence"} \subseteq Gatekeepers \cup Keyed
    BY DEF Keyed, Gatekeepers
  <2> QED  BY <2>1, <2>2, Chain, Addressee
<1>16. CASE ~i.o.direct
  <2> HIDE DEF first
  <2>1. Rust!Prologue(i) = first \o (pin \o ask \o (n \o w))
    BY <1>13, <1>16 DEF Rust!Prologue
  <2>2. /\ Verification(first \o (pin \o ask \o (n \o w)), 0, Gatekeepers \cup Keyed)
        /\ \A c, done : At(first \o (pin \o ask \o (n \o w)), c, done) /\ c.to \in Keyed =>
               Through(first, done) /\ Through(pin, done)
    BY <1>4, <1>10, <1>11, <1>12, KeyComesLate
  <2> QED  BY <1>14, <2>1, <2>2 DEF f, v, pin, r
<1> QED  BY <1>15, <1>16

\* A JavaScript client asks with the key only behind the Gateway's verification.
LEMMA JsPrologue ==
    ASSUME NEW i
    PROVE  /\ Verification(Js!sequel(i), 0, Gatekeepers \cup Keyed)
           /\ \A c, done : At(Js!sequel(i), c, done) /\ c.to \in Keyed =>
                  /\ Through(Js!fetchGatewayAttestation(Js!GatewayOf(i), i.o), done)
                  /\ Through(Js!verifyGatewayAttestation(Js!GatewayOf(i), i.o), done)
                  /\ Through(Js!gatewayFetch(i), done)
<1> DEFINE r == Js!GatewayOf(i)
           f == Js!fetchGatewayAttestation(r, i.o)
           v == Js!verifyGatewayAttestation(r, i.o)
           k == Js!Check(r.algo = i.o.algo)
           o == Js!getOhttpKeyConfig(i, r)
           d == Js!createCompletionFetch(i, r)
           pin == Js!gatewayFetch(i)
           ask == Js!Ask("catalog", 0, TRUE)
           asksNothing == ~i.o.e2ee /\ ~i.o.policy /\ ~i.o.verifier /\ ~i.o.gpuRequired /\ i.o.tcb = {}
           w == IF i.vllm
                THEN Js!gatewayFetch(i) \o Js!fetchModelAttestations(i) \o Js!Check(i.models # <<>>)
                ELSE Js!Check(asksNothing)
           first == f \o v \o k \o o \o d
<1>1. ~i.o.direct => Js!sequel(i) = first \o (pin \o ask \o w)
  BY DEF Js!sequel, Js!fetchReports
<1>2. Verification(f, 0, {"evidence"})
  BY Plain, Chain, JsSteps DEF Js!fetchGatewayAttestation
<1>3. Verification(v, 0, {"intel"} \cup ({"verifier"} \cup {"policy"}))
  <2>1. Verification(Js!runDeploymentVerifier(r, 0, i.o.gatewayVerifier, FALSE), 0,
                     {"verifier"} \cup {"policy"})
    BY CallersVerifier, JsSteps DEF Js!runDeploymentVerifier
  <2> USE Plain, Chain, JsSteps
  <2>2. /\ \A nonce : Verification(Js!verifyReportedNonce(nonce), 0, {})
        /\ \A echo, quote : Verification(Js!verifyAdvertisedReportData(echo, quote), 0, {})
        /\ \A quote : Verification(Js!verifyQuoteReportDataNonce(quote), 0, {})
        /\ \A compose, quote : Verification(Js!verifyAppComposeMrConfigBinding(compose, quote), 0, {})
        /\ \A log, quote : Verification(Js!verifyAndReplayRtmr3(log, quote), 0, {})
    BY DEF Js!verifyReportedNonce, Js!verifyAdvertisedReportData, Js!verifyQuoteReportDataNonce,
           Js!verifyAppComposeMrConfigBinding, Js!verifyAndReplayRtmr3
  <2>3. Verification(Js!verifyDstackQuote(r, 0, i.o), 0, {"intel"})
    <3>1. Verification(Js!verifyTdxQuote("intel", 0, r.quote, i.o), 0, {"intel"})
      BY DEF Js!verifyTdxQuote
    <3> QED  BY <2>2, <3>1 DEF Js!verifyDstackQuote
  <2>4. Verification(Js!verifyDstackDeployment(r), 0, {})
    BY <2>2 DEF Js!verifyDstackDeployment
  <2>5. /\ Verification(Js!verifyReportDataBinding(r), 0, {})
        /\ Verification(Js!verifyReportDataBindingWithTlsFingerprint(r), 0, {})
    BY <2>2 DEF Js!verifyReportDataBinding, Js!verifyReportDataBindingWithTlsFingerprint
  <2> DEFINE q == Js!verifyDstackQuote(r, 0, i.o)
             b == IF r.fingerprint = "none" THEN Js!verifyReportDataBinding(r)
                  ELSE Js!Check(i.o.tls) \o Js!verifyReportDataBindingWithTlsFingerprint(r)
                           \o Js!Check(r.fingerprint = Js!Peer)
             e == Js!verifyDstackDeployment(r)
             u == Js!runDeploymentVerifier(r, 0, i.o.gatewayVerifier, FALSE)
  <2>6. v = q \o b \o e \o u
    BY DEF Js!verifyGatewayAttestation
  <2>7. Verification(b, 0, {})
    BY <2>5
  <2> HIDE DEF q, b, e, u
  <2>8. Verification(q \o b \o e, 0, {"intel"})
    BY <2>3, <2>4, <2>7 DEF q, e
  <2> HIDE DEF v
  <2> QED  BY <2>1, <2>6, <2>8 DEF u
<1>4. Verification(k, 0, {}) /\ Verification(pin, 0, {}) /\ Verification(ask, 0, {"catalog"})
  BY Plain, JsSteps DEF Js!gatewayFetch
<1>5. Verification(o, 0, {}) /\ Verification(d, 0, {})
  BY Plain, Chain, JsSteps DEF Js!getOhttpKeyConfig, Js!createCompletionFetch
<1>6. Verification(w, 0, {"reports"})
  <2>1. Verification(Js!fetchModelAttestations(i), 0, {"reports"})
    BY Plain, Chain, JsSteps DEF Js!fetchModelAttestations
  <2> HIDE DEF pin
  <2>2. Verification(pin \o Js!fetchModelAttestations(i) \o Js!Check(i.models # <<>>), 0, {"reports"})
    BY <1>4, <2>1, Plain, Chain, JsSteps
  <2>3. CASE i.vllm
    BY <2>2, <2>3 DEF pin
  <2>4. CASE ~i.vllm
    <3> HIDE DEF asksNothing
    <3>1. w = Check(asksNothing)
      BY <2>4, JsSteps
    <3>2. Verification(w, 0, {})
      BY <3>1, Plain
    <3> QED  BY <3>2, Chain
  <2> QED  BY <2>3, <2>4
<1>7. Verification(Js!fetchDirectModelAttestations(i), 0, {"evidence"})
  BY Plain, Chain, JsSteps DEF Js!fetchDirectModelAttestations
<1> HIDE DEF f, v, k, o, d, pin, ask, w
<1>8. Verification(f \o v, 0, Gatekeepers)
  BY <1>2, <1>3, Chain DEF Gatekeepers
<1>9. Verification(first, 0, Gatekeepers)
  BY <1>4, <1>5, <1>8, Chain
<1>10. Gatekeepers \cap Keyed = {}
  BY DEF Gatekeepers, Keyed
<1>11. ASSUME NEW done, Through(first, done)
       PROVE  Through(f, done) /\ Through(v, done)
  <2>1. IsSeq(f) /\ IsSeq(v) /\ IsSeq(k) /\ IsSeq(o) /\ IsSeq(d)
    BY <1>2, <1>3, <1>4, <1>5 DEF Verification
  <2>2. IsSeq(f \o v) /\ IsSeq(f \o v \o k) /\ IsSeq(f \o v \o k \o o)
    BY <2>1, Joining
  <2>3. Through(f \o v \o k \o o, done)
    BY <1>11, <2>1, <2>2, ThroughBoth
  <2>4. Through(f \o v \o k, done)
    BY <2>1, <2>2, <2>3, ThroughBoth
  <2>5. Through(f \o v, done)
    BY <2>1, <2>2, <2>4, ThroughBoth
  <2> QED  BY <2>1, <2>5, ThroughBoth
<1>12. CASE i.o.direct
  <2>1. Verification(Js!sequel(i), 0, {"evidence"})
    BY <1>7, <1>12 DEF Js!sequel
  <2>2. ~("evidence" \in Keyed) /\ {"evidence"} \subseteq Gatekeepers \cup Keyed
    BY DEF Keyed, Gatekeepers
  <2> QED  BY <2>1, <2>2, Chain, Addressee
<1>13. CASE ~i.o.direct
  <2> HIDE DEF first
  <2>1. /\ Verification(first \o (pin \o ask \o w), 0, Gatekeepers \cup Keyed)
        /\ \A c, done : At(first \o (pin \o ask \o w), c, done) /\ c.to \in Keyed =>
               Through(first, done) /\ Through(pin, done)
    BY <1>4, <1>6, <1>9, <1>10, KeyComesLate
  <2> QED  BY <1>1, <1>11, <1>13, <2>1 DEF f, v, pin, r
<1> QED  BY <1>12, <1>13

\* A Python client asks with the key only behind the Gateway's verification.
LEMMA PyPrologue ==
    ASSUME NEW i
    PROVE  /\ Verification(Py!prologue(i), 0, Gatekeepers \cup Keyed)
           /\ \A c, done : At(Py!prologue(i), c, done) /\ c.to \in Keyed =>
                  /\ Through(Py!fetch_gateway_attestation(Py!GatewayOf(i), i.o), done)
                  /\ Through(Py!verify_gateway(i), done)
                  /\ Through(Py!pinned(i), done)
<1> DEFINE r == Py!GatewayOf(i)
           f == Py!fetch_gateway_attestation(r, i.o)
           v == Py!verify_gateway(i)
           d == Py!completion_client(i, r)
           pin == Py!pinned(i)
           ask == Py!Ask("catalog", 0, TRUE)
           w == IF i.vllm
                THEN Py!pinned(i) \o Py!fetch_model_attestations(i) \o Py!Check(Py!Reports(i) # {})
                ELSE Py!Check(~(i.o.e2ee \/ i.o.policy \/ Py!model_policy(i.o) \/ i.o.verifier))
           first == f \o v \o d
<1>1. ~i.o.direct => Py!prologue(i) = first \o (pin \o ask \o w)
  BY DEF Py!prologue, Py!fetch_models
<1>2. Verification(f, 0, {"evidence"})
  BY Plain, Chain, PySteps DEF Py!fetch_gateway_attestation
<1>3. Verification(v, 0, {"intel"} \cup ({"verifier"} \cup {"policy"}))
  <2>1. Verification(Py!run_deployment_verifier(r, 0, i.o.gatewayVerifier, FALSE), 0,
                     {"verifier"} \cup {"policy"})
    BY CallersVerifier, PySteps DEF Py!run_deployment_verifier
  <2> USE Plain, Chain, PySteps
  <2>2. Verification(Py!verify_dstack_quote(r, 0, i.o), 0, {"intel"})
    BY DEF Py!verify_dstack_quote, Py!verify_tdx_quote
  <2>3. Verification(Py!verify_dstack_deployment(r), 0, {})
    BY DEF Py!verify_dstack_deployment
  <2> DEFINE q == Py!verify_dstack_quote(r, 0, i.o)
             b == IF r.fingerprint = "none" THEN Py!Check(Py!verify_report_data_binding(r))
                  ELSE Py!Check(i.o.tls)
                           \o Py!Check(Py!verify_report_data_binding_with_tls_fingerprint(r))
                           \o Py!Check(r.fingerprint = Py!Peer)
             e == Py!verify_dstack_deployment(r)
             u == Py!run_deployment_verifier(r, 0, i.o.gatewayVerifier, FALSE)
             k == Py!Check(r.algo = i.o.algo)
             o == Py!verify_ohttp_key_config(i, r)
  <2>4. v = (q \o b \o e \o u) \o k \o o
    BY DEF Py!verify_gateway, Py!verify_gateway_attestation
  <2>5. Verification(b, 0, {}) /\ Verification(k, 0, {})
    BY Plain, Chain, PySteps
  <2>6. Verification(o, 0, {})
    BY DEF Py!verify_ohttp_key_config
  <2> HIDE DEF q, b, e, u, k, o
  <2>7. Verification(q \o b \o e, 0, {"intel"})
    BY <2>2, <2>3, <2>5 DEF q, e
  <2>8. Verification(q \o b \o e \o u, 0, {"intel"} \cup ({"verifier"} \cup {"policy"}))
    BY <2>1, <2>7 DEF u
  <2> HIDE DEF v
  <2> QED  BY <2>4, <2>5, <2>6, <2>8
<1>4. Verification(pin, 0, {}) /\ Verification(ask, 0, {"catalog"})
  BY Plain, PySteps DEF Py!pinned
<1>5. Verification(d, 0, {})
  BY Plain, PySteps DEF Py!completion_client
<1>6. Verification(w, 0, {"reports"})
  <2>1. Verification(Py!fetch_model_attestations(i), 0, {"reports"})
    BY Plain, Chain, PySteps DEF Py!fetch_model_attestations
  <2> HIDE DEF pin
  <2>2. Verification(pin \o Py!fetch_model_attestations(i) \o Py!Check(Py!Reports(i) # {}), 0,
                     {"reports"})
    BY <1>4, <2>1, Plain, Chain, PySteps
  <2> QED  BY <2>2, Plain, Chain, PySteps DEF pin
<1>7. Verification(Py!fetch_direct_attestations(i), 0, {"evidence"})
  BY Plain, Chain, PySteps DEF Py!fetch_direct_attestations
<1> HIDE DEF f, v, d, pin, ask, w
<1>8. Verification(f \o v, 0, Gatekeepers)
  BY <1>2, <1>3, Chain DEF Gatekeepers
<1>9. Verification(first, 0, Gatekeepers)
  BY <1>5, <1>8, Chain
<1>10. Gatekeepers \cap Keyed = {}
  BY DEF Gatekeepers, Keyed
<1>11. ASSUME NEW done, Through(first, done)
       PROVE  Through(f, done) /\ Through(v, done)
  <2>1. IsSeq(f) /\ IsSeq(v) /\ IsSeq(d) /\ IsSeq(f \o v)
    BY <1>2, <1>3, <1>5, Joining DEF Verification
  <2>2. Through(f \o v, done)
    BY <1>11, <2>1, ThroughBoth
  <2> QED  BY <2>1, <2>2, ThroughBoth
<1>12. CASE i.o.direct
  <2>1. Verification(Py!prologue(i), 0, {"evidence"})
    BY <1>7, <1>12 DEF Py!prologue
  <2>2. ~("evidence" \in Keyed) /\ {"evidence"} \subseteq Gatekeepers \cup Keyed
    BY DEF Keyed, Gatekeepers
  <2> QED  BY <2>1, <2>2, Chain, Addressee
<1>13. CASE ~i.o.direct
  <2> HIDE DEF first
  <2>1. /\ Verification(first \o (pin \o ask \o w), 0, Gatekeepers \cup Keyed)
        /\ \A c, done : At(first \o (pin \o ask \o w), c, done) /\ c.to \in Keyed =>
               Through(first, done) /\ Through(pin, done)
    BY <1>4, <1>6, <1>9, <1>10, KeyComesLate
  <2> QED  BY <1>1, <1>11, <1>13, <2>1 DEF f, v, pin, r
<1> QED  BY <1>12, <1>13

-----------------------------------------------------------------------------
(* Rust: the reports are joined. *)

\* A place in a verification is one in any that continues it.
LEMMA StartsWith ==
    /\ \A a, b, c, done : IsSeq(a) /\ IsSeq(b) /\ At(a, c, done) => At(a \o b, c, done)
    /\ \A to, p, h : to # "nobody" => At(Ask(to, p, h), Call(to, p), {})
<1>1. ASSUME NEW a, NEW b, NEW c, NEW done, IsSeq(a), IsSeq(b), At(a, c, done)
      PROVE  At(a \o b, c, done)
  <2>1. PICK j \in DOMAIN a : a[j].call = c /\ IsCall(a[j]) /\ Behind(a, j, done)
    BY <1>1 DEF At
  <2> DEFINE s == a \o b
  <2>2. /\ \A k \in DOMAIN a : k \in DOMAIN s /\ s[k] = a[k]
        /\ \A k \in DOMAIN s : k < j => k \in DOMAIN a
    BY <1>1, <2>1, Concatenation
  <2> HIDE DEF s
  <2>3. Behind(s, j, done)
    BY <2>1, <2>2 DEF Behind
  <2>4. At(s, c, done)
    BY <2>1, <2>2, <2>3 DEF At
  <2> QED  BY <2>4 DEF s
<1>2. ASSUME NEW to, NEW p, NEW h, to # "nobody"  PROVE At(Ask(to, p, h), Call(to, p), {})
  <2>1. DOMAIN Ask(to, p, h) = {1} /\ Ask(to, p, h)[1].call = Call(to, p)
    BY DEF Ask
  <2>2. Call(to, p) # NoCall
    BY <1>2 DEF Call, NoCall
  <2> QED  BY <2>1, <2>2 DEF At, Behind, IsCall
<1> QED  BY <1>1, <1>2

\* A verification that asks nobody ends at once.
LEMMA OnlyChecks ==
    ASSUME NEW steps, Verification(steps, 0, {}), NEW done, ~Fails(steps, HaltAfter(steps, 0))
    PROVE  Through(steps, done)
<1>1. ~Waits(steps, HaltAfter(steps, 0))
  BY DEF Waits, Verification
<1>2. Finished(steps, HaltAfter(steps, 0))
  BY <1>1 DEF Waits, Fails, Finished
<1> QED  BY <1>2, Begin DEF Verification

\* One call after another, none beside it.
Solo(steps) == \E c : inflight = {c} /\ At(steps, c, answered)

\* The first call fetches evidence, and nobody is asked in the end.
LEMMA RustBegins ==
    ASSUME NEW i
    PROVE  /\ At(Rust!Prologue(i), Call("evidence", 0), {})
           /\ Verification(Rust!Epilogue(i), 0, {})
<1> USE StartsWith, Joining, OneStep, RustSteps
<1>1. Verification(Rust!Epilogue(i), 0, {})
  BY Plain, Chain DEF Rust!Epilogue, Rust!OhttpSteps
<1>2. CASE i.o.direct
  <2>1. At(Rust!FetchDirectModelAttestations(i), Call("evidence", 0), {})
    BY DEF Rust!FetchDirectModelAttestations
  <2> QED  BY <1>1, <1>2, <2>1 DEF Rust!Prologue
<1>3. CASE ~i.o.direct
  <2> DEFINE f == Rust!FetchGatewayAttestation(Rust!GatewayOf(i), i.o)
             v == Rust!VerifyGatewayAttestation(Rust!GatewayOf(i), i.o)
             k == Rust!Check(Rust!GatewayOf(i).algo = i.o.algo)
             o == Rust!OhttpSteps(i, Rust!GatewayOf(i))
             m == Rust!ModelMetadata(i)
             w == Rust!When(i.vllm, Rust!PinnedTo(i) \o Rust!FetchModelAttestations(i)
                                        \o Rust!Check(Rust!Reports(i) # {}))
  <2>1. Rust!Prologue(i) = f \o v \o k \o o \o m \o w
    BY <1>3 DEF Rust!Prologue, Rust!GatewaySteps
  <2>2. IsSeq(f) /\ At(f, Call("evidence", 0), {})
    BY DEF Rust!FetchGatewayAttestation
  <2>3. IsSeq(v) /\ IsSeq(k) /\ IsSeq(o) /\ IsSeq(m) /\ IsSeq(w)
    <3>1. IsSeq(Rust!VerifyDstackQuote(Rust!GatewayOf(i), 0, i.o))
      BY DEF Rust!VerifyDstackQuote, Rust!VerifyTdxQuotePolicy
    <3>2. IsSeq(Rust!RunDeploymentVerifier(Rust!GatewayOf(i), 0, i.o.gatewayVerifier, FALSE))
      BY DEF Rust!RunDeploymentVerifier
    <3>3. IsSeq(v)
      BY <3>1, <3>2 DEF Rust!VerifyGatewayAttestation, Rust!VerifyDstackDeployment
    <3>4. IsSeq(o) /\ IsSeq(k) /\ IsSeq(m)
      BY DEF Rust!OhttpSteps, Rust!ModelMetadata, Rust!PinnedTo
    <3>5. IsSeq(w)
      BY DEF Rust!PinnedTo, Rust!FetchModelAttestations
    <3> QED  BY <3>3, <3>4, <3>5
  <2> HIDE DEF f, v, k, o, m, w
  <2>4. /\ IsSeq(f \o v) /\ IsSeq(f \o v \o k) /\ IsSeq(f \o v \o k \o o)
        /\ IsSeq(f \o v \o k \o o \o m)
    BY <2>2, <2>3
  <2>5. At(f \o v \o k, Call("evidence", 0), {})
    BY <2>2, <2>3, <2>4
  <2>6. At(f \o v \o k \o o \o m \o w, Call("evidence", 0), {})
    BY <2>3, <2>4, <2>5
  <2> QED  BY <1>1, <2>1, <2>6
<1> QED  BY <1>2, <1>3

RustReports == [p \in Rust!Joined(case) |-> Rust!ReportSteps(case, p)]

RustOrder ==
    /\ case \in Cases
    /\ outcome = "running" =>
           \/ Solo(Rust!Prologue(case))
           \/ /\ Through(Rust!Prologue(case), answered)
              /\ Spread(Rust!Joined(case), RustReports, {}, inflight, answered)
    /\ outcome # "running" => inflight = {}
    /\ outcome = "granted" =>
           /\ Through(Rust!Prologue(case), answered) /\ Through(Rust!Epilogue(case), answered)
           /\ \A p \in Rust!Joined(case) : Through(Rust!ReportSteps(case, p), answered)

\* The reports ask different calls.
LEMMA RustApart ==
    /\ DOMAIN RustReports = Rust!Joined(case)
    /\ \A p \in Rust!Joined(case) : RustReports[p] = Rust!ReportSteps(case, p)
    /\ Apart(Rust!Joined(case), RustReports)
    /\ case \in Cases => 0 \notin Rust!Joined(case)
<1>1. \A p \in Rust!Joined(case) : RustReports[p] = Rust!ReportSteps(case, p)
  BY DEF RustReports
<1>2. ASSUME NEW p \in Rust!Joined(case)
      PROVE  /\ IsSeq(RustReports[p]) /\ Distinct(RustReports[p])
             /\ \A c, done : At(RustReports[p], c, done) => c.for = p
  <2>1. Verification(RustReports[p], p, Parties)
    BY <1>1, RustVerification
  <2> QED  BY <2>1, Addressee DEF Verification
<1>3. Apart(Rust!Joined(case), RustReports)
  BY <1>2 DEF Apart
<1>4. case \in Cases => 0 \notin Rust!Joined(case)
  BY PreflightsAssumption DEF Rust!Joined, Rust!Reports, Reports
<1> QED  BY <1>1, <1>3, <1>4 DEF RustReports

\* Which verification a call belongs to.
LEMMA RustOwner ==
    ASSUME RustOrder, outcome = "running", NEW c \in inflight
    PROVE  \/ /\ c.for = 0 /\ inflight = {c} /\ At(Rust!Prologue(case), c, answered)
              /\ Rust!StepsOf(case, c) = Rust!Prologue(case)
           \/ /\ c.for # 0 /\ c.for \in Rust!Joined(case)
              /\ At(RustReports[c.for], c, answered)
              /\ Rust!StepsOf(case, c) = RustReports[c.for]
              /\ Through(Rust!Prologue(case), answered)
              /\ Spread(Rust!Joined(case), RustReports, {}, inflight, answered)
<1>1. CASE Solo(Rust!Prologue(case))
  <2>1. inflight = {c} /\ At(Rust!Prologue(case), c, answered)
    BY <1>1 DEF Solo
  <2>2. c.for = 0
    BY <2>1, RustPrologue, Addressee
  <2> QED  BY <2>1, <2>2 DEF Rust!StepsOf, Rust!InPrologue
<1>2. CASE /\ Through(Rust!Prologue(case), answered)
           /\ Spread(Rust!Joined(case), RustReports, {}, inflight, answered)
  <2>1. PICK p \in Rust!Joined(case) : At(RustReports[p], c, answered)
    BY <1>2 DEF Spread
  <2>2. c.for = p
    BY <2>1, RustApart, RustVerification, Addressee
  <2>3. p # 0
    BY <2>1, RustApart DEF RustOrder
  <2> QED  BY <1>2, <2>1, <2>2, <2>3, RustApart DEF Rust!StepsOf, Rust!InPrologue
<1> QED  BY <1>1, <1>2 DEF RustOrder

\* Every step of the Rust client keeps its verifications in order.
LEMMA RustInOrder ==
    ASSUME RustOrder, Rust!Next
    PROVE  RustOrder'
<1> USE RustSteps
<1>1. ASSUME NEW error, error \notin {"running", "granted"}, Rust!Fail(error)  PROVE RustOrder'
  BY <1>1 DEF Rust!Fail, RustOrder
<1>2. ASSUME NEW c \in inflight, Rust!Answer(c, Rust!StepsOf(case, c))  PROVE RustOrder'
  <2> DEFINE steps == Rust!StepsOf(case, c)
             here == PositionOf(steps, c)
             next == HaltAfter(steps, here)
             more == answered \cup {c}
             T == Rust!Joined(case)
             f == RustReports
  <2>1. outcome = "running" /\ case \in Cases
    BY DEF RustOrder
  <2>2. CASE Rust!Reject(c, steps)
    BY <1>1, <2>2, ErrorEnds DEF Rust!Reject
  <2>3. CASE Rust!Resume(c, steps) \/ Rust!Return(c, steps)
    <3>1. steps[here].ok /\ UNCHANGED case
      BY <2>3 DEF Rust!Resume, Rust!Return, Rust!JoinReports, Rust!Finish, Rust!Fail
    <3>2. T' = T /\ f' = f /\ Rust!Prologue(case)' = Rust!Prologue(case)
      BY <3>1 DEF RustReports
    <3>3. CASE /\ c.for = 0 /\ inflight = {c} /\ At(steps, c, answered)
               /\ steps = Rust!Prologue(case)
      <4>1. IsSeq(steps) /\ Distinct(steps)
        BY <3>3, RustPrologue DEF Verification
      <4>2. /\ Waits(steps, next) => At(steps, steps[next].call, more)
            /\ Finished(steps, next) => Through(steps, more)
        BY <3>1, <3>3, <4>1, StepForward
      <4>3. CASE Rust!Resume(c, steps)
        <5>1. /\ Waits(steps, next) /\ inflight' = (inflight \ {c}) \cup {steps[next].call}
              /\ answered' = more /\ UNCHANGED outcome
          BY <4>3 DEF Rust!Resume
        <5> HIDE DEF steps, here, next, more
        <5>2. inflight' = {steps[next].call}
          BY <3>3, <5>1
        <5>3. Solo(Rust!Prologue(case))'
          BY <3>2, <3>3, <4>2, <5>1, <5>2 DEF Solo
        <5> QED  BY <2>1, <3>1, <5>1, <5>3 DEF RustOrder
      <4>4. CASE Rust!Return(c, steps)
        <5>1. Finished(steps, next) /\ Through(Rust!Prologue(case), more)
          BY <3>3, <4>2, <4>4 DEF Rust!Return
        <5>2. CASE T # {}
          <6>1. Rust!JoinReports(c, RustReports)
            BY <3>3, <4>4, <5>2 DEF Rust!Return, Rust!InPrologue, RustReports
          <6>2. CASE \E p \in T : Fails(f[p], HaltAfter(f[p], 0))
            <7>1. Rust!Fail("refused")
              BY <6>1, <6>2, RustApart DEF Rust!JoinReports
            <7> QED  BY <1>1, <7>1
          <6>3. CASE ~ \E p \in T : Fails(f[p], HaltAfter(f[p], 0))
            <7>1. /\ inflight' = {f[p][HaltAfter(f[p], 0)].call : p \in T}
                  /\ answered' = more /\ UNCHANGED outcome
              BY <6>1, <6>3, RustApart DEF Rust!JoinReports
            <7>2. \A p \in T : HaltAfter(f[p], 0) \in DOMAIN f[p]
              BY RustApart, RustReport, FirstHalt
            <7>3. T = {p \in T : Waits(f[p], HaltAfter(f[p], 0))}
              BY <6>3, <7>2 DEF Waits, Fails
            <7>4. Spread(T, f, {}, {f[p][HaltAfter(f[p], 0)].call :
                             p \in {q \in T : Waits(f[q], HaltAfter(f[q], 0))}}, more)
              <8>1. \A p \in T : IsSeq(f[p])
                BY RustApart DEF Apart
              <8> HIDE DEF f, T, more
              <8> QED  BY <6>3, <8>1, SpreadBegin
            <7>5. Spread(T, f, {}, inflight', answered')
              BY <7>1, <7>3, <7>4
            <7> HIDE DEF f, T
            <7> QED  BY <2>1, <3>1, <3>2, <5>1, <7>1, <7>5 DEF RustOrder, T, f
          <6> QED  BY <6>2, <6>3
        <5>3. CASE T = {}
          <6>1. Rust!Finish(c, Rust!Epilogue(case))
            BY <3>3, <4>4, <5>3 DEF Rust!Return
          <6> QED  BY <1>1, <2>1, <3>2, <5>1, <5>3, <6>1, RustBegins, OnlyChecks, ErrorEnds
                   DEF Rust!Finish, RustOrder
        <5> QED  BY <5>2, <5>3
      <4> QED  BY <2>3, <4>3, <4>4
    <3>4. CASE /\ c.for # 0 /\ c.for \in T /\ At(f[c.for], c, answered)
               /\ steps = f[c.for] /\ Through(Rust!Prologue(case), answered)
               /\ Spread(T, f, {}, inflight, answered)
      <4>1. /\ Waits(steps, next) => Spread(T, f, {}, (inflight \ {c}) \cup {steps[next].call}, more)
            /\ Finished(steps, next) => Spread(T, f, {}, inflight \ {c}, more)
        BY <3>1, <3>4, RustApart, SpreadStep
      <4>2. Through(Rust!Prologue(case), more)
        BY <3>4, MoreDone
      <4>3. CASE Rust!Resume(c, steps)
        <5>1. /\ Waits(steps, next) /\ inflight' = (inflight \ {c}) \cup {steps[next].call}
              /\ answered' = more /\ UNCHANGED outcome
          BY <4>3 DEF Rust!Resume
        <5> HIDE DEF steps, here, next, more, T, f
        <5>2. Spread(T, f, {}, inflight', answered')
          BY <4>1, <5>1
        <5> QED  BY <2>1, <3>1, <3>2, <4>2, <5>1, <5>2 DEF RustOrder, T, f
      <4>4. CASE Rust!Return(c, steps)
        <5>1. Spread(T, f, {}, inflight \ {c}, more)
          BY <4>1, <4>4 DEF Rust!Return
        <5>2. CASE inflight = {c}
          <6>1. Rust!Finish(c, Rust!Epilogue(case))
            BY <3>4, <4>4, <5>2 DEF Rust!Return, Rust!InPrologue
          <6>2. \A p \in T : Through(f[p], more)
            BY <5>1, <5>2 DEF Spread
          <6>3. \A p \in T : Through(Rust!ReportSteps(case, p), more)
            BY <6>2, RustApart
          <6> HIDE DEF T, f, more
          <6> QED  BY <1>1, <2>1, <3>2, <4>2, <6>1, <6>3, RustBegins, OnlyChecks, ErrorEnds
                   DEF Rust!Finish, RustOrder, T, more
        <5>3. CASE inflight # {c}
          <6>1. inflight' = inflight \ {c} /\ answered' = more /\ UNCHANGED outcome
            BY <3>4, <4>4, <5>3 DEF Rust!Return, Rust!InPrologue
          <6> HIDE DEF T, f, more
          <6> QED  BY <2>1, <3>1, <3>2, <4>2, <5>1, <6>1 DEF RustOrder, T, f
        <5> QED  BY <5>2, <5>3
      <4> QED  BY <2>3, <4>3, <4>4
    <3> QED  BY <2>1, <3>3, <3>4, RustOwner
  <2> QED  BY <1>2, <2>2, <2>3 DEF Rust!Answer
<1>3. CASE Rust!Abandon
  BY <1>1, <1>3 DEF Rust!Abandon
<1>4. CASE Rust!Done
  BY <1>4 DEF Rust!Done, Rust!vars, RustOrder, Solo, RustReports
<1>5. ASSUME NEW c \in inflight, Rust!Unreachable(c)  PROVE RustOrder'
  BY <1>1, <1>5 DEF Rust!Unreachable
<1> QED  BY <1>2, <1>3, <1>4, <1>5 DEF Rust!Next

-----------------------------------------------------------------------------
(* JavaScript: tracks that nobody stops. *)

\* The first call fetches evidence, and nobody is asked in the end.
LEMMA JsBegins ==
    ASSUME NEW i
    PROVE  /\ At(Js!sequel(i), Call("evidence", 0), {})
           /\ Verification(Js!conclusion(i), 0, {})
<1>1. Verification(Js!conclusion(i), 0, {})
  BY Plain, Chain, JsSteps DEF Js!conclusion, Js!getOhttpKeyConfig, Js!createCompletionFetch
<1> DEFINE evidence == Call("evidence", 0)
<1>2. CASE i.o.direct
  <2>1. At(Js!fetchDirectModelAttestations(i), evidence, {})
    BY StartsWith, Joining, OneStep, JsSteps DEF Js!fetchDirectModelAttestations
  <2> QED  BY <1>1, <1>2, <2>1 DEF Js!sequel
<1>3. CASE ~i.o.direct
  <2> DEFINE f == Js!fetchGatewayAttestation(Js!GatewayOf(i), i.o)
             v == Js!verifyGatewayAttestation(Js!GatewayOf(i), i.o)
             k == Js!Check(Js!GatewayOf(i).algo = i.o.algo)
             o == Js!getOhttpKeyConfig(i, Js!GatewayOf(i))
             d == Js!createCompletionFetch(i, Js!GatewayOf(i))
             m == Js!fetchReports(i)
  <2>1. Js!sequel(i) = f \o v \o k \o o \o d \o m
    BY <1>3 DEF Js!sequel
  <2>2. IsSeq(f) /\ At(f, evidence, {})
    BY StartsWith, Joining, OneStep, JsSteps DEF Js!fetchGatewayAttestation
  <2>3. IsSeq(v)
    <3> USE OneStep, Joining, JsSteps
    <3>1. /\ \A nonce : IsSeq(Js!verifyReportedNonce(nonce))
          /\ \A echo, quote : IsSeq(Js!verifyAdvertisedReportData(echo, quote))
          /\ \A quote : IsSeq(Js!verifyQuoteReportDataNonce(quote))
          /\ \A compose, quote : IsSeq(Js!verifyAppComposeMrConfigBinding(compose, quote))
          /\ \A log, quote : IsSeq(Js!verifyAndReplayRtmr3(log, quote))
      BY DEF Js!verifyReportedNonce, Js!verifyAdvertisedReportData, Js!verifyQuoteReportDataNonce,
             Js!verifyAppComposeMrConfigBinding, Js!verifyAndReplayRtmr3
    <3>2. \A r : IsSeq(Js!verifyTdxQuote("intel", 0, r.quote, i.o))
      BY DEF Js!verifyTdxQuote
    <3>3. \A r : IsSeq(Js!verifyDstackQuote(r, 0, i.o))
      BY <3>1, <3>2 DEF Js!verifyDstackQuote
    <3>4. \A r : IsSeq(Js!verifyDstackDeployment(r))
      BY <3>1 DEF Js!verifyDstackDeployment
    <3>5. \A r : IsSeq(Js!runDeploymentVerifier(r, 0, i.o.gatewayVerifier, FALSE))
      BY DEF Js!runDeploymentVerifier
    <3>6. \A r : /\ IsSeq(Js!verifyReportDataBinding(r))
                 /\ IsSeq(Js!verifyReportDataBindingWithTlsFingerprint(r))
      BY <3>1 DEF Js!verifyReportDataBinding, Js!verifyReportDataBindingWithTlsFingerprint
    <3> QED  BY <3>3, <3>4, <3>5, <3>6 DEF Js!verifyGatewayAttestation
  <2>4. IsSeq(k) /\ IsSeq(o) /\ IsSeq(d)
    BY Joining, OneStep, JsSteps DEF Js!getOhttpKeyConfig, Js!createCompletionFetch
  <2>5. IsSeq(m)
    BY Joining, OneStep, JsSteps DEF Js!fetchReports, Js!gatewayFetch, Js!fetchModelAttestations
  <2> HIDE DEF f, v, k, o, d, m, evidence
  <2>6. /\ IsSeq(f \o v) /\ IsSeq(f \o v \o k) /\ IsSeq(f \o v \o k \o o)
        /\ IsSeq(f \o v \o k \o o \o d)
    BY <2>2, <2>3, <2>4, Joining
  <2>7. At(f \o v \o k, evidence, {})
    BY <2>2, <2>3, <2>4, <2>6, StartsWith
  <2>8. At(f \o v \o k \o o \o d \o m, evidence, {})
    BY <2>4, <2>5, <2>6, <2>7, StartsWith
  <2> QED  BY <1>1, <2>1, <2>8 DEF evidence
<1> QED  BY <1>2, <1>3

\* The first call fetches evidence, and nobody is asked in the end.
LEMMA PyBegins ==
    ASSUME NEW i
    PROVE  /\ At(Py!prologue(i), Call("evidence", 0), {})
           /\ Verification(Py!epilogue(i), 0, {})
<1>1. Verification(Py!epilogue(i), 0, {})
  BY Plain, Chain, PySteps DEF Py!epilogue, Py!verify_ohttp_key_config, Py!completion_client
<1> DEFINE evidence == Call("evidence", 0)
<1>2. CASE i.o.direct
  <2>1. At(Py!fetch_direct_attestations(i), evidence, {})
    BY StartsWith, Joining, OneStep, PySteps DEF Py!fetch_direct_attestations
  <2> QED  BY <1>1, <1>2, <2>1 DEF Py!prologue
<1>3. CASE ~i.o.direct
  <2> DEFINE f == Py!fetch_gateway_attestation(Py!GatewayOf(i), i.o)
             v == Py!verify_gateway(i)
             d == Py!completion_client(i, Py!GatewayOf(i))
             m == Py!fetch_models(i)
  <2>1. Py!prologue(i) = f \o v \o d \o m
    BY <1>3 DEF Py!prologue
  <2>2. IsSeq(f) /\ At(f, evidence, {})
    BY StartsWith, Joining, OneStep, PySteps DEF Py!fetch_gateway_attestation
  <2>3. IsSeq(v)
    <3> USE OneStep, Joining, PySteps
    <3>1. \A r : IsSeq(Py!verify_dstack_quote(r, 0, i.o))
      BY DEF Py!verify_dstack_quote, Py!verify_tdx_quote
    <3>2. \A r : IsSeq(Py!verify_dstack_deployment(r))
      BY DEF Py!verify_dstack_deployment
    <3>3. \A r : IsSeq(Py!run_deployment_verifier(r, 0, i.o.gatewayVerifier, FALSE))
      BY DEF Py!run_deployment_verifier
    <3>4. \A r : IsSeq(Py!verify_gateway_attestation(r, i.o))
      BY <3>1, <3>2, <3>3 DEF Py!verify_gateway_attestation
    <3> QED  BY <3>4 DEF Py!verify_gateway, Py!verify_ohttp_key_config
  <2>4. IsSeq(d)
    BY OneStep, PySteps DEF Py!completion_client
  <2>5. IsSeq(m)
    BY Joining, OneStep, PySteps DEF Py!fetch_models, Py!pinned, Py!fetch_model_attestations
  <2> HIDE DEF f, v, d, m, evidence
  <2>6. IsSeq(f \o v) /\ IsSeq(f \o v \o d)
    BY <2>2, <2>3, <2>4, Joining
  <2>7. At(f \o v \o d \o m, evidence, {})
    BY <2>2, <2>3, <2>4, <2>5, <2>6, StartsWith
  <2> QED  BY <1>1, <2>1, <2>7 DEF evidence
<1> QED  BY <1>2, <1>3

-----------------------------------------------------------------------------
JsTracks == [t \in Js!joined(case) |-> Js!track(case, t)]

\* Tracks of a preflight that has failed end where they like.
JsLost == IF outcome = "running" THEN {} ELSE Js!joined(case)

JsOrder ==
    /\ case \in Cases
    /\ \/ outcome = "running" /\ Solo(Js!sequel(case))
       \/ /\ Through(Js!sequel(case), answered)
          /\ Spread(Js!joined(case), JsTracks, JsLost, inflight, answered)
       \/ outcome # "running" /\ inflight = {}
    /\ outcome = "granted" =>
           /\ Through(Js!sequel(case), answered) /\ Through(Js!conclusion(case), answered)
           /\ \A t \in Js!joined(case) : Through(Js!track(case, t), answered)

\* The tracks ask different calls.
LEMMA JsApart ==
    /\ DOMAIN JsTracks = Js!joined(case)
    /\ \A t \in Js!joined(case) : JsTracks[t] = Js!track(case, t)
    /\ \A t \in Js!joined(case) : \A c, done : At(JsTracks[t], c, done) =>
           t = <<c.for, IF c.to = "nvidia" THEN "gpu" ELSE "cpu">> /\ c.to \in Parties
    /\ Apart(Js!joined(case), JsTracks)
    /\ case \in Cases => \A t \in Js!joined(case) : t[1] # 0
<1>1. \A t \in Js!joined(case) : JsTracks[t] = Js!track(case, t)
  BY DEF JsTracks
<1>2. ASSUME NEW t \in Js!joined(case)
      PROVE  /\ t = <<t[1], t[2]>> /\ t[2] \in {"cpu", "gpu"}
             /\ case \in Cases => t[1] # 0
  BY PreflightsAssumption DEF Js!joined, Js!Reports, Reports
<1>3. ASSUME NEW t \in Js!joined(case)
      PROVE  /\ IsSeq(JsTracks[t]) /\ Distinct(JsTracks[t])
             /\ \A c, done : At(JsTracks[t], c, done) =>
                    t = <<c.for, IF c.to = "nvidia" THEN "gpu" ELSE "cpu">> /\ c.to \in Parties
  <2>1. Verification(JsTracks[t], t[1], IF t[2] = "cpu" THEN Parties \ {"nvidia"} ELSE {"nvidia"})
    BY <1>1, JsVerification
  <2>2. ASSUME NEW c, NEW done, At(JsTracks[t], c, done)
        PROVE  t = <<c.for, IF c.to = "nvidia" THEN "gpu" ELSE "cpu">> /\ c.to \in Parties
    <3>1. c.for = t[1] /\ c.to \in IF t[2] = "cpu" THEN Parties \ {"nvidia"} ELSE {"nvidia"}
      BY <2>1, <2>2, Addressee
    <3>2. t[2] = IF c.to = "nvidia" THEN "gpu" ELSE "cpu"
      BY <1>2, <3>1
    <3>3. c.to \in Parties
      BY <3>1 DEF Parties
    <3> QED  BY <1>2, <3>1, <3>2, <3>3
  <2> QED  BY <2>1, <2>2 DEF Verification
<1>4. Apart(Js!joined(case), JsTracks)
  BY <1>3 DEF Apart
<1> QED  BY <1>1, <1>2, <1>3, <1>4 DEF JsTracks

\* Which verification a call belongs to.
LEMMA JsOwner ==
    ASSUME JsOrder, NEW c \in inflight
    PROVE  \/ /\ c.for = 0 /\ outcome = "running" /\ inflight = {c}
              /\ At(Js!sequel(case), c, answered) /\ Js!stepsOf(c) = Js!sequel(case)
           \/ /\ c.for # 0 /\ Through(Js!sequel(case), answered)
              /\ Spread(Js!joined(case), JsTracks, JsLost, inflight, answered)
              /\ \E t \in Js!joined(case) :
                     At(JsTracks[t], c, answered) /\ Js!stepsOf(c) = JsTracks[t]
<1>1. CASE outcome = "running" /\ Solo(Js!sequel(case))
  <2>1. inflight = {c} /\ At(Js!sequel(case), c, answered)
    BY <1>1 DEF Solo
  <2>2. c.for = 0
    BY <2>1, JsPrologue, Addressee
  <2> QED  BY <1>1, <2>1, <2>2 DEF Js!stepsOf, Js!inSequel
<1>2. CASE /\ Through(Js!sequel(case), answered)
           /\ Spread(Js!joined(case), JsTracks, JsLost, inflight, answered)
  <2>1. PICK t \in Js!joined(case) : At(JsTracks[t], c, answered)
    BY <1>2 DEF Spread
  <2>2. t = <<c.for, IF c.to = "nvidia" THEN "gpu" ELSE "cpu">> /\ t[1] # 0
    BY <2>1, JsApart DEF JsOrder
  <2>3. c.for # 0
    BY <2>2
  <2>4. Js!stepsOf(c) = JsTracks[t]
    BY <2>1, <2>2, <2>3, JsApart DEF Js!stepsOf, Js!inSequel
  <2> QED  BY <1>2, <2>1, <2>3, <2>4
<1> QED  BY <1>1, <1>2 DEF JsOrder

\* Every step of the JavaScript client keeps its verifications in order.
LEMMA JsInOrder ==
    ASSUME JsOrder, Js!Next
    PROVE  JsOrder'
<1> USE JsSteps
<1> DEFINE T == Js!joined(case)
           f == JsTracks
<1>1. ASSUME NEW error, error \notin {"running", "granted"}, Js!Settle(error)
      PROVE  outcome' # "running" /\ (outcome' = "granted" => outcome = "granted")
  BY <1>1 DEF Js!Settle
<1>2. ASSUME NEW c \in inflight, inflight' = inflight \ {c}, UNCHANGED <<case, answered>>,
             outcome' # "running", outcome' = "granted" => outcome = "granted"
      PROVE  JsOrder'
  <2>1. /\ case' = case /\ answered' = answered /\ T' = T /\ f' = f
        /\ Js!sequel(case)' = Js!sequel(case) /\ Js!conclusion(case)' = Js!conclusion(case)
    BY <1>2 DEF JsTracks
  <2>2. CASE inflight = {c}
    BY <1>2, <2>1, <2>2 DEF JsOrder
  <2>3. ASSUME Through(Js!sequel(case), answered), Spread(T, f, JsLost, inflight, answered)
        PROVE  Spread(T, f, JsLost, inflight, answered)'
    <3>1. JsLost' = T /\ JsLost \subseteq T
      BY <1>2, <2>1 DEF JsLost
    <3> HIDE DEF T, f
    <3>2. Spread(T, f, T, inflight \ {c}, answered)
      BY <2>3, <3>1 DEF Spread
    <3> QED  BY <1>2, <2>1, <3>1, <3>2
  <2>4. CASE inflight # {c}
    <3>1. Through(Js!sequel(case), answered) /\ Spread(T, f, JsLost, inflight, answered)
      BY <2>4, JsOwner
    <3> QED  BY <1>2, <2>1, <2>3, <3>1 DEF JsOrder
  <2> QED  BY <2>2, <2>4
<1>3. ASSUME NEW c \in inflight, Js!Answer(c, Js!stepsOf(c))  PROVE JsOrder'
  <2> DEFINE steps == Js!stepsOf(c)
             here == PositionOf(steps, c)
             next == HaltAfter(steps, here)
             more == answered \cup {c}
  <2>1. CASE Js!Reject(c, steps)
    <3>1. /\ inflight' = inflight \ {c} /\ UNCHANGED <<case, answered>>
          /\ \E error : error \notin {"running", "granted"} /\ Js!Settle(error)
      BY <2>1, ErrorEnds DEF Js!Reject
    <3> QED  BY <1>1, <1>2, <3>1
  <2>2. CASE Js!Resume(c, steps) \/ Js!Return(c, steps)
    <3>1. /\ steps[here].ok /\ UNCHANGED case /\ answered' = more /\ case \in Cases
      BY <2>2 DEF Js!Resume, Js!Return, Js!Start, Js!Conclude, JsOrder
    <3>2. /\ T' = T /\ f' = f /\ Js!sequel(case)' = Js!sequel(case)
          /\ Js!conclusion(case)' = Js!conclusion(case)
      BY <3>1 DEF JsTracks
    <3>3. outcome = "granted" /\ outcome' = "granted" =>
              /\ Through(Js!sequel(case), more) /\ Through(Js!conclusion(case), more)
              /\ \A t \in T : Through(Js!track(case, t), more)
      BY MoreDone DEF JsOrder
    <3>4. ASSUME Js!Conclude(c, Js!conclusion(case)), outcome = "running",
                 Through(Js!sequel(case), more), \A t \in T : Through(Js!track(case, t), more)
          PROVE  JsOrder'
      <4>1. inflight' = {} /\ outcome' # "running"
        BY <3>4, ErrorEnds DEF Js!Conclude, Js!Settle
      <4>2. outcome' = "granted" => Through(Js!conclusion(case), more)
        <5>1. outcome' = "granted" => ~Fails(Js!conclusion(case), HaltAfter(Js!conclusion(case), 0))
          BY <3>4, ErrorEnds DEF Js!Conclude, Js!Settle
        <5> QED  BY <5>1, JsBegins, OnlyChecks
      <4> HIDE DEF more, T
      <4> QED  BY <3>1, <3>2, <3>4, <4>1, <4>2 DEF JsOrder, T
    <3>5. CASE /\ c.for = 0 /\ outcome = "running" /\ inflight = {c}
               /\ At(steps, c, answered) /\ steps = Js!sequel(case)
      <4>1. IsSeq(steps) /\ Distinct(steps)
        BY <3>5, JsPrologue DEF Verification
      <4>2. /\ Waits(steps, next) => At(steps, steps[next].call, more)
            /\ Finished(steps, next) => Through(steps, more)
        BY <3>1, <3>5, <4>1, StepForward
      <4>3. CASE Js!Resume(c, steps)
        <5>1. /\ Waits(steps, next) /\ inflight' = (inflight \ {c}) \cup {steps[next].call}
              /\ UNCHANGED outcome
          BY <4>3 DEF Js!Resume
        <5> HIDE DEF steps, here, next, more
        <5>2. inflight' = {steps[next].call}
          BY <3>5, <5>1
        <5>3. Solo(Js!sequel(case))'
          BY <3>1, <3>2, <3>5, <4>2, <5>1, <5>2 DEF Solo
        <5> QED  BY <3>1, <3>5, <5>1, <5>3 DEF JsOrder
      <4>4. CASE Js!Return(c, steps)
        <5>1. Finished(steps, next) /\ Through(Js!sequel(case), more)
          BY <3>5, <4>2, <4>4 DEF Js!Return
        <5>2. CASE T # {}
          <6>1. Js!Start(c, f)
            BY <3>5, <4>4, <5>2 DEF Js!Return, Js!inSequel, JsTracks
          <6> DEFINE halt(t) == HaltAfter(f[t], 0)
          <6>2. inflight' = {f[t][halt(t)].call : t \in {u \in T : Waits(f[u], halt(u))}}
            BY <6>1, JsApart DEF Js!Start
          <6>3. /\ outcome' \in {"running", "refused"}
                /\ (\E t \in T : Fails(f[t], halt(t))) => outcome' # "running"
            BY <1>1, <3>5, <6>1, JsApart DEF Js!Start, Js!Settle
          <6>4. JsLost' = IF outcome' = "running" THEN {} ELSE T
            BY <3>2 DEF JsLost
          <6>5. \A t \in T : IsSeq(f[t])
            BY JsApart DEF Apart
          <6>6. \A t \in T : Fails(f[t], halt(t)) => t \in JsLost'
            BY <6>3, <6>4
          <6> HIDE DEF T, f, more
          <6>7. Spread(T, f, JsLost', inflight', more)
            BY <6>2, <6>5, <6>6, SpreadBegin
          <6> QED  BY <3>1, <3>2, <5>1, <6>3, <6>7 DEF JsOrder, T, f
        <5>3. CASE T = {}
          <6>1. Js!Conclude(c, Js!conclusion(case))
            BY <3>5, <4>4, <5>3 DEF Js!Return
          <6> QED  BY <3>4, <3>5, <5>1, <5>3, <6>1
        <5> QED  BY <5>2, <5>3
      <4> QED  BY <2>2, <4>3, <4>4
    <3>6. ASSUME c.for # 0, Through(Js!sequel(case), answered),
                 Spread(T, f, JsLost, inflight, answered),
                 NEW t \in T, At(f[t], c, answered), steps = f[t]
          PROVE  JsOrder'
      <4>1. /\ Waits(steps, next) =>
                   Spread(T, f, JsLost, (inflight \ {c}) \cup {steps[next].call}, more)
            /\ Finished(steps, next) => Spread(T, f, JsLost, inflight \ {c}, more)
        <5> DEFINE after == HaltAfter(f[t], PositionOf(f[t], c))
        <5>1. /\ At(f[t], c, answered) /\ f[t][PositionOf(f[t], c)].ok
              /\ steps = f[t] /\ next = after
          BY <3>1, <3>6
        <5>2. Apart(T, f) /\ Spread(T, f, JsLost, inflight, answered)
          BY <3>6, JsApart
        <5> HIDE DEF T, f, steps, here, next
        <5>3. /\ Waits(f[t], after) =>
                     Spread(T, f, JsLost, (inflight \ {c}) \cup {f[t][after].call}, answered \cup {c})
              /\ Finished(f[t], after) => Spread(T, f, JsLost, inflight \ {c}, answered \cup {c})
          BY <5>1, <5>2, SpreadStep
        <5> HIDE DEF after
        <5> QED  BY <5>1, <5>3
      <4>2. Through(Js!sequel(case), more)
        BY <3>6, MoreDone
      <4>3. UNCHANGED outcome => JsLost' = JsLost
        BY <3>2 DEF JsLost
      <4>4. CASE Js!Resume(c, steps)
        <5>1. /\ Waits(steps, next) /\ inflight' = (inflight \ {c}) \cup {steps[next].call}
              /\ UNCHANGED outcome
          BY <4>4 DEF Js!Resume
        <5> HIDE DEF steps, here, next, more, T, f
        <5>2. Spread(T, f, JsLost', inflight', answered')
          BY <3>1, <4>1, <4>3, <5>1
        <5> QED  BY <3>1, <3>2, <3>3, <4>2, <5>1, <5>2 DEF JsOrder, T, f
      <4>5. CASE Js!Return(c, steps)
        <5>1. Spread(T, f, JsLost, inflight \ {c}, more)
          BY <4>1, <4>5 DEF Js!Return
        <5>2. CASE outcome = "running" /\ inflight = {c}
          <6>1. Js!Conclude(c, Js!conclusion(case))
            BY <3>6, <4>5, <5>2 DEF Js!Return, Js!inSequel
          <6>2. JsLost = {}
            BY <5>2 DEF JsLost
          <6>3. \A u \in T : Through(f[u], more)
            BY <5>1, <5>2, <6>2 DEF Spread
          <6>4. \A u \in T : Through(Js!track(case, u), more)
            BY <6>3, JsApart
          <6> QED  BY <3>4, <4>2, <5>2, <6>1, <6>4
        <5>3. CASE ~(outcome = "running" /\ inflight = {c})
          <6>1. inflight' = inflight \ {c} /\ UNCHANGED outcome
            BY <3>6, <4>5, <5>3 DEF Js!Return, Js!inSequel
          <6> HIDE DEF T, f, more
          <6>2. Spread(T, f, JsLost', inflight', answered')
            BY <3>1, <4>3, <5>1, <6>1
          <6> QED  BY <3>1, <3>2, <3>3, <4>2, <6>1, <6>2 DEF JsOrder, T, f
        <5> QED  BY <5>2, <5>3
      <4> QED  BY <2>2, <4>4, <4>5
    <3> QED  BY <3>5, <3>6, JsOwner
  <2> QED  BY <1>3, <2>1, <2>2 DEF Js!Answer
<1>4. ASSUME NEW c \in inflight, Js!Unreachable(c)  PROVE JsOrder'
  <2>1. /\ inflight' = inflight \ {c} /\ UNCHANGED <<case, answered>>
        /\ Js!Settle("unreachable")
    BY <1>4 DEF Js!Unreachable
  <2> QED  BY <1>1, <1>2, <2>1
<1>5. CASE Js!Done
  BY <1>5 DEF Js!Done, Js!vars, JsOrder, Solo, JsTracks, JsLost
<1> QED  BY <1>3, <1>4, <1>5 DEF Js!Next

-----------------------------------------------------------------------------
(* Python: tasks that are cancelled. *)

PyTracks == Py!Tracks \X Py!gathered(case)
PyTasks == [x \in PyTracks |-> Py!StepsIn(case, x[1], x[2])]

\* Tracks of a report with a failed track are cancelled where they happen to be.
PyLost == {x \in PyTracks : Py!Faulty(x[2])}

PyKey(p) == Py!verify_signing_public_key(Py!report(case, p))

PyOrder ==
    /\ case \in Cases
    /\ outcome = "running" =>
           \/ Solo(Py!prologue(case)) /\ faults = {}
           \/ /\ Through(Py!prologue(case), answered)
              /\ Spread(PyTracks, PyTasks, PyLost, inflight, answered)
              /\ \A p \in Py!gathered(case) : Py!Faulty(p) \/ Py!CallsFor(p) # {} \/ PyKey(p)
    /\ outcome # "running" => inflight = {} /\ faults = {}
    /\ outcome = "granted" =>
           /\ Through(Py!prologue(case), answered) /\ Through(Py!epilogue(case), answered)
           /\ \A x \in PyTracks : Through(PyTasks[x], answered)
           /\ \A p \in Py!gathered(case) : PyKey(p)
    /\ \A f \in faults : f.error \notin {"running", "granted"}

\* The tracks ask different calls.
LEMMA PyApart ==
    /\ DOMAIN PyTasks = PyTracks
    /\ \A x \in PyTracks : PyTasks[x] = Py!StepsIn(case, x[1], x[2])
    /\ \A x \in PyTracks : \A c, done : At(PyTasks[x], c, done) =>
           x = <<Py!TrackOf(c), c.for>> /\ c.to \in Parties
    /\ Apart(PyTracks, PyTasks)
    /\ case \in Cases => \A x \in PyTracks : x[2] # 0
<1>1. \A x \in PyTracks : PyTasks[x] = Py!StepsIn(case, x[1], x[2])
  BY DEF PyTasks
<1>2. ASSUME NEW x \in PyTracks
      PROVE  /\ x = <<x[1], x[2]>> /\ x[1] \in {"cpu", "gpu"}
             /\ case \in Cases => x[2] # 0
  BY PreflightsAssumption DEF PyTracks, Py!Tracks, Py!gathered, Py!Reports, Reports
<1>3. ASSUME NEW x \in PyTracks
      PROVE  /\ IsSeq(PyTasks[x]) /\ Distinct(PyTasks[x])
             /\ \A c, done : At(PyTasks[x], c, done) =>
                    x = <<Py!TrackOf(c), c.for>> /\ c.to \in Parties
  <2>1. Verification(PyTasks[x], x[2], IF x[1] = "cpu" THEN Parties \ {"nvidia"} ELSE {"nvidia"})
    BY <1>1, PyVerification
  <2>2. ASSUME NEW c, NEW done, At(PyTasks[x], c, done)
        PROVE  x = <<Py!TrackOf(c), c.for>> /\ c.to \in Parties
    <3>1. c.for = x[2] /\ c.to \in IF x[1] = "cpu" THEN Parties \ {"nvidia"} ELSE {"nvidia"}
      BY <2>1, <2>2, Addressee
    <3>2. x[1] = Py!TrackOf(c)
      BY <1>2, <3>1 DEF Py!TrackOf
    <3>3. c.to \in Parties
      BY <3>1 DEF Parties
    <3> QED  BY <1>2, <3>1, <3>2, <3>3
  <2> QED  BY <2>1, <2>2 DEF Verification
<1>4. Apart(PyTracks, PyTasks)
  BY <1>3 DEF Apart
<1> QED  BY <1>1, <1>2, <1>3, <1>4 DEF PyTasks

\* Which verification a call belongs to.
LEMMA PyOwner ==
    ASSUME PyOrder, outcome = "running", NEW c \in inflight
    PROVE  \/ /\ Py!InPrologue(c) /\ inflight = {c} /\ faults = {}
              /\ At(Py!prologue(case), c, answered) /\ Py!StepsOf(c) = Py!prologue(case)
           \/ /\ ~Py!InPrologue(c) /\ Through(Py!prologue(case), answered)
              /\ Spread(PyTracks, PyTasks, PyLost, inflight, answered)
              /\ \A p \in Py!gathered(case) : Py!Faulty(p) \/ Py!CallsFor(p) # {} \/ PyKey(p)
              /\ \E x \in PyTracks : /\ x[2] = c.for /\ At(PyTasks[x], c, answered)
                                     /\ Py!StepsOf(c) = PyTasks[x]
<1>1. CASE Solo(Py!prologue(case)) /\ faults = {}
  <2>1. inflight = {c} /\ At(Py!prologue(case), c, answered)
    BY <1>1 DEF Solo
  <2>2. c.for = 0
    BY <2>1, PyPrologue, Addressee
  <2> QED  BY <1>1, <2>1, <2>2 DEF Py!StepsOf, Py!InPrologue
<1>2. CASE /\ Through(Py!prologue(case), answered)
           /\ Spread(PyTracks, PyTasks, PyLost, inflight, answered)
           /\ \A p \in Py!gathered(case) : Py!Faulty(p) \/ Py!CallsFor(p) # {} \/ PyKey(p)
  <2>1. PICK x \in PyTracks : At(PyTasks[x], c, answered)
    BY <1>2 DEF Spread
  <2>2. x = <<Py!TrackOf(c), c.for>> /\ x[2] # 0
    BY <2>1, PyApart DEF PyOrder
  <2>3. x[2] = c.for /\ x[1] = Py!TrackOf(c) /\ c.for # 0
    BY <2>2
  <2>4. Py!StepsOf(c) = PyTasks[x]
    BY <2>1, <2>3, PyApart DEF Py!StepsOf, Py!InPrologue
  <2> QED  BY <1>2, <2>1, <2>3, <2>4 DEF Py!InPrologue
<1> QED  BY <1>1, <1>2 DEF PyOrder

\* What a new fault adds.
LEMMA PyFault ==
    ASSUME NEW p, NEW error, NEW stopped, error \notin {"running", "granted"},
           faults' = faults \cup {Py!Fault(p, error, stopped)}
    PROVE  /\ \A q : Py!Faulty(q)' <=> Py!Faulty(q) \/ q = p
           /\ \A g \in faults' : g \in faults \/ g.error \notin {"running", "granted"}
<1> DEFINE new == Py!Fault(p, error, stopped)
<1>1. new.for = p /\ new.error = error
  BY DEF Py!Fault
<1> HIDE DEF new
<1>2. \A q : Py!Faulty(q)' <=> Py!Faulty(q) \/ q = p
  BY <1>1 DEF Py!Faulty, new
<1> QED  BY <1>1, <1>2 DEF new

\* Every step of the Python client keeps its verifications in order.
LEMMA PyInOrder ==
    ASSUME PyOrder, Py!Next
    PROVE  PyOrder'
<1> USE PySteps
<1> DEFINE T == PyTracks
           f == PyTasks
           Settled(p) == Py!Faulty(p) \/ Py!CallsFor(p) # {} \/ PyKey(p)
<1>1. ASSUME NEW error, error \notin {"running", "granted"}, Py!Raise(error)  PROVE PyOrder'
  BY <1>1 DEF Py!Raise, PyOrder
<1>2. ASSUME UNCHANGED case
      PROVE  /\ T' = T /\ f' = f /\ Py!gathered(case)' = Py!gathered(case)
             /\ Py!prologue(case)' = Py!prologue(case) /\ Py!epilogue(case)' = Py!epilogue(case)
             /\ \A p : PyKey(p)' = PyKey(p)
  BY <1>2 DEF PyTracks, PyTasks, PyKey
<1>11. ASSUME case' = case, case \in Cases, outcome' = "running",
              Through(Py!prologue(case), answered'), Spread(T, f, PyLost', inflight', answered'),
              \A p \in Py!gathered(case) : Settled(p)',
              \A g \in faults' : g.error \notin {"running", "granted"}
       PROVE  PyOrder'
  <2>1. /\ PyTracks' = PyTracks /\ PyTasks' = PyTasks /\ Py!gathered(case)' = Py!gathered(case)
        /\ Py!prologue(case)' = Py!prologue(case)
    BY <1>2, <1>11
  <2>2. Spread(PyTracks, PyTasks, PyLost, inflight, answered)'
    <3> HIDE DEF T, f
    <3> QED  BY <1>11, <2>1 DEF T, f
  <2>3. \A p \in Py!gathered(case)' : (Py!Faulty(p) \/ Py!CallsFor(p) # {} \/ PyKey(p))'
    BY <1>11, <2>1
  <2>4. Through(Py!prologue(case), answered)'
    BY <1>11, <2>1
  <2> QED  BY ONLY <1>11, <2>2, <2>3, <2>4 DEF PyOrder
<1>3. ASSUME NEW c \in inflight, NEW error, error \notin {"running", "granted"},
             Py!FailAt(c, error)
      PROVE  PyOrder'
  <2>1. outcome = "running" /\ case \in Cases
    BY DEF PyOrder
  <2>2. CASE Py!InPrologue(c)
    BY <1>1, <1>3, <2>2 DEF Py!FailAt
  <2>3. CASE ~Py!InPrologue(c)
    <3>1. /\ inflight' = inflight \ {c} /\ UNCHANGED <<case, answered, outcome>>
          /\ faults' = IF Py!Faulty(c.for) THEN faults
                       ELSE faults \cup {Py!Fault(c.for, error, FALSE)}
      BY <1>3, <2>3 DEF Py!FailAt, Py!FailTrack
    <3>2. /\ Through(Py!prologue(case), answered) /\ Spread(T, f, PyLost, inflight, answered)
          /\ \A p \in Py!gathered(case) : Settled(p)
      BY <2>1, <2>3, PyOwner
    <3>3. \A p : Py!Faulty(p)' <=> Py!Faulty(p) \/ p = c.for
      <4>1. CASE Py!Faulty(c.for)
        BY <3>1, <4>1 DEF Py!Faulty
      <4>2. CASE ~Py!Faulty(c.for)
        BY <1>3, <3>1, <4>2, PyFault
      <4> QED  BY <4>1, <4>2
    <3>4. \A p : p # c.for => Py!CallsFor(p)' = Py!CallsFor(p)
      BY <3>1 DEF Py!CallsFor, Py!InPrologue
    <3>5. \A g \in faults' : g.error \notin {"running", "granted"}
      BY <1>3, <3>1 DEF PyOrder, Py!Fault
    <3>6. PyLost \subseteq PyLost' /\ \A x \in T : x[2] = c.for => x \in PyLost'
      BY <1>2, <3>1, <3>3 DEF PyLost
    <3>7. \A x \in T : At(f[x], c, answered) => x[2] = c.for
      BY PyApart
    <3>8. \A p \in Py!gathered(case) : Settled(p)'
      BY <1>2, <3>1, <3>2, <3>3, <3>4
    <3> HIDE DEF T, f, Settled
    <3>9. Spread(T, f, PyLost', inflight', answered)
      BY <3>1, <3>2, <3>6, <3>7, SpreadLoss
    <3> QED  BY <1>11, <2>1, <3>1, <3>2, <3>5, <3>8, <3>9
  <2> QED  BY <2>2, <2>3
<1>4. ASSUME NEW c, Py!Finish(c, Py!epilogue(case)), outcome = "running", faults = {},
             Through(Py!prologue(case), answered \cup {c}),
             \A x \in T : Through(f[x], answered \cup {c}), \A p \in Py!gathered(case) : PyKey(p)
      PROVE  PyOrder'
  <2>1. CASE Fails(Py!epilogue(case), HaltAfter(Py!epilogue(case), 0))
    BY <1>1, <1>4, <2>1, ErrorEnds DEF Py!Finish
  <2>2. CASE ~Fails(Py!epilogue(case), HaltAfter(Py!epilogue(case), 0))
    <3>1. /\ outcome' = "granted" /\ inflight' = {} /\ answered' = answered \cup {c}
          /\ UNCHANGED <<case, faults>>
      BY <1>4, <2>2 DEF Py!Finish
    <3>2. Through(Py!epilogue(case), answered')
      BY <2>2, PyBegins, OnlyChecks
    <3>3. case \in Cases
      BY DEF PyOrder
    <3> HIDE DEF T, f
    <3> QED  BY <1>2, <1>4, <3>1, <3>2, <3>3 DEF PyOrder, T, f
  <2> QED  BY <2>1, <2>2
<1>5. ASSUME NEW c \in inflight, Py!Answer(c, Py!StepsOf(c))  PROVE PyOrder'
  <2> DEFINE steps == Py!StepsOf(c)
             here == PositionOf(steps, c)
             next == HaltAfter(steps, here)
             more == answered \cup {c}
  <2>1. outcome = "running" /\ case \in Cases /\ \A g \in faults : g.error \notin {"running", "granted"}
    BY DEF PyOrder
  <2>2. CASE Py!Reject(c, steps)
    BY <1>3, <2>2, ErrorEnds DEF Py!Reject
  <2>3. CASE Py!Resume(c, steps)
    <3>1. /\ steps[here].ok /\ Waits(steps, next)
          /\ inflight' = (inflight \ {c}) \cup {steps[next].call}
          /\ answered' = more /\ UNCHANGED <<case, outcome, faults>>
      BY <2>3 DEF Py!Resume
    <3>2. CASE /\ Py!InPrologue(c) /\ inflight = {c} /\ faults = {}
               /\ At(steps, c, answered) /\ steps = Py!prologue(case)
      <4>1. IsSeq(steps) /\ Distinct(steps)
        BY <3>2, PyPrologue DEF Verification
      <4>2. At(steps, steps[next].call, more)
        BY <3>1, <3>2, <4>1, StepForward
      <4> HIDE DEF steps, here, next, more
      <4>3. inflight' = {steps[next].call}
        BY <3>1, <3>2
      <4>4. Solo(Py!prologue(case))'
        BY <1>2, <3>1, <3>2, <4>2, <4>3 DEF Solo
      <4> QED  BY <2>1, <3>1, <3>2, <4>4 DEF PyOrder
    <3>3. ASSUME ~Py!InPrologue(c), Through(Py!prologue(case), answered),
                 Spread(T, f, PyLost, inflight, answered),
                 \A p \in Py!gathered(case) : Settled(p),
                 NEW x \in T, x[2] = c.for, At(f[x], c, answered), steps = f[x]
          PROVE  PyOrder'
      <4>1. Spread(T, f, PyLost, (inflight \ {c}) \cup {steps[next].call}, more)
        <5>1. Apart(T, f)
          BY PyApart
        <5>2. /\ f[x][PositionOf(f[x], c)].ok /\ steps = f[x]
              /\ Waits(f[x], HaltAfter(f[x], PositionOf(f[x], c)))
          BY <3>1, <3>3
        <5> HIDE DEF T, f
        <5>3. Spread(T, f, PyLost,
                     (inflight \ {c}) \cup {f[x][HaltAfter(f[x], PositionOf(f[x], c))].call},
                     answered \cup {c})
          BY <3>3, <5>1, <5>2, SpreadStep
        <5> QED  BY <5>2, <5>3
      <4>2. Through(Py!prologue(case), more)
        BY <3>3, MoreDone
      <4>3. steps[next].call.for = c.for /\ steps[next].call \in inflight'
        <5>1. next \in DOMAIN steps /\ IsCall(steps[next])
          BY <3>1 DEF Waits
        <5>2. Verification(steps, c.for, IF x[1] = "cpu" THEN Parties \ {"nvidia"} ELSE {"nvidia"})
          <6>1. steps = Py!StepsIn(case, x[1], c.for)
            BY <3>3, PyApart
          <6> HIDE DEF steps
          <6> QED  BY <6>1, PyVerification
        <5> HIDE DEF steps, next
        <5> QED  BY <3>1, <5>1, <5>2 DEF Verification
      <4>4. \A p : Py!CallsFor(p) # {} => Py!CallsFor(p)' # {}
        <5>1. ASSUME NEW p, NEW d \in Py!CallsFor(p)  PROVE Py!CallsFor(p)' # {}
          <6>1. d \in inflight /\ d.for = p /\ ~Py!InPrologue(d)
            BY <5>1 DEF Py!CallsFor
          <6>2. CASE d = c
            <7> HIDE DEF steps, next
            <7>1. steps[next].call \in Py!CallsFor(p)'
              BY <3>3, <4>3, <6>1, <6>2 DEF Py!CallsFor, Py!InPrologue
            <7> QED  BY <7>1
          <6>3. CASE d # c
            <7>1. d \in inflight'
              BY <3>1, <6>1, <6>3
            <7>2. d \in Py!CallsFor(p)'
              BY <6>1, <7>1 DEF Py!CallsFor, Py!InPrologue
            <7> QED  BY <7>2
          <6> QED  BY <6>2, <6>3
        <5> QED  BY <5>1
      <4>5. PyLost' = PyLost /\ \A p : Py!Faulty(p)' = Py!Faulty(p)
        BY <1>2, <3>1 DEF PyLost, Py!Faulty
      <4>6. \A p \in Py!gathered(case) : Settled(p)'
        BY <1>2, <3>1, <3>3, <4>4, <4>5
      <4> HIDE DEF steps, here, next, more, T, f, Settled
      <4>7. Spread(T, f, PyLost', inflight', answered')
        BY <3>1, <4>1, <4>5
      <4> QED  BY <1>11, <2>1, <3>1, <4>2, <4>6, <4>7
    <3> QED  BY <2>1, <3>2, <3>3, PyOwner
  <2>4. CASE Py!Return(c, steps)
    <3>1. steps[here].ok /\ Finished(steps, next)
      BY <2>4 DEF Py!Return
    <3>2. CASE /\ Py!InPrologue(c) /\ inflight = {c} /\ faults = {}
               /\ At(steps, c, answered) /\ steps = Py!prologue(case)
      <4>1. IsSeq(steps) /\ Distinct(steps)
        BY <3>2, PyPrologue DEF Verification
      <4>2. Through(Py!prologue(case), more)
        BY <3>1, <3>2, <4>1, StepForward
      <4>3. CASE Py!gathered(case) = {}
        <5>1. Py!Finish(c, Py!epilogue(case))
          BY <2>4, <3>2, <4>3 DEF Py!Return
        <5>2. T = {}
          BY <4>3 DEF PyTracks
        <5> QED  BY <1>4, <2>1, <3>2, <4>2, <4>3, <5>1, <5>2
      <4>4. CASE Py!gathered(case) # {}
        <5> DEFINE halt(x) == HaltAfter(f[x], 0)
                   asking == {x \in T : Waits(f[x], halt(x))}
                   failing == {x \in T : Fails(f[x], halt(x))}
        <5>1. Py!Gather(c, f)
          BY <2>4, <3>2, <4>4 DEF Py!Return, PyTasks, PyTracks
        <5>2. /\ inflight' = {f[x][halt(x)].call : x \in asking}
              /\ faults' = {Py!Fault(x[2], "refused", FALSE) : x \in failing}
              /\ answered' = more /\ UNCHANGED <<case, outcome>>
          BY <5>1, PyApart DEF Py!Gather
        <5>3. \A p : Py!Faulty(p)' <=> \E x \in failing : x[2] = p
          <6>1. \A p : Py!Fault(p, "refused", FALSE).for = p
            BY DEF Py!Fault
          <6> HIDE DEF failing
          <6> QED  BY <5>2, <6>1 DEF Py!Faulty
        <5>4. \A x \in T : Fails(f[x], halt(x)) => x \in PyLost'
          BY <1>2, <5>2, <5>3 DEF PyLost
        <5>5. \A g \in faults' : g.error = "refused"
          BY <5>2 DEF Py!Fault
        <5>6. ASSUME NEW p \in Py!gathered(case)  PROVE Py!Faulty(p)' \/ Py!CallsFor(p)' # {}
          <6> DEFINE x == <<"cpu", p>>
          <6>1. x \in T /\ x[1] = "cpu" /\ x[2] = p
            BY <5>6 DEF PyTracks, Py!Tracks
          <6>2. halt(x) \in DOMAIN f[x]
            BY <6>1, PyApart, PyTrack, FirstHalt
          <6>3. CASE Fails(f[x], halt(x))
            BY <5>3, <6>1, <6>3
          <6>4. CASE ~Fails(f[x], halt(x))
            <7>1. IsCall(f[x][halt(x)]) /\ x \in asking
              BY <6>1, <6>2, <6>4 DEF Fails, Waits
            <7>2. f[x][halt(x)].call \in inflight'
              BY <5>2, <7>1
            <7>3. f[x][halt(x)].call.for = p
              <8>1. Verification(f[x], p, Parties \ {"nvidia"})
                <9>1. f[x] = Py!StepsIn(case, "cpu", p)
                  BY <6>1, PyApart
                <9> QED  BY <9>1, PyVerification
              <8> HIDE DEF f, halt, x
              <8> QED  BY <6>2, <7>1, <8>1 DEF Verification
            <7>4. p # 0
              BY <2>1, <6>1, PyApart
            <7> HIDE DEF f, halt, x
            <7>5. f[x][halt(x)].call \in Py!CallsFor(p)'
              BY <7>2, <7>3, <7>4 DEF Py!CallsFor, Py!InPrologue
            <7> QED  BY <7>5
          <6> QED  BY <6>3, <6>4
        <5>7. \A x \in T : IsSeq(f[x])
          BY PyApart DEF Apart
        <5> HIDE DEF T, f, more
        <5>8. Spread(T, f, PyLost', inflight', more)
          BY <5>2, <5>4, <5>7, SpreadBegin
        <5> QED  BY <1>11, <2>1, <4>2, <5>2, <5>5, <5>6, <5>8
      <4> QED  BY <4>3, <4>4
    <3>3. ASSUME ~Py!InPrologue(c), Through(Py!prologue(case), answered),
                 Spread(T, f, PyLost, inflight, answered),
                 \A p \in Py!gathered(case) : Settled(p),
                 NEW x \in T, x[2] = c.for, At(f[x], c, answered), steps = f[x]
          PROVE  PyOrder'
      <4> DEFINE p == c.for
                 ends == Py!CallsFor(p) = {c} /\ ~Py!Faulty(p)
                 key == PyKey(p)
      <4>1. Spread(T, f, PyLost, inflight \ {c}, more)
        <5> DEFINE after == HaltAfter(f[x], PositionOf(f[x], c))
        <5>1. /\ At(f[x], c, answered) /\ f[x][PositionOf(f[x], c)].ok
              /\ Finished(f[x], after)
          BY <3>1, <3>3
        <5>2. Apart(T, f) /\ Spread(T, f, PyLost, inflight, answered)
          BY <3>3, PyApart
        <5> HIDE DEF T, f, steps, here, next
        <5>3. Finished(f[x], after) =>
                 Spread(T, f, PyLost, inflight \ {c}, answered \cup {c})
          BY <5>1, <5>2, SpreadStep
        <5> HIDE DEF after
        <5> QED  BY <5>1, <5>3
      <4>2. Through(Py!prologue(case), more)
        BY <3>3, MoreDone
      <4>3. Py!EndTrack(c)
        BY <2>4, <3>3 DEF Py!Return
      <4>4. CASE ends /\ key /\ inflight = {c} /\ faults = {}
        <5>1. Py!Finish(c, Py!epilogue(case))
          BY <4>3, <4>4 DEF Py!EndTrack, PyKey
        <5>2. PyLost = {} /\ \A q : ~Py!Faulty(q)
          BY <4>4 DEF PyLost, Py!Faulty
        <5>3. \A y \in T : Through(f[y], more)
          BY <4>1, <4>4, <5>2 DEF Spread
        <5>4. \A q : q # p => Py!CallsFor(q) = {}
          BY <4>4 DEF Py!CallsFor
        <5>5. \A q \in Py!gathered(case) : PyKey(q)
          BY <3>3, <4>4, <5>2, <5>4
        <5> QED  BY <1>4, <2>1, <4>2, <4>4, <5>1, <5>3, <5>5
      <4>5. CASE ~(ends /\ key /\ inflight = {c} /\ faults = {})
        <5>1. /\ inflight' = inflight \ {c} /\ answered' = more /\ UNCHANGED <<case, outcome>>
              /\ faults' = IF ends /\ ~key THEN faults \cup {Py!Fault(p, "refused", TRUE)}
                           ELSE faults
          BY <4>3, <4>5 DEF Py!EndTrack, PyKey
        <5>2. faults \subseteq faults' /\ \A g \in faults' : g \in faults \/ g.error = "refused"
          BY <5>1 DEF Py!Fault
        <5>3. \A q : Py!Faulty(q) => Py!Faulty(q)'
          BY <5>2 DEF Py!Faulty
        <5>4. ASSUME ends, ~key  PROVE Py!Faulty(p)'
          <6>1. faults' = faults \cup {Py!Fault(p, "refused", TRUE)}
            BY <5>1, <5>4
          <6>2. "refused" \notin {"running", "granted"}
            OBVIOUS
          <6>3. Py!Faulty(c.for)'
            BY ONLY <6>1, <6>2, PyFault
          <6> QED  BY <6>3
        <5>5. \A q : q # p => Py!CallsFor(q)' = Py!CallsFor(q)
          BY <5>1 DEF Py!CallsFor, Py!InPrologue
        <5>6. c \in Py!CallsFor(p) /\ Py!CallsFor(p)' = Py!CallsFor(p) \ {c}
          BY <3>3, <5>1 DEF Py!CallsFor, Py!InPrologue
        <5>7. \A q : PyKey(q)' = PyKey(q)
          BY <1>2, <5>1
        <5>8. \A q \in Py!gathered(case) : Settled(q)'
          <6>1. ASSUME NEW q \in Py!gathered(case), q # p  PROVE Settled(q)'
            BY <3>3, <5>3, <5>5, <5>7, <6>1
          <6>2. Settled(p)'
            BY <5>3, <5>4, <5>6, <5>7
          <6> QED  BY <6>1, <6>2
        <5>9. PyLost \subseteq PyLost'
          BY <1>2, <5>1, <5>3 DEF PyLost
        <5> HIDE DEF T, f, more, Settled, ends, key
        <5>10. Spread(T, f, PyLost', inflight', answered')
          BY <4>1, <5>1, <5>9 DEF Spread
        <5>11. \A g \in faults' : g.error \notin {"running", "granted"}
          BY <2>1, <5>2
        <5> QED  BY <1>11, <2>1, <4>2, <5>1, <5>8, <5>10, <5>11
      <4> QED  BY <4>4, <4>5
    <3> QED  BY <2>1, <3>2, <3>3, PyOwner
  <2> QED  BY <1>5, <2>2, <2>3, <2>4 DEF Py!Answer
<1>6. ASSUME NEW c \in inflight, Py!Unreachable(c)  PROVE PyOrder'
  BY <1>3, <1>6 DEF Py!Unreachable
<1>7. ASSUME NEW g \in faults, Py!CancelTracks(g)  PROVE PyOrder'
  <2>1. /\ inflight' = inflight \ Py!CallsFor(g.for) /\ UNCHANGED <<case, answered, outcome>>
        /\ faults' = (faults \ {g}) \cup {[g EXCEPT !.stopped = TRUE]}
    BY <1>7 DEF Py!CancelTracks
  <2> DEFINE h == [g EXCEPT !.stopped = TRUE]
  <2>2. h.for = g.for /\ h.error = g.error
    OBVIOUS
  <2>3. outcome = "running" /\ faults # {} /\ case \in Cases
    BY <1>7 DEF PyOrder
  <2>4. /\ Through(Py!prologue(case), answered) /\ Spread(T, f, PyLost, inflight, answered)
        /\ \A p \in Py!gathered(case) : Settled(p)
    BY <2>3 DEF PyOrder
  <2> HIDE DEF h
  <2>5. \A p : Py!Faulty(p)' <=> Py!Faulty(p)
    BY <2>1, <2>2 DEF Py!Faulty, h
  <2>6. \A p : p # g.for => Py!CallsFor(p)' = Py!CallsFor(p)
    BY <2>1 DEF Py!CallsFor, Py!InPrologue
  <2>7. PyLost' = PyLost /\ \A x \in T : x[2] = g.for => x \in PyLost
    BY <1>2, <1>7, <2>1, <2>5 DEF PyLost, Py!Faulty
  <2>8. \A c \in Py!CallsFor(g.for), x \in T : At(f[x], c, answered) => x[2] = g.for
    BY PyApart DEF Py!CallsFor
  <2>9. \A p \in Py!gathered(case) : Settled(p)'
    BY <1>2, <1>7, <2>1, <2>4, <2>5, <2>6 DEF Py!Faulty
  <2>10. \A d \in faults' : d.error \notin {"running", "granted"}
    BY <1>7, <2>1, <2>2 DEF PyOrder, h
  <2> HIDE DEF T, f, Settled
  <2>11. Spread(T, f, PyLost', inflight', answered)
    BY <2>1, <2>4, <2>7, <2>8, SpreadLoss
  <2> QED  BY <1>11, <2>1, <2>3, <2>4, <2>9, <2>10, <2>11
<1>8. ASSUME NEW g \in faults, Py!CancelReports(g)  PROVE PyOrder'
  BY <1>1, <1>8 DEF Py!CancelReports, PyOrder
<1>9. CASE Py!Close
  BY <1>1, <1>9 DEF Py!Close
<1>10. CASE Py!Done
  <2>1. /\ case' = case /\ inflight' = inflight /\ answered' = answered
        /\ outcome' = outcome /\ faults' = faults /\ outcome # "running"
    BY <1>10 DEF Py!Done, Py!vars
  <2> QED  BY <1>2, <2>1 DEF PyOrder
<1> QED  BY <1>5, <1>6, <1>7, <1>8, <1>9, <1>10 DEF Py!Next

-----------------------------------------------------------------------------
(* The order of verifications. *)

PreflightOrder ==
    /\ language = "rust" => RustOrder
    /\ language = "js" => JsOrder
    /\ language = "py" => PyOrder

LEMMA OrderInvariance == PreflightSpec => []PreflightOrder
<1>1. ASSUME PreflightInit  PROVE PreflightOrder
  <2>1. ASSUME language = "rust", Rust!Init  PROVE RustOrder
    <3>1. /\ case \in Cases /\ inflight = {Call("evidence", 0)}
          /\ answered = {} /\ outcome = "running"
      BY <2>1, RustSteps DEF Rust!Init
    <3> QED  BY <3>1, RustBegins DEF RustOrder, Solo
  <2>2. ASSUME language = "js", Js!Init  PROVE JsOrder
    <3>1. /\ case \in Cases /\ inflight = {Call("evidence", 0)}
          /\ answered = {} /\ outcome = "running"
      BY <2>2, JsSteps DEF Js!Init
    <3> QED  BY <3>1, JsBegins DEF JsOrder, Solo
  <2>3. ASSUME language = "py", Py!Init  PROVE PyOrder
    <3>1. /\ case \in Cases /\ inflight = {Call("evidence", 0)}
          /\ answered = {} /\ outcome = "running" /\ faults = {}
      BY <2>3, PySteps DEF Py!Init
    <3> QED  BY <3>1, PyBegins DEF PyOrder, Solo
  <2> QED  BY <1>1, <2>1, <2>2, <2>3 DEF PreflightInit, PreflightOrder
<1>2. ASSUME PreflightOrder, [PreflightNext]_preflightVars  PROVE PreflightOrder'
  <2>1. CASE UNCHANGED preflightVars
    <3>1. /\ case' = case /\ inflight' = inflight /\ answered' = answered
          /\ outcome' = outcome /\ faults' = faults /\ language' = language
      BY <2>1 DEF preflightVars
    <3>2. RustOrder => RustOrder'
      BY <3>1 DEF RustOrder, Solo, RustReports
    <3>3. JsOrder => JsOrder'
      BY <3>1 DEF JsOrder, Solo, JsTracks, JsLost
    <3>4. PyOrder => PyOrder'
      <4>1. /\ PyTracks' = PyTracks /\ PyTasks' = PyTasks /\ PyLost' = PyLost
            /\ \A p : /\ Py!Faulty(p)' = Py!Faulty(p) /\ PyKey(p)' = PyKey(p)
                      /\ Py!CallsFor(p)' = Py!CallsFor(p)
        BY <3>1 DEF PyTracks, PyTasks, PyLost, PyKey, Py!Faulty, Py!CallsFor
      <4> QED  BY <3>1, <4>1 DEF PyOrder, Solo
    <3> QED  BY <1>2, <3>1, <3>2, <3>3, <3>4 DEF PreflightOrder
  <2>2. CASE PreflightNext
    <3>1. language' = language
      BY <2>2 DEF PreflightNext
    <3>2. CASE language = "rust" /\ Rust!Next
      BY <1>2, <3>1, <3>2, RustInOrder DEF PreflightOrder
    <3>3. CASE language = "go"
      BY <3>1, <3>3 DEF PreflightOrder
    <3>4. CASE language = "js" /\ Js!Next
      BY <1>2, <3>1, <3>4, JsInOrder DEF PreflightOrder
    <3>5. CASE language = "py" /\ Py!Next
      BY <1>2, <3>1, <3>5, PyInOrder DEF PreflightOrder
    <3> QED  BY <2>2, <3>2, <3>3, <3>4, <3>5 DEF PreflightNext
  <2> QED  BY <1>2, <2>1, <2>2
<1> QED  BY <1>1, <1>2, PTL DEF PreflightSpec

(***************************************************************************)
(* Whatever the cases: when a Rust, JavaScript or Python client grants a   *)
(* session, every step of every verification has passed.                   *)
(***************************************************************************)
THEOREM VerifiedBeforeGranted == PreflightSpec => []GrantedIsVerified
<1>1. \A steps : Fulfilled(steps) = Through(steps, answered)
  BY DEF Fulfilled, Through
<1>2. ASSUME PreflightOrder  PROVE GrantedIsVerified
  <2>1. ASSUME outcome = "granted", PyOrder, NEW p \in Py!gathered(case)
        PROVE  /\ \A track \in Py!Tracks : Fulfilled(Py!StepsIn(case, track, p))
               /\ Py!verify_signing_public_key(Py!report(case, p))
    <3>1. ASSUME NEW track \in Py!Tracks  PROVE Fulfilled(Py!StepsIn(case, track, p))
      <4> DEFINE x == <<track, p>>
      <4>1. x \in PyTracks /\ x[1] = track /\ x[2] = p
        BY <2>1, <3>1 DEF PyTracks
      <4>2. Through(PyTasks[x], answered)
        BY <2>1, <4>1 DEF PyOrder
      <4>3. PyTasks[x] = Py!StepsIn(case, x[1], x[2])
        BY <4>1, PyApart
      <4> QED  BY <1>1, <4>1, <4>2, <4>3
    <3> QED  BY <2>1, <3>1 DEF PyOrder, PyKey
  <2> QED  BY <1>1, <1>2, <2>1 DEF GrantedIsVerified, PreflightOrder, RustOrder, JsOrder, PyOrder
<1> QED  BY <1>2, OrderInvariance, PTL

(***************************************************************************)
(* Whatever the cases: a Rust, JavaScript or Python client sends the API   *)
(* key to nobody before the Gateway has passed all of its checks.          *)
(***************************************************************************)
THEOREM GuardedKey == PreflightSpec => []KeyIsGuarded
<1>1. \A steps : Fulfilled(steps) = Through(steps, answered)
  BY DEF Fulfilled, Through
<1>2. ASSUME PreflightOrder, inflight \cap {Call("catalog", 0), Call("reports", 0)} # {}
      PROVE  KeyIsGuarded
  <2>1. PICK c \in inflight : c = Call("catalog", 0) \/ c = Call("reports", 0)
    BY <1>2
  <2>2. c.to \in Keyed /\ c.for = 0
    BY <2>1 DEF Keyed, Call
  <2>3. CASE language = "rust"
    <3>1. RustOrder /\ outcome = "running"
      BY <1>2, <2>3 DEF PreflightOrder, RustOrder
    <3>2. At(Rust!Prologue(case), c, answered)
      BY <2>2, <3>1, RustOwner
    <3> QED  BY <1>1, <2>2, <2>3, <3>2, RustPrologue DEF KeyIsGuarded
  <2>4. CASE language = "js"
    <3>1. At(Js!sequel(case), c, answered)
      BY <1>2, <2>2, <2>4, JsOwner DEF PreflightOrder
    <3> QED  BY <1>1, <2>2, <2>4, <3>1, JsPrologue DEF KeyIsGuarded
  <2>5. CASE language = "py"
    <3>1. PyOrder /\ outcome = "running"
      BY <1>2, <2>5 DEF PreflightOrder, PyOrder
    <3>2. At(Py!prologue(case), c, answered)
      BY <2>2, <3>1, PyOwner DEF Py!InPrologue
    <3> QED  BY <1>1, <2>2, <2>5, <3>2, PyPrologue DEF KeyIsGuarded
  <2> QED  BY <2>3, <2>4, <2>5 DEF KeyIsGuarded
<1>3. PreflightOrder => KeyIsGuarded
  BY <1>2 DEF KeyIsGuarded
<1> QED  BY <1>3, OrderInvariance, PTL
=============================================================================
