------------------------ MODULE ClientSessions_proofs ------------------------
(***************************************************************************)
(* Proofs about the JavaScript and Python deployment caches for any        *)
(* models, callers, checks and TLS keys, any TTL and any clock bound.      *)
(*                                                                         *)
(* The invariant of either follows a check from startVerification to its   *)
(* own callback: while it lives it is the pending check of its model, and  *)
(* nothing fresh is cached for that model.  In Python it also follows      *)
(* aclose: what lives once the tasks are cancelled is awaited, so nothing  *)
(* lives when the HTTP clients are closed.                                 *)
(***************************************************************************)
EXTENDS ClientSessions, TLAPS

CachedIsDone(models) ==
    \A m \in models : sessions[m] # None => run[sessions[m]] = "done"

-----------------------------------------------------------------------------
(***************************************************************************)
(* JavaScript: startVerification.                                          *)
(***************************************************************************)
JsPendingIsLive ==
    \A m \in Models : pending[m] # None =>
        run[pending[m]] \in Js!Live /\ model[pending[m]] = m

JsLiveIsPending ==
    \A p \in Checks :
        run[p] \in Js!Live => model[p] \in Models /\ pending[model[p]] = p

JsNothingFresh ==
    \A p \in Checks : run[p] \in Js!Live => ~Js!Fresh(model[p])

JsInv ==
    /\ Js!TypeOK
    /\ JsPendingIsLive
    /\ JsLiveIsPending
    /\ JsNothingFresh
    /\ CachedIsDone(Models)

LEMMA JsPrunedOK ==
    ASSUME Js!TypeOK
    PROVE  /\ Js!Pruned \in [Models -> Checks \cup {None}]
           /\ \A m \in Models : Js!Pruned[m] \in {None, sessions[m]}
           /\ \A m \in Models : Js!Pruned[m] # None <=> Js!Fresh(m)
BY ClientSessionsAssumption DEF Js!Pruned, Js!Fresh, Js!TypeOK

LEMMA JsInitInv == Js!Init => JsInv
BY ClientSessionsAssumption
   DEF Js!Init, JsInv, Js!TypeOK, JsPendingIsLive, JsLiveIsPending,
       JsNothingFresh, CachedIsDone, Js!Live

(***************************************************************************)
(* A cached session that is dropped, or that time overtakes, makes nothing *)
(* fresh.                                                                  *)
(***************************************************************************)
LEMMA JsAgeing ==
    ASSUME JsInv, UNCHANGED <<expires, pending, run, model>>,
           clock' \in {clock, clock + 1}, clock' \in 0..MaxClock,
           sessions' = sessions \/ sessions' = Js!Pruned,
           pc' \in [Callers -> {"idle", "waiting"}],
           fut' \in [Callers -> Checks \cup {None}]
    PROVE  JsInv'
<1> USE ClientSessionsAssumption DEF JsInv
<1>1. /\ sessions' \in [Models -> Checks \cup {None}]
      /\ \A m \in Models : sessions'[m] \in {None, sessions[m]}
  BY JsPrunedOK DEF Js!TypeOK
<1>2. Js!TypeOK'
  BY <1>1 DEF Js!TypeOK, Js!Live
<1>3. JsPendingIsLive' /\ JsLiveIsPending'
  BY DEF JsPendingIsLive, JsLiveIsPending
<1>4. CachedIsDone(Models)'
  BY <1>1 DEF CachedIsDone
<1>5. JsNothingFresh'
  <2> SUFFICES ASSUME NEW p \in Checks, run[p] \in Js!Live
               PROVE  ~Js!Fresh(model[p])'
    BY DEF JsNothingFresh
  <2>1. model[p] \in Models /\ ~Js!Fresh(model[p])
    BY DEF JsLiveIsPending, JsNothingFresh
  <2>2. CASE sessions[model[p]] = None
    BY <1>1, <2>1, <2>2 DEF Js!Fresh
  <2>3. CASE sessions[model[p]] # None
    <3>1. /\ sessions[model[p]] \in Checks
          /\ expires[sessions[model[p]]] \in Nat
          /\ clock \in Nat
      BY <2>1, <2>3 DEF Js!TypeOK
    <3>2. clock' >= expires[sessions[model[p]]]
      BY <2>1, <2>3, <3>1 DEF Js!Fresh
    <3> QED  BY <1>1, <2>1, <3>1, <3>2 DEF Js!Fresh
  <2> QED  BY <2>2, <2>3
<1> QED  BY <1>2, <1>3, <1>4, <1>5

LEMMA JsLaunchInv ==
    ASSUME JsInv, NEW c \in Callers, NEW m \in Models, NEW p \in Checks,
           Js!Launch(c, m, p)
    PROVE  JsInv'
<1> USE ClientSessionsAssumption
    DEF JsInv, Js!Launch, Js!FreeCheck, Js!Started, Js!Await
<1>1. /\ sessions' \in [Models -> Checks \cup {None}]
      /\ \A n \in Models : sessions'[n] \in {None, sessions[n]} \ {p}
  <2>1. sessions' = Js!Pruned /\ \A n \in Models : p # sessions[n]
    OBVIOUS
  <2> QED  BY <2>1, JsPrunedOK
<1>2. Js!TypeOK'
  <2>1. run' \in [Checks -> Js!Live \cup {"free", "done", "error"}]
    BY DEF Js!TypeOK, Js!Live
  <2>2. /\ model' \in [Checks -> Models \cup {None}]
        /\ pending' \in [Models -> Checks \cup {None}]
    BY DEF Js!TypeOK
  <2>3. expires' \in [Checks -> 0..(MaxClock + TTL)]
    BY DEF Js!TypeOK
  <2>4. /\ pc' \in [Callers -> {"idle", "waiting"}]
        /\ fut' \in [Callers -> Checks \cup {None}]
    BY DEF Js!TypeOK
  <2> QED  BY <1>1, <2>1, <2>2, <2>3, <2>4 DEF Js!TypeOK
<1>3. JsPendingIsLive' /\ JsLiveIsPending'
  BY DEF JsPendingIsLive, JsLiveIsPending, Js!Live, Js!TypeOK
<1>4. CachedIsDone(Models)'
  BY <1>1 DEF CachedIsDone, Js!TypeOK
<1>5. \A n \in Models : Js!Fresh(n)' => Js!Fresh(n)
  BY <1>1 DEF Js!Fresh, Js!TypeOK
<1>6. JsNothingFresh'
  <2> SUFFICES ASSUME NEW q \in Checks, run'[q] \in Js!Live
               PROVE  ~Js!Fresh(model[q])'
    BY DEF JsNothingFresh
  <2>1. CASE q = p
    BY <2>1, <1>5 DEF Js!TypeOK, Js!Fresh
  <2>2. CASE q # p
    <3>1. run[q] \in Js!Live /\ model'[q] = model[q] /\ model[q] \in Models
      BY <2>2 DEF Js!TypeOK, JsLiveIsPending
    <3> QED  BY <3>1, <1>5 DEF JsNothingFresh, Js!Fresh
  <2> QED  BY <2>1, <2>2
<1> QED  BY <1>2, <1>3, <1>4, <1>6

LEMMA JsSettleInv ==
    ASSUME JsInv, NEW p \in Checks, Js!Settle(p)
    PROVE  JsInv'
<1> USE DEF JsInv, Js!Settle, Js!cacheVars, Js!callerVars
<1>1. Js!TypeOK'
  BY DEF Js!TypeOK, Js!Live
<1>2. JsPendingIsLive' /\ JsLiveIsPending' /\ JsNothingFresh'
  BY DEF JsPendingIsLive, JsLiveIsPending, JsNothingFresh, Js!Live, Js!Fresh,
         Js!TypeOK
<1>3. CachedIsDone(Models)'
  BY DEF CachedIsDone, Js!TypeOK
<1> QED  BY <1>1, <1>2, <1>3

LEMMA JsHandleInv ==
    ASSUME JsInv, NEW p \in Checks, Js!Handle(p)
    PROVE  JsInv'
<1> DEFINE m == model[p]
<1> USE ClientSessionsAssumption
    DEF JsInv, Js!Handle, Js!Due, Js!callerVars
<1>1. m \in Models /\ pending[m] = p /\ run[p] \in Js!Live
  BY DEF JsLiveIsPending, Js!Live
<1>2. pending' = [pending EXCEPT ![m] = None]
  BY <1>1 DEF Js!Cleared
<1>3. Js!TypeOK'
  BY <1>1, <1>2 DEF Js!TypeOK, Js!Live
<1>4. \A q \in Checks :
          run'[q] \in Js!Live => q # p /\ run[q] \in Js!Live /\ model[q] # m
  BY <1>1 DEF JsLiveIsPending, Js!Live, Js!TypeOK
<1>5. JsLiveIsPending'
  BY <1>1, <1>2, <1>4 DEF JsLiveIsPending, Js!TypeOK
<1>6. JsPendingIsLive'
  <2> SUFFICES ASSUME NEW n \in Models, pending'[n] # None
               PROVE  run'[pending'[n]] \in Js!Live /\ model[pending'[n]] = n
    BY DEF JsPendingIsLive
  <2>1. n # m /\ pending'[n] = pending[n] /\ pending[n] \in Checks
    BY <1>1, <1>2 DEF Js!TypeOK
  <2>2. run[pending[n]] \in Js!Live /\ model[pending[n]] = n
    BY <2>1 DEF JsPendingIsLive
  <2> QED  BY <2>1, <2>2 DEF Js!TypeOK
<1>7. CachedIsDone(Models)'
  BY <1>1 DEF CachedIsDone, Js!Cacheable, Js!TypeOK
<1>8. \A n \in Models \ {m} : Js!Fresh(n)' => Js!Fresh(n)
  <2> SUFFICES ASSUME NEW n \in Models \ {m}, Js!Fresh(n)'
               PROVE  Js!Fresh(n)
    OBVIOUS
  <2>1. sessions'[n] = sessions[n] /\ sessions[n] # None
    BY <1>1 DEF Js!Fresh, Js!TypeOK
  <2>2. sessions[n] # p
    BY <2>1 DEF CachedIsDone
  <2> QED  BY <2>1, <2>2 DEF Js!Fresh, Js!TypeOK
<1>9. JsNothingFresh'
  <2> SUFFICES ASSUME NEW q \in Checks, run'[q] \in Js!Live
               PROVE  ~Js!Fresh(model[q])'
    BY DEF JsNothingFresh
  <2>1. model[q] \in Models \ {m} /\ ~Js!Fresh(model[q]) /\ model'[q] = model[q]
    BY <1>4 DEF JsLiveIsPending, JsNothingFresh
  <2> QED  BY <2>1, <1>8 DEF Js!Fresh
<1> QED  BY <1>3, <1>5, <1>6, <1>7, <1>9

LEMMA JsStepInv == JsInv /\ [Js!Next]_(Js!vars) => JsInv'
<1> SUFFICES ASSUME JsInv, [Js!Next]_(Js!vars) PROVE JsInv'
  OBVIOUS
<1> USE DEF Js!cacheVars, Js!checkVars, Js!callerVars
<1>t. /\ pc \in [Callers -> {"idle", "waiting"}]
      /\ fut \in [Callers -> Checks \cup {None}]
      /\ pending \in [Models -> Checks \cup {None}]
      /\ clock \in 0..MaxClock
  BY DEF JsInv, Js!TypeOK
<1>1. ASSUME NEW c \in Callers, NEW m \in Models, Js!Hit(c, m) \/ Js!Join(c, m)
      PROVE  JsInv'
  <2>1. /\ pc' \in [Callers -> {"idle", "waiting"}]
        /\ fut' \in [Callers -> Checks \cup {None}]
    BY <1>1, <1>t DEF Js!Hit, Js!Join, Js!Await
  <2> QED
    BY <1>1, <1>t, <2>1, JsAgeing DEF Js!Hit, Js!Join, Js!Started
<1>2. ASSUME NEW c \in Callers, Js!Answer(c) \/ Js!GiveUp(c)
      PROVE  JsInv'
  BY <1>2, <1>t, JsAgeing DEF Js!Answer, Js!GiveUp, Js!Return
<1>3. CASE Js!Tick
  BY <1>3, <1>t, JsAgeing, ClientSessionsAssumption DEF Js!Tick
<1>4. CASE UNCHANGED Js!vars
  BY <1>4, <1>t, JsAgeing DEF Js!vars
<1> QED
  BY <1>1, <1>2, <1>3, <1>4, JsLaunchInv, JsSettleInv, JsHandleInv
     DEF Js!Next, Js!Enter, Js!CheckStep

-----------------------------------------------------------------------------
(***************************************************************************)
(* JavaScript: what Sessions sees of each step.  A promise that has        *)
(* settled is still running until its own handler has run.                 *)
(***************************************************************************)
JsPhase == [p \in Checks |-> Js!PhaseOf(p)]
JsStale == {m \in Models : sessions[m] # None /\ ~Js!Fresh(m)}

LEMMA JsInitRefines == Js!Init => Js!Promise!Init
BY ClientSessionsAssumption
   DEF Js!Init, Js!Promise!Init, Js!PhaseOf, Js!Live, Js!Fresh

LEMMA JsPrunedDrops ==
    ASSUME Js!TypeOK
    PROVE  Js!Pruned = Js!Promise!Without(JsStale)
BY DEF Js!Pruned, Js!Promise!Without, JsStale, Js!TypeOK

LEMMA JsStutterRefines ==
    ASSUME UNCHANGED <<clock, sessions, expires, model>>, JsPhase' = JsPhase
    PROVE  UNCHANGED Js!Promise!vars
BY DEF Js!Promise!vars, JsPhase, Js!Fresh

LEMMA JsSamePhase ==
    ASSUME UNCHANGED run
    PROVE  JsPhase' = JsPhase
BY DEF JsPhase, Js!PhaseOf

(***************************************************************************)
(* removeExpiredVerifications leaves nothing that has lapsed.              *)
(***************************************************************************)
LEMMA JsNoneStale ==
    ASSUME Js!TypeOK, sessions' = Js!Pruned, UNCHANGED clock,
           \A m \in Models : Js!Fresh(m) =>
               expires'[sessions[m]] = expires[sessions[m]]
    PROVE  JsStale' = JsStale \ JsStale
<1>1. \A m \in Models : sessions'[m] # None => Js!Fresh(m)'
  <2> SUFFICES ASSUME NEW m \in Models, sessions'[m] # None
               PROVE  Js!Fresh(m)'
    OBVIOUS
  <2>1. Js!Fresh(m) /\ sessions'[m] = sessions[m]
    BY JsPrunedOK
  <2> QED  BY <2>1 DEF Js!Fresh
<1> QED  BY <1>1 DEF JsStale

LEMMA JsDropRefines ==
    ASSUME Js!TypeOK, sessions' = Js!Pruned,
           UNCHANGED <<clock, expires, run, model>>
    PROVE  Js!Promise!Drop
<1>1. sessions' = Js!Promise!Without(JsStale)
  BY JsPrunedDrops
<1>2. JsStale' = JsStale \ JsStale /\ JsStale \in SUBSET JsStale
  BY JsNoneStale
<1> QED
  BY <1>1, <1>2, JsSamePhase DEF Js!Promise!Drop, JsPhase, JsStale

LEMMA JsTickRefines ==
    ASSUME Js!TypeOK, Js!Tick
    PROVE  Js!Promise!Lapse
<1> USE ClientSessionsAssumption DEF Js!Tick, Js!cacheVars, Js!checkVars
<1>1. /\ JsStale \subseteq JsStale'
      /\ JsStale' \subseteq {m \in Models : sessions[m] # None}
  BY DEF JsStale, Js!Fresh, Js!TypeOK
<1>2. JsStale' = JsStale \cup JsStale'
  BY <1>1
<1> QED
  BY <1>1, <1>2, JsSamePhase DEF Js!Promise!Lapse, JsPhase, JsStale

LEMMA JsLaunchRefines ==
    ASSUME JsInv, NEW c \in Callers, NEW m \in Models, NEW p \in Checks,
           Js!Launch(c, m, p)
    PROVE  Js!Promise!Launch(p, m)
<1> USE ClientSessionsAssumption
    DEF JsInv, Js!Launch, Js!FreeCheck, Js!Started
<1>1. JsPhase[p] # "running" /\ JsPhase' = [JsPhase EXCEPT ![p] = "running"]
  BY DEF JsPhase, Js!PhaseOf, Js!Live, Js!TypeOK
<1>2. \A q \in Checks : JsPhase[q] = "running" => model[q] # m
  BY DEF JsPhase, Js!PhaseOf, JsLiveIsPending
<1>3. sessions[m] = None \/ m \in JsStale
  BY DEF JsStale
<1>4. /\ sessions' = Js!Promise!Without(JsStale)
      /\ JsStale \in SUBSET JsStale
  BY JsPrunedDrops
<1>5. \A n \in Models : Js!Promise!Without(JsStale)[n] # p
  <2>1. \A n \in Models : p # sessions[n] /\ p # None
    OBVIOUS
  <2> QED  BY <2>1, JsPrunedOK, JsPrunedDrops
<1>6. JsStale' = JsStale \ JsStale
  <2>1. \A n \in Models : expires'[sessions[n]] = expires[sessions[n]]
    BY DEF Js!TypeOK
  <2> QED  BY <2>1, JsNoneStale
<1>7. model' = [model EXCEPT ![p] = m]
  OBVIOUS
<1> QED
  BY <1>1, <1>2, <1>3, <1>4, <1>5, <1>6, <1>7
     DEF Js!Promise!Launch, JsPhase, JsStale

LEMMA JsSettleRefines ==
    ASSUME Js!TypeOK, NEW p \in Checks, Js!Settle(p)
    PROVE  UNCHANGED Js!Promise!vars
<1> USE DEF Js!Settle, Js!cacheVars
<1>1. JsPhase' = JsPhase
  BY DEF JsPhase, Js!PhaseOf, Js!Live, Js!TypeOK
<1> QED  BY <1>1, JsStutterRefines

(***************************************************************************)
(* The handler replaces nothing but an expired session of its own model.   *)
(***************************************************************************)
LEMMA JsHandleRefines ==
    ASSUME JsInv, NEW p \in Checks, Js!Handle(p)
    PROVE  Js!Promise!Cache(p) \/ Js!Promise!Finish(p)
<1> DEFINE m == model[p]
           gone == JsStale \cap {m}
<1> USE ClientSessionsAssumption DEF JsInv, Js!Handle, Js!Due
<1>1. m \in Models /\ ~Js!Fresh(m) /\ run[p] \in Js!Live
  BY DEF JsLiveIsPending, JsNothingFresh, Js!Live
<1>2. /\ JsPhase[p] = "running"
      /\ JsPhase' = [JsPhase EXCEPT ![p] = IF run[p] = "ok" THEN "verified"
                                          ELSE "idle"]
  BY <1>1 DEF JsPhase, Js!PhaseOf, Js!Live, Js!TypeOK
<1>3. CASE Js!Cacheable(p)
  <2>1. JsPhase' = [JsPhase EXCEPT ![p] = "verified"]
    BY <1>2, <1>3 DEF Js!Cacheable
  <2>2. Js!Promise!Without(gone)[m] = None
    BY <1>1 DEF Js!Promise!Without, JsStale
  <2>3. sessions' = [Js!Promise!Without(gone) EXCEPT ![m] = p]
    BY <1>1, <1>3 DEF Js!Promise!Without, Js!TypeOK
  <2>4. \A n \in Models \ {m} :
            sessions'[n] = sessions[n] /\ (Js!Fresh(n)' <=> Js!Fresh(n))
    <3> SUFFICES ASSUME NEW n \in Models \ {m}
                 PROVE  sessions'[n] = sessions[n]
                            /\ (Js!Fresh(n)' <=> Js!Fresh(n))
      OBVIOUS
    <3>1. sessions'[n] = sessions[n] /\ sessions[n] # p
      BY <1>1, <1>3 DEF CachedIsDone, Js!TypeOK
    <3> QED  BY <1>3, <3>1 DEF Js!Fresh, Js!TypeOK
  <2>5. Js!Fresh(m)'
    <3>1. sessions'[m] = p /\ expires'[p] = clock + TTL /\ TTL > 0
      BY <1>1, <1>3 DEF Js!Cacheable, Js!TypeOK
    <3> QED  BY <1>1, <3>1 DEF Js!Fresh, Js!TypeOK
  <2>6. JsStale' = JsStale \ gone /\ gone \in SUBSET JsStale
    BY <1>1, <2>4, <2>5 DEF JsStale
  <2>7. Js!Promise!Cache(p)
    BY <1>2, <2>1, <2>2, <2>3, <2>6 DEF Js!Promise!Cache, JsPhase, JsStale
  <2> QED  BY <2>7
<1>4. CASE ~Js!Cacheable(p)
  <2>1. JsPhase' \in {[JsPhase EXCEPT ![p] = r] : r \in {"idle", "verified"}}
    BY <1>2
  <2>2. JsStale' = JsStale /\ sessions' = sessions
    BY <1>4 DEF JsStale, Js!Fresh
  <2> QED
    BY <1>2, <2>1, <2>2 DEF Js!Promise!Finish, JsPhase, JsStale
<1> QED  BY <1>3, <1>4

LEMMA JsStepRefines ==
    ASSUME JsInv, [Js!Next]_(Js!vars)
    PROVE  [Js!Promise!Next]_(Js!Promise!vars)
<1> USE DEF JsInv, Js!cacheVars, Js!checkVars
<1>1. ASSUME NEW c \in Callers, NEW m \in Models, Js!Enter(c, m)
      PROVE  Js!Promise!Next
  BY <1>1, JsDropRefines, JsLaunchRefines
     DEF Js!Enter, Js!Hit, Js!Join, Js!Started, Js!Promise!Next
<1>2. ASSUME NEW c \in Callers, Js!Answer(c) \/ Js!GiveUp(c)
      PROVE  UNCHANGED Js!Promise!vars
  BY <1>2, JsSamePhase, JsStutterRefines DEF Js!Answer, Js!GiveUp
<1>3. ASSUME NEW p \in Checks, Js!CheckStep(p)
      PROVE  Js!Promise!Next \/ UNCHANGED Js!Promise!vars
  BY <1>3, JsSettleRefines, JsHandleRefines DEF Js!CheckStep, Js!Promise!Next
<1>4. CASE Js!Tick
  BY <1>4, JsTickRefines DEF Js!Promise!Next
<1>5. CASE UNCHANGED Js!vars
  BY <1>5, JsSamePhase, JsStutterRefines DEF Js!vars
<1> QED  BY <1>1, <1>2, <1>3, <1>4, <1>5 DEF Js!Next

-----------------------------------------------------------------------------
(***************************************************************************)
(* Python: _start_verification and aclose.                                 *)
(***************************************************************************)
PyPendingIsLive ==
    \A m \in Models : pending[m] # None =>
        run[pending[m]] \in Py!Live /\ model[pending[m]] = m

PyLiveIsPending ==
    \A p \in Checks :
        run[p] \in Py!Live => model[p] \in Models /\ pending[model[p]] = p

PyNothingFresh ==
    \A p \in Checks : run[p] \in Py!Live => ~Py!Fresh(model[p])

(* What aclose has not cancelled and awaits does not live; nothing lives   *)
(* once the awaited tasks have ended, and no HTTP client opens from then.  *)
Cancelled == close \notin {"open", "shut"}
Ended == close \in {"disconnecting", "returned"}

LiveIsAwaited ==
    Cancelled => \A p \in Checks : run[p] \in Py!Live => p \in awaited

EndedIsQuiet ==
    Ended => unclosed = {} /\ \A p \in Checks : run[p] \notin Py!Live

UnclosedIsKnown == close # "returned" => unclosed \subseteq clients

PyInv ==
    /\ Py!TypeOK
    /\ PyPendingIsLive
    /\ PyLiveIsPending
    /\ PyNothingFresh
    /\ CachedIsDone(Models)
    /\ LiveIsAwaited
    /\ EndedIsQuiet
    /\ UnclosedIsKnown
    /\ Py!NothingLeft

LEMMA PyPrunedOK ==
    ASSUME Py!TypeOK
    PROVE  /\ Py!Pruned \in [Models -> Checks \cup {None}]
           /\ \A m \in Models : Py!Pruned[m] \in {None, sessions[m]}
           /\ \A m \in Models : Py!Pruned[m] # None <=> Py!Fresh(m)
BY ClientSessionsAssumption DEF Py!Pruned, Py!Fresh, Py!TypeOK

LEMMA PyInitInv == Py!Init => PyInv
<1> SUFFICES ASSUME Py!Init PROVE PyInv
  OBVIOUS
<1> USE ClientSessionsAssumption DEF Py!Init
<1>1. Py!TypeOK
  BY DEF Py!TypeOK, Py!Live, Py!Unended
<1>2. /\ PyPendingIsLive /\ PyLiveIsPending /\ PyNothingFresh
      /\ CachedIsDone(Models)
  BY DEF PyPendingIsLive, PyLiveIsPending, PyNothingFresh, CachedIsDone,
         Py!Live, Py!Unended
<1>3. LiveIsAwaited /\ EndedIsQuiet /\ UnclosedIsKnown /\ Py!NothingLeft
  BY DEF LiveIsAwaited, EndedIsQuiet, UnclosedIsKnown, Py!NothingLeft,
         Cancelled, Ended
<1> QED  BY <1>1, <1>2, <1>3 DEF PyInv

(***************************************************************************)
(* A cached session that is dropped, or that time overtakes, makes nothing *)
(* fresh.                                                                  *)
(***************************************************************************)
LEMMA PyAgeing ==
    ASSUME PyInv, UNCHANGED <<expires, pending, run, model>>,
           clock' \in {clock, clock + 1}, clock' \in 0..MaxClock,
           \A m \in Models : sessions'[m] \in {None, sessions[m]}
    PROVE  /\ PyPendingIsLive' /\ PyLiveIsPending' /\ PyNothingFresh'
           /\ CachedIsDone(Models)'
<1> USE ClientSessionsAssumption DEF PyInv
<1>1. PyPendingIsLive' /\ PyLiveIsPending'
  BY DEF PyPendingIsLive, PyLiveIsPending
<1>2. CachedIsDone(Models)'
  BY DEF CachedIsDone
<1>3. PyNothingFresh'
  <2> SUFFICES ASSUME NEW p \in Checks, run[p] \in Py!Live
               PROVE  ~Py!Fresh(model[p])'
    BY DEF PyNothingFresh
  <2>1. model[p] \in Models /\ ~Py!Fresh(model[p])
    BY DEF PyLiveIsPending, PyNothingFresh
  <2>2. CASE sessions[model[p]] = None
    BY <2>1, <2>2 DEF Py!Fresh
  <2>3. CASE sessions[model[p]] # None
    <3>1. /\ sessions[model[p]] \in Checks
          /\ expires[sessions[model[p]]] \in Nat
          /\ clock \in Nat
      BY <2>1, <2>3 DEF Py!TypeOK
    <3>2. clock' >= expires[sessions[model[p]]]
      BY <2>1, <2>3, <3>1 DEF Py!Fresh
    <3> QED  BY <2>1, <3>1, <3>2 DEF Py!Fresh
  <2> QED  BY <2>2, <2>3
<1> QED  BY <1>1, <1>2, <1>3

(***************************************************************************)
(* A step that leaves aclose alone disturbs what it has achieved only by   *)
(* bringing a check to life, opening a client or caching a session.        *)
(***************************************************************************)
LEMMA PyCloseKept ==
    ASSUME PyInv, close' = close, awaited' = awaited,
           \/ ~Cancelled
           \/ \A p \in Checks : run'[p] \in Py!Live => run[p] \in Py!Live,
           \/ clients' = clients /\ unclosed' = unclosed
           \/ UnclosedIsKnown' /\ ~Ended,
           \/ ~Ended
           \/ \A m \in Models : sessions'[m] \in {None, sessions[m]}
    PROVE  LiveIsAwaited' /\ EndedIsQuiet' /\ UnclosedIsKnown' /\ Py!NothingLeft'
<1> USE DEF PyInv, Cancelled, Ended
<1>1. LiveIsAwaited'
  BY DEF LiveIsAwaited
<1>2. EndedIsQuiet'
  BY DEF EndedIsQuiet
<1>3. UnclosedIsKnown'
  BY DEF UnclosedIsKnown
<1>4. Py!NothingLeft'
  BY <1>2 DEF Py!NothingLeft, EndedIsQuiet
<1> QED  BY <1>1, <1>2, <1>3, <1>4

LEMMA PyCallerInv ==
    ASSUME PyInv, NEW c \in Callers,
           \/ \E m \in Models :
                  Py!Hit(c, m) \/ Py!JoinEnded(c, m) \/ Py!Join(c, m)
           \/ Py!Answer(c) \/ Py!GiveUp(c)
    PROVE  PyInv'
<1>1. /\ UNCHANGED <<clock, close, awaited, expires, pending, run, model,
                     clients, unclosed>>
      /\ sessions' = sessions \/ sessions' = Py!Pruned
  BY DEF Py!Hit, Py!JoinEnded, Py!Join, Py!Answer, Py!GiveUp, Py!Started,
         Py!cacheVars, Py!checkVars, Py!clientVars, Py!callerVars
<1>2. /\ sessions' \in [Models -> Checks \cup {None}]
      /\ \A m \in Models : sessions'[m] \in {None, sessions[m]}
  BY <1>1, PyPrunedOK DEF PyInv, Py!TypeOK
<1>3. /\ pc' \in [Callers -> {"idle", "waiting"}]
      /\ fut' \in [Callers -> Checks \cup {None}]
  BY DEF PyInv, Py!TypeOK, Py!Hit, Py!JoinEnded, Py!Join, Py!Answer,
         Py!GiveUp, Py!Await, Py!Return, Py!callerVars
<1>4. Py!TypeOK'
  BY <1>1, <1>2, <1>3 DEF PyInv, Py!TypeOK
<1>5. /\ PyPendingIsLive' /\ PyLiveIsPending' /\ PyNothingFresh'
      /\ CachedIsDone(Models)'
  <2>1. clock \in 0..MaxClock
    BY DEF PyInv, Py!TypeOK
  <2> QED  BY <1>1, <1>2, <2>1, PyAgeing
<1>6. /\ LiveIsAwaited' /\ EndedIsQuiet' /\ UnclosedIsKnown'
      /\ Py!NothingLeft'
  BY <1>1, <1>2, PyCloseKept
<1> QED  BY <1>4, <1>5, <1>6 DEF PyInv

LEMMA PyLaunchInv ==
    ASSUME PyInv, NEW c \in Callers, NEW m \in Models, NEW p \in Checks,
           Py!Launch(c, m, p)
    PROVE  PyInv'
<1> USE ClientSessionsAssumption
    DEF PyInv, Py!Launch, Py!FreeCheck, Py!Started, Py!Await, Py!clientVars
<1>1. /\ sessions' \in [Models -> Checks \cup {None}]
      /\ \A n \in Models : sessions'[n] \in {None, sessions[n]} \ {p}
  <2>1. sessions' = Py!Pruned /\ \A n \in Models : p # sessions[n]
    OBVIOUS
  <2> QED  BY <2>1, PyPrunedOK
<1>2. Py!TypeOK'
  <2>1. run' \in [Checks -> Py!Live \cup {"free", "done", "error"}]
    BY DEF Py!TypeOK, Py!Live, Py!Unended
  <2>2. /\ model' \in [Checks -> Models \cup {None}]
        /\ pending' \in [Models -> Checks \cup {None}]
    BY DEF Py!TypeOK
  <2>3. expires' \in [Checks -> 0..(MaxClock + TTL)]
    BY DEF Py!TypeOK
  <2>4. /\ pc' \in [Callers -> {"idle", "waiting"}]
        /\ fut' \in [Callers -> Checks \cup {None}]
    BY DEF Py!TypeOK
  <2> QED  BY <1>1, <2>1, <2>2, <2>3, <2>4 DEF Py!TypeOK
<1>3. PyPendingIsLive' /\ PyLiveIsPending'
  BY DEF PyPendingIsLive, PyLiveIsPending, Py!Live, Py!Unended, Py!TypeOK
<1>4. CachedIsDone(Models)'
  BY <1>1 DEF CachedIsDone, Py!TypeOK
<1>5. \A n \in Models : Py!Fresh(n)' => Py!Fresh(n)
  BY <1>1 DEF Py!Fresh, Py!TypeOK
<1>6. PyNothingFresh'
  <2> SUFFICES ASSUME NEW q \in Checks, run'[q] \in Py!Live
               PROVE  ~Py!Fresh(model[q])'
    BY DEF PyNothingFresh
  <2>1. CASE q = p
    BY <2>1, <1>5 DEF Py!TypeOK, Py!Fresh
  <2>2. CASE q # p
    <3>1. run[q] \in Py!Live /\ model'[q] = model[q] /\ model[q] \in Models
      BY <2>2 DEF Py!TypeOK, PyLiveIsPending
    <3> QED  BY <3>1, <1>5 DEF PyNothingFresh, Py!Fresh
  <2> QED  BY <2>1, <2>2
<1>7. close = "open"
  BY DEF Py!Admitted, Py!is_closed
<1>8. ~Cancelled /\ ~Ended
  BY <1>7 DEF Cancelled, Ended
<1> QED  BY <1>2, <1>3, <1>4, <1>6, <1>8, PyCloseKept

(***************************************************************************)
(* _create_session: a task that is still running may open a client.        *)
(***************************************************************************)
LEMMA PyProgressInv ==
    ASSUME PyInv, NEW p \in Checks,
           (\E k \in Keys : Py!Connect(p, k)) \/ Py!Finish(p)
    PROVE  PyInv'
<1> USE DEF PyInv, Py!Connect, Py!Finish, Py!cacheVars, Py!clientVars,
            Py!callerVars
<1>1. /\ run[p] \in Py!Live
      /\ \E r \in Py!Live : run' = [run EXCEPT ![p] = r]
      /\ UNCHANGED <<clock, close, awaited, sessions, expires, pending, model,
                     pc, fut>>
  BY DEF Py!Live, Py!Unended, Py!Outcomes
<1>2. clients' \subseteq Keys /\ unclosed' \subseteq Keys
  BY DEF Py!TypeOK
<1>3. Py!TypeOK'
  BY <1>1, <1>2 DEF Py!TypeOK
<1>4. PyPendingIsLive' /\ PyLiveIsPending' /\ PyNothingFresh'
  BY <1>1 DEF PyPendingIsLive, PyLiveIsPending, PyNothingFresh, Py!Fresh,
              Py!TypeOK
<1>5. CachedIsDone(Models)'
  BY <1>1 DEF CachedIsDone, Py!Live, Py!Unended, Py!TypeOK
<1>6. ~Ended
  BY <1>1 DEF EndedIsQuiet
<1>7. UnclosedIsKnown'
  BY <1>1 DEF UnclosedIsKnown
<1>8. \A q \in Checks : run'[q] \in Py!Live => run[q] \in Py!Live
  BY <1>1 DEF Py!TypeOK
<1> QED
  BY <1>1, <1>3, <1>4, <1>5, <1>6, <1>7, <1>8, PyCloseKept

LEMMA PyFinishedInv ==
    ASSUME PyInv, NEW p \in Checks, Py!Finished(p)
    PROVE  PyInv'
<1> DEFINE m == model[p]
<1> USE ClientSessionsAssumption
    DEF PyInv, Py!Finished, Py!Due, Py!clientVars, Py!callerVars
<1>1. m \in Models /\ pending[m] = p /\ run[p] \in Py!Live
  BY DEF PyLiveIsPending, Py!Live
<1>2. Py!TypeOK'
  <2>1. run' \in [Checks -> Py!Live \cup {"free", "done", "error"}]
    BY DEF Py!TypeOK
  <2>2. /\ pending' \in [Models -> Checks \cup {None}]
        /\ sessions' \in [Models -> Checks \cup {None}]
    BY <1>1 DEF Py!TypeOK
  <2>3. expires' \in [Checks -> 0..(MaxClock + TTL)]
    BY DEF Py!TypeOK
  <2> QED  BY <2>1, <2>2, <2>3 DEF Py!TypeOK
<1>3. \A q \in Checks :
          run'[q] \in Py!Live => q # p /\ run[q] \in Py!Live /\ model[q] # m
  BY <1>1 DEF PyLiveIsPending, Py!Live, Py!Unended, Py!TypeOK
<1>4. PyLiveIsPending'
  BY <1>1, <1>3 DEF PyLiveIsPending, Py!TypeOK
<1>5. PyPendingIsLive'
  <2> SUFFICES ASSUME NEW n \in Models, pending'[n] # None
               PROVE  run'[pending'[n]] \in Py!Live /\ model[pending'[n]] = n
    BY DEF PyPendingIsLive
  <2>1. n # m /\ pending'[n] = pending[n] /\ pending[n] \in Checks
    BY <1>1 DEF Py!TypeOK
  <2>2. run[pending[n]] \in Py!Live /\ model[pending[n]] = n
    BY <2>1 DEF PyPendingIsLive
  <2> QED  BY <2>1, <2>2 DEF Py!TypeOK
<1>6. CachedIsDone(Models)'
  BY <1>1 DEF CachedIsDone, Py!Cacheable, Py!TypeOK
<1>7. \A n \in Models \ {m} : Py!Fresh(n)' => Py!Fresh(n)
  <2> SUFFICES ASSUME NEW n \in Models \ {m}, Py!Fresh(n)'
               PROVE  Py!Fresh(n)
    OBVIOUS
  <2>1. sessions'[n] = sessions[n] /\ sessions[n] # None
    BY <1>1 DEF Py!Fresh, Py!TypeOK
  <2>2. sessions[n] # p
    BY <2>1 DEF CachedIsDone
  <2> QED  BY <2>1, <2>2 DEF Py!Fresh, Py!TypeOK
<1>8. PyNothingFresh'
  <2> SUFFICES ASSUME NEW q \in Checks, run'[q] \in Py!Live
               PROVE  ~Py!Fresh(model[q])'
    BY DEF PyNothingFresh
  <2>1. model[q] \in Models \ {m} /\ ~Py!Fresh(model[q]) /\ model'[q] = model[q]
    BY <1>3 DEF PyLiveIsPending, PyNothingFresh
  <2> QED  BY <2>1, <1>7 DEF Py!Fresh
<1>9. ~Ended
  BY <1>1 DEF EndedIsQuiet
<1> QED  BY <1>2, <1>3, <1>4, <1>5, <1>6, <1>8, <1>9, PyCloseKept

(***************************************************************************)
(* aclose itself, time, and stuttering.                                    *)
(***************************************************************************)
LEMMA PyCloseInv ==
    ASSUME PyInv,
           Py!CloseShut \/ Py!CloseStep \/ Py!Tick \/ UNCHANGED Py!vars
    PROVE  PyInv'
<1> USE ClientSessionsAssumption
    DEF PyInv, Py!CloseShut, Py!CloseStep, Py!CancelTasks, Py!CloseClients,
        Py!CloseReturn, Py!Tick, Py!vars, Py!cacheVars, Py!checkVars,
        Py!clientVars, Py!callerVars
<1>1. /\ UNCHANGED <<expires, pending, run, model, pc, fut>>
      /\ sessions' = sessions \/ sessions' = [m \in Models |-> None]
  OBVIOUS
<1>2. clock \in 0..MaxClock /\ clock' \in {clock, clock + 1}
          /\ clock' \in 0..MaxClock
  BY DEF Py!TypeOK
<1>3. /\ sessions' \in [Models -> Checks \cup {None}]
      /\ \A m \in Models : sessions'[m] \in {None, sessions[m]}
  BY <1>1 DEF Py!TypeOK
<1>4. Py!TypeOK'
  <2>1. close' \in {"open", "shut", "gathering", "disconnecting", "returned"}
    BY DEF Py!TypeOK
  <2>2. awaited' \subseteq Checks /\ clients' \subseteq Keys
            /\ unclosed' \subseteq Keys
    BY DEF Py!TypeOK
  <2> QED  BY <1>1, <1>2, <1>3, <2>1, <2>2 DEF Py!TypeOK
<1>5. LiveIsAwaited'
  <2>1. CASE Py!CancelTasks
    BY <2>1 DEF LiveIsAwaited, PyLiveIsPending
  <2> QED  BY <2>1 DEF LiveIsAwaited, Cancelled
<1>6. EndedIsQuiet'
  <2>1. CASE Py!CloseClients
    <3>1. \A p \in Checks : run[p] \notin Py!Live
      BY <2>1 DEF LiveIsAwaited, Cancelled, Py!Gathered, Py!Live, Py!Unended
    <3>2. unclosed' = {}
      BY <2>1 DEF UnclosedIsKnown
    <3> QED  BY <2>1, <3>1, <3>2 DEF EndedIsQuiet
  <2> QED  BY <2>1 DEF EndedIsQuiet, Ended
<1>7. UnclosedIsKnown'
  BY DEF UnclosedIsKnown
<1>8. Py!NothingLeft'
  BY <1>6 DEF Py!NothingLeft, EndedIsQuiet, Ended
<1> QED  BY <1>1, <1>2, <1>3, <1>4, <1>5, <1>6, <1>7, <1>8, PyAgeing

LEMMA PyStepInv == PyInv /\ [Py!Next]_(Py!vars) => PyInv'
<1> SUFFICES ASSUME PyInv, [Py!Next]_(Py!vars) PROVE PyInv'
  OBVIOUS
<1>1. ASSUME NEW c \in Callers, NEW m \in Models, Py!Enter(c, m)
      PROVE  PyInv'
  BY <1>1, PyCallerInv, PyLaunchInv DEF Py!Enter
<1>2. ASSUME NEW c \in Callers, Py!Answer(c) \/ Py!GiveUp(c)
      PROVE  PyInv'
  BY <1>2, PyCallerInv
<1>3. ASSUME NEW p \in Checks, Py!CheckStep(p)
      PROVE  PyInv'
  BY <1>3, PyProgressInv, PyFinishedInv DEF Py!CheckStep
<1> QED  BY <1>1, <1>2, <1>3, PyCloseInv DEF Py!Next

-----------------------------------------------------------------------------
(***************************************************************************)
(* Python: what Sessions sees of each step.  The client is open until      *)
(* aclose has emptied the caches.                                          *)
(***************************************************************************)
PyPhase == [p \in Checks |-> Py!PhaseOf(p)]
PyStale == {m \in Models : sessions[m] # None /\ ~Py!Fresh(m)}
PyOpen == close # "returned"

LEMMA PyInitRefines == Py!Init => Py!Promise!Init
BY ClientSessionsAssumption
   DEF Py!Init, Py!Promise!Init, Py!PhaseOf, Py!Live, Py!Unended, Py!Fresh

LEMMA PyPrunedDrops ==
    ASSUME Py!TypeOK
    PROVE  Py!Pruned = Py!Promise!Without(PyStale)
BY DEF Py!Pruned, Py!Promise!Without, PyStale, Py!TypeOK

LEMMA PyStutterRefines ==
    ASSUME UNCHANGED <<clock, sessions, expires, model>>, PyPhase' = PyPhase,
           PyOpen' = PyOpen
    PROVE  UNCHANGED Py!Promise!vars
BY DEF Py!Promise!vars, PyPhase, PyOpen, Py!Fresh

LEMMA PySamePhase ==
    ASSUME UNCHANGED run
    PROVE  PyPhase' = PyPhase
BY DEF PyPhase, Py!PhaseOf

LEMMA PyNoneStale ==
    ASSUME Py!TypeOK, sessions' = Py!Pruned, UNCHANGED clock,
           \A m \in Models : Py!Fresh(m) =>
               expires'[sessions[m]] = expires[sessions[m]]
    PROVE  PyStale' = PyStale \ PyStale
<1>1. \A m \in Models : sessions'[m] # None => Py!Fresh(m)'
  <2> SUFFICES ASSUME NEW m \in Models, sessions'[m] # None
               PROVE  Py!Fresh(m)'
    OBVIOUS
  <2>1. Py!Fresh(m) /\ sessions'[m] = sessions[m]
    BY PyPrunedOK
  <2> QED  BY <2>1 DEF Py!Fresh
<1> QED  BY <1>1 DEF PyStale

LEMMA PyDropRefines ==
    ASSUME Py!TypeOK, sessions' = Py!Pruned,
           UNCHANGED <<clock, close, expires, run, model>>
    PROVE  Py!Promise!Drop
<1>1. sessions' = Py!Promise!Without(PyStale)
  BY PyPrunedDrops
<1>2. PyStale' = PyStale \ PyStale /\ PyStale \in SUBSET PyStale
  BY PyNoneStale
<1> QED
  BY <1>1, <1>2, PySamePhase DEF Py!Promise!Drop, PyPhase, PyStale

LEMMA PyTickRefines ==
    ASSUME Py!TypeOK, Py!Tick
    PROVE  Py!Promise!Lapse
<1> USE ClientSessionsAssumption DEF Py!Tick, Py!cacheVars, Py!checkVars
<1>1. /\ PyStale \subseteq PyStale'
      /\ PyStale' \subseteq {m \in Models : sessions[m] # None}
  BY DEF PyStale, Py!Fresh, Py!TypeOK
<1>2. PyStale' = PyStale \cup PyStale'
  BY <1>1
<1> QED
  BY <1>1, <1>2, PySamePhase DEF Py!Promise!Lapse, PyPhase, PyStale

LEMMA PyLaunchRefines ==
    ASSUME PyInv, NEW c \in Callers, NEW m \in Models, NEW p \in Checks,
           Py!Launch(c, m, p)
    PROVE  Py!Promise!Launch(p, m)
<1> USE ClientSessionsAssumption
    DEF PyInv, Py!Launch, Py!FreeCheck, Py!Started
<1>1. PyPhase[p] # "running" /\ PyPhase' = [PyPhase EXCEPT ![p] = "running"]
  BY DEF PyPhase, Py!PhaseOf, Py!Live, Py!Unended, Py!TypeOK
<1>2. \A q \in Checks : PyPhase[q] = "running" => model[q] # m
  BY DEF PyPhase, Py!PhaseOf, PyLiveIsPending
<1>3. sessions[m] = None \/ m \in PyStale
  BY DEF PyStale
<1>4. /\ sessions' = Py!Promise!Without(PyStale)
      /\ PyStale \in SUBSET PyStale
  BY PyPrunedDrops
<1>5. \A n \in Models : Py!Promise!Without(PyStale)[n] # p
  <2>1. \A n \in Models : p # sessions[n] /\ p # None
    OBVIOUS
  <2> QED  BY <2>1, PyPrunedOK, PyPrunedDrops
<1>6. PyStale' = PyStale \ PyStale
  <2>1. \A n \in Models : expires'[sessions[n]] = expires[sessions[n]]
    BY DEF Py!TypeOK
  <2> QED  BY <2>1, PyNoneStale
<1>7. PyOpen /\ PyOpen' = PyOpen /\ model' = [model EXCEPT ![p] = m]
  BY DEF PyOpen, Py!Admitted, Py!is_closed
<1> QED
  BY <1>1, <1>2, <1>3, <1>4, <1>5, <1>6, <1>7
     DEF Py!Promise!Launch, PyPhase, PyStale, PyOpen

LEMMA PyProgressRefines ==
    ASSUME Py!TypeOK, NEW p \in Checks,
           (\E k \in Keys : Py!Connect(p, k)) \/ Py!Finish(p)
    PROVE  UNCHANGED Py!Promise!vars
<1>1. /\ UNCHANGED <<clock, close, sessions, expires, model>>
      /\ run[p] \in Py!Live
      /\ \E r \in Py!Live : run' = [run EXCEPT ![p] = r]
  BY DEF Py!Connect, Py!Finish, Py!cacheVars, Py!Live, Py!Unended, Py!Outcomes
<1>2. PyPhase' = PyPhase
  BY <1>1 DEF PyPhase, Py!PhaseOf, Py!Live, Py!Unended, Py!TypeOK
<1> QED  BY <1>1, <1>2, PyStutterRefines DEF PyOpen

(***************************************************************************)
(* The done callback replaces nothing but an expired session of its own    *)
(* model, and never runs after aclose has returned.                        *)
(***************************************************************************)
LEMMA PyFinishedRefines ==
    ASSUME PyInv, NEW p \in Checks, Py!Finished(p)
    PROVE  Py!Promise!Cache(p) \/ Py!Promise!Finish(p)
<1> DEFINE m == model[p]
           gone == PyStale \cap {m}
<1> USE ClientSessionsAssumption DEF PyInv, Py!Finished, Py!Due
<1>1. m \in Models /\ ~Py!Fresh(m) /\ run[p] \in Py!Live
  BY DEF PyLiveIsPending, PyNothingFresh, Py!Live
<1>2. /\ PyPhase[p] = "running"
      /\ PyPhase' = [PyPhase EXCEPT ![p] = IF run[p] = "ok" THEN "verified"
                                          ELSE "idle"]
  BY <1>1 DEF PyPhase, Py!PhaseOf, Py!Live, Py!Unended, Py!TypeOK
<1>3. PyOpen /\ PyOpen' = PyOpen
  BY <1>1 DEF PyOpen, EndedIsQuiet, Ended
<1>4. CASE Py!Cacheable(p)
  <2>1. PyPhase' = [PyPhase EXCEPT ![p] = "verified"]
    BY <1>2, <1>4 DEF Py!Cacheable
  <2>2. Py!Promise!Without(gone)[m] = None
    BY <1>1 DEF Py!Promise!Without, PyStale
  <2>3. sessions' = [Py!Promise!Without(gone) EXCEPT ![m] = p]
    BY <1>1, <1>4 DEF Py!Promise!Without, Py!TypeOK
  <2>4. \A n \in Models \ {m} :
            sessions'[n] = sessions[n] /\ (Py!Fresh(n)' <=> Py!Fresh(n))
    <3> SUFFICES ASSUME NEW n \in Models \ {m}
                 PROVE  sessions'[n] = sessions[n]
                            /\ (Py!Fresh(n)' <=> Py!Fresh(n))
      OBVIOUS
    <3>1. sessions'[n] = sessions[n] /\ sessions[n] # p
      BY <1>1, <1>4 DEF CachedIsDone, Py!TypeOK
    <3> QED  BY <1>4, <3>1 DEF Py!Fresh, Py!TypeOK
  <2>5. Py!Fresh(m)'
    <3>1. sessions'[m] = p /\ expires'[p] = clock + TTL /\ TTL > 0
      BY <1>1, <1>4 DEF Py!Cacheable, Py!TypeOK
    <3> QED  BY <1>1, <3>1 DEF Py!Fresh, Py!TypeOK
  <2>6. PyStale' = PyStale \ gone /\ gone \in SUBSET PyStale
    BY <1>1, <2>4, <2>5 DEF PyStale
  <2>7. Py!Promise!Cache(p)
    BY <1>2, <1>3, <2>1, <2>2, <2>3, <2>6
       DEF Py!Promise!Cache, PyPhase, PyStale, PyOpen
  <2> QED  BY <2>7
<1>5. CASE ~Py!Cacheable(p)
  <2>1. PyPhase' \in {[PyPhase EXCEPT ![p] = r] : r \in {"idle", "verified"}}
    BY <1>2
  <2>2. PyStale' = PyStale /\ sessions' = sessions
    BY <1>5 DEF PyStale, Py!Fresh
  <2> QED
    BY <1>2, <1>3, <2>1, <2>2 DEF Py!Promise!Finish, PyPhase, PyStale, PyOpen
<1> QED  BY <1>4, <1>5

LEMMA PyCloseRefines ==
    ASSUME PyInv, Py!CloseShut \/ Py!CloseStep
    PROVE  Py!Promise!Close \/ UNCHANGED Py!Promise!vars
<1> USE DEF Py!cacheVars, Py!checkVars
<1>1. CASE Py!CloseReturn
  <2> USE <1>1 DEF Py!CloseReturn
  <2>1. PyStale' = {} /\ PyOpen' = FALSE
    BY DEF PyStale, PyOpen
  <2> QED
    BY <2>1, PySamePhase DEF Py!Promise!Close, PyPhase, PyStale, PyOpen
<1>2. CASE Py!CloseShut \/ Py!CancelTasks \/ Py!CloseClients
  <2>1. UNCHANGED <<clock, sessions, expires, run, model>> /\ PyOpen' = PyOpen
    BY <1>2 DEF Py!CloseShut, Py!CancelTasks, Py!CloseClients, PyOpen
  <2> QED  BY <2>1, PySamePhase, PyStutterRefines
<1> QED  BY <1>1, <1>2 DEF Py!CloseStep

LEMMA PyStepRefines ==
    ASSUME PyInv, [Py!Next]_(Py!vars)
    PROVE  [Py!Promise!Next]_(Py!Promise!vars)
<1> USE DEF PyInv, Py!cacheVars, Py!checkVars
<1>1. ASSUME NEW c \in Callers, NEW m \in Models, Py!Enter(c, m)
      PROVE  Py!Promise!Next
  <2>1. CASE Py!Hit(c, m) \/ Py!JoinEnded(c, m) \/ Py!Join(c, m)
    BY <2>1, PyDropRefines
       DEF Py!Hit, Py!JoinEnded, Py!Join, Py!Started, Py!Promise!Next
  <2> QED  BY <1>1, <2>1, PyLaunchRefines DEF Py!Enter, Py!Promise!Next
<1>2. ASSUME NEW c \in Callers, Py!Answer(c) \/ Py!GiveUp(c)
      PROVE  UNCHANGED Py!Promise!vars
  BY <1>2, PySamePhase, PyStutterRefines DEF Py!Answer, Py!GiveUp, PyOpen
<1>3. ASSUME NEW p \in Checks, Py!CheckStep(p)
      PROVE  Py!Promise!Next \/ UNCHANGED Py!Promise!vars
  BY <1>3, PyProgressRefines, PyFinishedRefines
     DEF Py!CheckStep, Py!Promise!Next
<1>4. CASE Py!CloseShut \/ Py!CloseStep
  BY <1>4, PyCloseRefines DEF Py!Promise!Next
<1>5. CASE Py!Tick
  BY <1>5, PyTickRefines DEF Py!Promise!Next
<1>6. CASE UNCHANGED Py!vars
  BY <1>6, PySamePhase, PyStutterRefines DEF Py!vars, PyOpen
<1> QED  BY <1>1, <1>2, <1>3, <1>4, <1>5, <1>6 DEF Py!Next

-----------------------------------------------------------------------------
(***************************************************************************)
(* The clients beside each other.                                          *)
(***************************************************************************)
IInv ==
    /\ language = "js" => JsInv
    /\ language = "py" => PyInv

LEMMA InitInv == Init => IInv
BY JsInitInv, PyInitInv DEF Init, IInv

(***************************************************************************)
(* A step of the composed system is a step of the client at hand.          *)
(***************************************************************************)
LEMMA StepOf ==
    ASSUME [Next]_vars
    PROVE  /\ language' = language
           /\ language = "js" => [Js!Next]_(Js!vars)
           /\ language = "py" => [Py!Next]_(Py!vars)
<1>1. CASE Next
  BY <1>1 DEF Next, GoKeeps, JsKeeps, PyKeeps
<1>2. CASE UNCHANGED vars
  BY <1>2
     DEF vars, goVars, pyVars, Js!vars, Js!cacheVars, Js!checkVars,
         Js!callerVars, Py!vars, Py!cacheVars, Py!checkVars, Py!clientVars,
         Py!callerVars
<1> QED  BY <1>1, <1>2

LEMMA StepInv == IInv /\ [Next]_vars => IInv'
BY StepOf, JsStepInv, PyStepInv DEF IInv

LEMMA Invariance == Spec => []IInv
BY InitInv, StepInv, PTL DEF Spec

(***************************************************************************)
(* In either client a check is pending exactly until its callback or       *)
(* handler has run, so no call joins one whose outcome was handed out; and *)
(* once aclose has returned no task, no session and no open HTTP client is *)
(* left.                                                                   *)
(***************************************************************************)
THEOREM PendingTillHandled == Spec => []Inv
<1>1. JsInv => Js!PendingIsUnhandled
  BY ClientSessionsAssumption
     DEF JsInv, JsPendingIsLive, JsLiveIsPending, Js!TypeOK, Js!PendingIsUnhandled
<1>2. PyInv => Py!PendingIsUnhandled
  BY ClientSessionsAssumption
     DEF PyInv, PyPendingIsLive, PyLiveIsPending, Py!TypeOK, Py!PendingIsUnhandled
<1>3. IInv => Inv
  BY <1>1, <1>2 DEF IInv, Inv, JsInv, Js!Inv, PyInv, Py!Inv
<1> QED  BY <1>3, Invariance, PTL

(***************************************************************************)
(* Every behaviour of either cache is one Sessions allows: one check of a  *)
(* model at a time, only the session of a successful check of that very    *)
(* model cached, none replaced before it expires, and nothing checked or   *)
(* cached after aclose.                                                    *)
(***************************************************************************)
THEOREM RefinesSessions == Spec => ImplementsSessions
<1>1. Init => PromisedInit
  BY JsInitRefines, PyInitRefines DEF Init, PromisedInit
<1>2. IInv /\ [Next]_vars => [PromisedStep]_vars
  BY StepOf, JsStepRefines, PyStepRefines DEF IInv, PromisedStep
<1> QED
  BY <1>1, <1>2, Invariance, PTL DEF Spec, ImplementsSessions
=============================================================================
