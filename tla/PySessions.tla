----------------------------- MODULE PySessions -----------------------------
(***************************************************************************)
(* The deployment cache of the Python clients                              *)
(* (py/src/nearai_inference_sdk/core/inference_client.py, and the HTTP     *)
(* clients that _create_session of both clients opens).                    *)
(* _start_verification shares one asyncio task per model behind a shield;  *)
(* the task's done callback caches the session and forgets the task.       *)
(* aclose cancels the tasks it finds, waits for them, then closes every    *)
(* HTTP client and empties the caches.                                     *)
(*                                                                         *)
(* Each action is a stretch of code between two awaits.                    *)
(***************************************************************************)
EXTENDS Naturals

CONSTANTS Models,     \* cache keys
          Callers,    \* calls of verify, send and the resources
          Checks,     \* tasks of _create_session and their sessions
          Keys,       \* TLS fingerprints the endpoint is pinned to
          None,       \* an empty slot
          TTL,        \* _attestation_ttl, in ticks
          MaxClock    \* bound on time

VARIABLES clock,
          close,      \* progress of aclose; "open" before it
          awaited,    \* tasks aclose has cancelled and waits for
          sessions,   \* _sessions: model -> check, or None
          expires,    \* the time stored beside the session
          pending,    \* _pending: model -> check, or None
          run,        \* run[p]: state of the task
          model,      \* model[p]: the model p was started for
          clients,    \* the fingerprints in _http_clients
          unclosed,   \* those whose HTTP client has not been closed
          pc, fut     \* each caller's position and the task it awaits

cacheVars == <<sessions, expires, pending>>
checkVars == <<run, model>>
clientVars == <<clients, unclosed>>
callerVars == <<pc, fut>>
vars == <<clock, close, awaited, cacheVars, checkVars, clientVars, callerVars>>

is_closed == close # "open"

(* A task has a client once it has authenticated the endpoint; one that    *)
(* has ended is "ok" or "failed" until its done callback runs.             *)
Unended == {"checking", "connected"}
Due(p) == run[p] \in {"ok", "failed"}
Live == Unended \cup {"ok", "failed"}

TypeOK ==
    /\ clock \in 0..MaxClock
    /\ close \in {"open", "shut", "gathering", "disconnecting", "returned"}
    /\ awaited \subseteq Checks
    /\ sessions \in [Models -> Checks \cup {None}]
    /\ expires \in [Checks -> 0..(MaxClock + TTL)]
    /\ pending \in [Models -> Checks \cup {None}]
    /\ run \in [Checks -> Live \cup {"free", "done", "error"}]
    /\ model \in [Checks -> Models \cup {None}]
    /\ clients \subseteq Keys
    /\ unclosed \subseteq Keys
    /\ pc \in [Callers -> {"idle", "waiting"}]
    /\ fut \in [Callers -> Checks \cup {None}]

Init ==
    /\ clock = 0
    /\ close = "open"
    /\ awaited = {}
    /\ sessions = [m \in Models |-> None]
    /\ expires = [p \in Checks |-> 0]
    /\ pending = [m \in Models |-> None]
    /\ run = [p \in Checks |-> "free"]
    /\ model = [p \in Checks |-> None]
    /\ clients = {}
    /\ unclosed = {}
    /\ pc = [c \in Callers |-> "idle"]
    /\ fut = [c \in Callers |-> None]

-----------------------------------------------------------------------------
(* The operators named Bad... are slips a maintainer could make in the      *)
(* definition that follows each of them; no action uses them.              *)

Fresh(m) == sessions[m] # None /\ clock < expires[sessions[m]]

Pruned == [m \in Models |-> IF Fresh(m) THEN sessions[m] ELSE None]

FreeCheck(p) ==
    /\ run[p] \in {"free", "done", "error"}
    /\ \A m \in Models : p \notin {sessions[m], pending[m]}
    /\ \A c \in Callers : fut[c] # p

(* One object that nothing refers to is as good as another.                *)
NewCheck == CHOOSE p \in Checks : FreeCheck(p)

(* _start_verification refuses a closed client, then drops every expired   *)
(* session.                                                                *)
Admitted == ~is_closed

Started(c) ==
    /\ pc[c] = "idle"
    /\ Admitted
    /\ sessions' = Pruned

Hit(c, m) ==
    /\ Started(c)
    /\ TTL # 0
    /\ Fresh(m)
    /\ UNCHANGED <<clock, close, awaited, expires, pending, checkVars,
                   clientVars, callerVars>>

(* The shield of a task that has ended is the task: the caller does not    *)
(* even wait for its done callback.                                        *)
JoinEnded(c, m) ==
    /\ Started(c)
    /\ ~Fresh(m)
    /\ pending[m] # None
    /\ run[pending[m]] \notin Unended
    /\ UNCHANGED <<clock, close, awaited, expires, pending, checkVars,
                   clientVars, callerVars>>

Await(c, p) ==
    /\ pc' = [pc EXCEPT ![c] = "waiting"]
    /\ fut' = [fut EXCEPT ![c] = p]

Join(c, m) ==
    /\ Started(c)
    /\ ~Fresh(m)
    /\ pending[m] # None
    /\ run[pending[m]] \in Unended
    /\ Await(c, pending[m])
    /\ UNCHANGED <<clock, close, awaited, expires, pending, checkVars,
                   clientVars>>

Launch(c, m, p) ==
    /\ Started(c)
    /\ ~Fresh(m)
    /\ pending[m] = None
    /\ FreeCheck(p) /\ p = NewCheck
    /\ pending' = [pending EXCEPT ![m] = p]
    /\ run' = [run EXCEPT ![p] = "checking"]
    /\ model' = [model EXCEPT ![p] = m]
    /\ expires' = [expires EXCEPT ![p] = 0]
    /\ Await(c, p)
    /\ UNCHANGED <<clock, close, awaited, clientVars>>

Return(c) ==
    /\ pc[c] = "waiting"
    /\ pc' = [pc EXCEPT ![c] = "idle"]
    /\ fut' = [fut EXCEPT ![c] = None]

(* The shield's callback was added after the one that fills the cache.     *)
Answer(c) ==
    /\ Return(c)
    /\ run[fut[c]] \in {"done", "error"}
    /\ UNCHANGED <<clock, close, awaited, cacheVars, checkVars, clientVars>>

(* Cancelling one caller does not cancel the task.                         *)
GiveUp(c) ==
    /\ Return(c)
    /\ UNCHANGED <<clock, close, awaited, cacheVars, checkVars, clientVars>>

-----------------------------------------------------------------------------
(* _create_session finds or opens the HTTP client of the key it verified;  *)
(* models without one fail before.                                         *)
Connect(p, k) ==
    /\ run[p] = "checking"
    /\ run' = [run EXCEPT ![p] = "connected"]
    /\ clients' = clients \cup {k}
    /\ unclosed' = IF k \in clients THEN unclosed ELSE unclosed \cup {k}
    /\ UNCHANGED <<clock, close, awaited, cacheVars, model, callerVars>>

(* A cancelled task may end in any way: a caller's verifier may swallow    *)
(* the cancellation, and a verification beside it may fail first.          *)
Outcomes(p) == IF run[p] = "connected" THEN {"ok", "failed"} ELSE {"failed"}

Finish(p) ==
    /\ run[p] \in Unended
    /\ \E r \in Outcomes(p) : run' = [run EXCEPT ![p] = r]
    /\ UNCHANGED <<clock, close, awaited, cacheVars, model, clientVars,
                   callerVars>>

Cacheable(p) == run[p] = "ok" /\ TTL # 0

(* The task's done callback, `finished`.                                   *)
Finished(p) ==
    /\ Due(p)
    /\ run' = [run EXCEPT ![p] = IF run[p] = "ok" THEN "done" ELSE "error"]
    /\ pending' = [pending EXCEPT ![model[p]] = None]
    /\ sessions' = IF Cacheable(p)
                   THEN [sessions EXCEPT ![model[p]] = p] ELSE sessions
    /\ expires' = IF Cacheable(p)
                  THEN [expires EXCEPT ![p] = clock + TTL] ELSE expires
    /\ UNCHANGED <<clock, close, awaited, model, clientVars, callerVars>>

-----------------------------------------------------------------------------
(* aclose: close the adapter, so that is_closed holds; cancel the running  *)
(* tasks; wait for them; close the HTTP clients; empty the caches.         *)
CloseShut ==
    /\ close = "open"
    /\ close' = "shut"
    /\ UNCHANGED <<clock, awaited, cacheVars, checkVars, clientVars, callerVars>>

CancelTasks ==
    /\ close = "shut"
    /\ close' = "gathering"
    /\ awaited' = {p \in Checks : \E m \in Models : pending[m] = p}
    /\ UNCHANGED <<clock, cacheVars, checkVars, clientVars, callerVars>>

BadGathered == TRUE
Gathered == \A p \in awaited : run[p] \in {"done", "error"}

(* The clients found now are the ones closed.                              *)
CloseClients ==
    /\ close = "gathering"
    /\ Gathered
    /\ close' = "disconnecting"
    /\ unclosed' = unclosed \ clients
    /\ UNCHANGED <<clock, awaited, cacheVars, checkVars, clients, callerVars>>

CloseReturn ==
    /\ close = "disconnecting"
    /\ close' = "returned"
    /\ clients' = {}
    /\ sessions' = [m \in Models |-> None]
    /\ UNCHANGED <<clock, awaited, expires, pending, checkVars, unclosed,
                   callerVars>>

(* Callbacks run before the event loop lets time pass.                     *)
Tick ==
    /\ clock < MaxClock
    /\ \A p \in Checks : ~Due(p)
    /\ clock' = clock + 1
    /\ UNCHANGED <<close, awaited, cacheVars, checkVars, clientVars, callerVars>>

Enter(c, m) ==
    \/ Hit(c, m)
    \/ JoinEnded(c, m)
    \/ Join(c, m)
    \/ \E p \in Checks : Launch(c, m, p)

CheckStep(p) == (\E k \in Keys : Connect(p, k)) \/ Finish(p) \/ Finished(p)

CloseStep == CancelTasks \/ CloseClients \/ CloseReturn

Next ==
    \/ \E c \in Callers, m \in Models : Enter(c, m)
    \/ \E c \in Callers : Answer(c) \/ GiveUp(c)
    \/ \E p \in Checks : CheckStep(p)
    \/ CloseShut
    \/ CloseStep
    \/ Tick

Spec == Init /\ [][Next]_vars

-----------------------------------------------------------------------------
(* A task is in _pending from its start until its done callback has run:   *)
(* aclose finds every task that may still open a client, and a call joins  *)
(* a task that runs, or one that has just ended and whose callback is due, *)
(* but never one whose outcome was handed out before, be it a failure long *)
(* overcome (_start_verification, finished).                               *)
PendingIsUnhandled ==
    \A m \in Models, p \in Checks :
        pending[m] = p <=> run[p] \in Live /\ model[p] = m

(* Once aclose has returned nothing of the client is left: no task, no     *)
(* session cached by a late callback, and no open HTTP client, although    *)
(* tasks may still open clients after they were cancelled                  *)
(* (_close_sessions).                                                      *)
NothingLeft ==
    close = "returned" =>
        /\ \A p \in Checks : run[p] \notin Live
        /\ \A m \in Models : sessions[m] = None
        /\ unclosed = {}

(* What holds in every state of the cache.                                 *)
Inv == TypeOK /\ PendingIsUnhandled /\ NothingLeft

-----------------------------------------------------------------------------
(* The abstract sessions this cache implements.                            *)
PhaseOf(p) ==
    IF run[p] = "done" THEN "verified"
    ELSE IF run[p] \in Live THEN "running"
    ELSE "idle"

Promise == INSTANCE Sessions WITH
    open <- close # "returned",
    phase <- [p \in Checks |-> PhaseOf(p)],
    subject <- model,
    cached <- sessions,
    lapsed <- {m \in Models : sessions[m] # None /\ ~Fresh(m)}

=============================================================================
