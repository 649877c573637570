--------------------------- MODULE ClientSessions ---------------------------
(***************************************************************************)
(* The deployment caches of the JavaScript and Python clients, and that of *)
(* the Go client beside them, under the fairness each of them has.  The    *)
(* safety of the Go cache is the subject of GoSessions.                    *)
(***************************************************************************)
EXTENDS Naturals, FiniteSets

CONSTANTS Models,     \* cache keys of the JavaScript and Python clients
          Checks,     \* their attestation checks
          Keys,       \* TLS fingerprints the Python client's endpoint uses
          GoModels, GoChecks, GoKeys, Pools, PoolLimit,
          Callers, None, TTL, MaxClock

ASSUME ClientSessionsAssumption ==
    /\ TTL \in Nat /\ MaxClock \in Nat
    /\ None \notin Models \cup Checks

VARIABLES clock, close, ticker, awaited, sessions, expires, pending, run,
          model, pool, transports, idle, clients, unclosed, pc, fut,
          language      \* the client at hand

goVars == <<close, ticker, pool, transports, idle>>
pyVars == <<close, awaited, clients, unclosed>>
vars == <<clock, goVars, pyVars, sessions, expires, pending, run, model, pc,
          fut, language>>

Go == INSTANCE GoSessions WITH
    Models <- GoModels, Checks <- GoChecks, Keys <- GoKeys
Js == INSTANCE JsSessions
Py == INSTANCE PySessions

NoGo == ticker = FALSE /\ pool = None /\ transports = None /\ idle = {}
NoPy == awaited = {} /\ clients = {} /\ unclosed = {}

Init ==
    \/ language = "go" /\ Go!Init /\ NoPy
    \/ language = "js" /\ Js!Init /\ NoGo /\ NoPy /\ close = "open"
    \/ language = "py" /\ Py!Init /\ NoGo

GoKeeps == UNCHANGED <<awaited, clients, unclosed, language>>
JsKeeps == UNCHANGED <<goVars, pyVars, language>>
PyKeeps == UNCHANGED <<ticker, pool, transports, idle, language>>

Next ==
    \/ language = "go" /\ Go!Next /\ GoKeeps
    \/ language = "js" /\ Js!Next /\ JsKeeps
    \/ language = "py" /\ Py!Next /\ PyKeeps

Answer(c) ==
    \/ language = "go" /\ Go!Answer(c) /\ GoKeeps
    \/ language = "js" /\ Js!Answer(c) /\ JsKeeps
    \/ language = "py" /\ Py!Answer(c) /\ PyKeeps

(* A Go check has a timeout of two minutes and the client's context.  A    *)
(* JavaScript check ends when its service answers, if ever, and so does a  *)
(* Python one unless aclose cancels it; due callbacks run.                 *)
CheckStep(p) ==
    \/ language = "go" /\ p \in GoChecks /\ Go!CheckStep(p) /\ GoKeeps
    \/ language = "js" /\ p \in Checks /\ Js!Handle(p) /\ JsKeeps
    \/ language = "py" /\ p \in Checks \ awaited /\ Py!Finished(p) /\ PyKeeps
    \/ language = "py" /\ p \in awaited /\ Py!CheckStep(p) /\ PyKeeps

CloseStep ==
    \/ language = "go" /\ Go!CloseStep /\ GoKeeps
    \/ language = "go" /\ Go!StopTicker /\ GoKeeps
    \/ language = "py" /\ Py!CloseStep /\ PyKeeps

Fairness ==
    /\ \A c \in Callers : WF_vars(Answer(c))
    /\ \A p \in Checks \cup GoChecks : WF_vars(CheckStep(p))
    /\ WF_vars(CloseStep)

Spec == Init /\ [][Next]_vars /\ Fairness

-----------------------------------------------------------------------------
(* What holds in every state of the JavaScript and Python caches: the      *)
(* types, a check pending exactly until its callback or handler has run,   *)
(* and nothing left once aclose has returned.                              *)
Inv ==
    CASE language = "js" -> Js!Inv
      [] language = "py" -> Py!Inv
      [] OTHER -> TRUE

PromisedInit ==
    /\ language = "js" => Js!Promise!Init
    /\ language = "py" => Py!Promise!Init

PromisedStep ==
    /\ language = "js" => [Js!Promise!Next]_(Js!Promise!vars)
    /\ language = "py" => [Py!Promise!Next]_(Py!Promise!vars)

(* Every step of either cache is one Sessions allows: one check per model  *)
(* at a time, none while an unexpired session is cached, only the session  *)
(* of a successful check of that very model is cached, none is replaced    *)
(* before it expires, and a closed client checks and caches nothing        *)
(* (startVerification, _start_verification).                               *)
ImplementsSessions == PromisedInit /\ [][PromisedStep]_vars

(* The calls that need no answer from the service return: Close and aclose *)
(* whatever checks are running, callers of a Go client always, the others  *)
(* once their check has ended or aclose has cancelled it.                  *)
Owed(c) ==
    \/ language = "go"
    \/ run[fut[c]] \notin {"checking", "connected"}
    \/ close # "open"

CallsReturn ==
    /\ (language # "js" /\ close # "open") ~> close = "returned"
    /\ \A c \in Callers :
           (pc[c] = "waiting" /\ Owed(c)) ~> pc[c] # "waiting"

=============================================================================
