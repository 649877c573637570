------------------------------ MODULE Sessions ------------------------------
(***************************************************************************)
(* What an inference client promises about its deployment sessions, stated *)
(* without locks, futures, goroutines or clocks.                           *)
(*                                                                         *)
(* A check attests the deployment that serves a model.  One check of a     *)
(* model runs at a time; a successful one may be cached as the session of  *)
(* the model it checked; a cached session stays until it lapses or the     *)
(* client is closed, and a closed client checks and caches nothing.        *)
(***************************************************************************)
CONSTANTS Models,   \* cache keys
          Checks,   \* attestation checks, reused once nothing refers to them
          None      \* "no session"

VARIABLES open,     \* the client is not closed
          phase,    \* phase[p]: "idle", "running" or "verified"
          subject,  \* subject[p]: the model p checks
          cached,   \* cached[m]: the session of m, or None
          lapsed    \* models whose cached session has outlived its TTL

vars == <<open, phase, subject, cached, lapsed>>

Init ==
    /\ open = TRUE
    /\ phase = [p \in Checks |-> "idle"]
    /\ subject = [p \in Checks |-> None]
    /\ cached = [m \in Models |-> None]
    /\ lapsed = {}

(* Lapsed sessions may be dropped whenever the cache is looked at.         *)
Without(gone) == [m \in Models |-> IF m \in gone THEN None ELSE cached[m]]

Launch(p, m) ==
    /\ open
    /\ phase[p] # "running"
    /\ \A q \in Checks : phase[q] = "running" => subject[q] # m
    /\ cached[m] = None \/ m \in lapsed
    /\ \E gone \in SUBSET lapsed :
          /\ \A n \in Models : Without(gone)[n] # p
          /\ cached' = Without(gone)
          /\ lapsed' = lapsed \ gone
    /\ phase' = [phase EXCEPT ![p] = "running"]
    /\ subject' = [subject EXCEPT ![p] = m]
    /\ UNCHANGED open

(* A check fails, succeeds, or is lost with the last caller that needs it. *)
Finish(p) ==
    /\ phase[p] = "running"
    /\ phase' \in {[phase EXCEPT ![p] = r] : r \in {"idle", "verified"}}
    /\ UNCHANGED <<open, subject, cached, lapsed>>

(* A success is cached, in the step that ends the check or in a later one. *)
Cache(p) ==
    LET m == subject[p]
    IN /\ open
       /\ phase[p] # "idle"
       /\ phase' = [phase EXCEPT ![p] = "verified"]
       /\ \E gone \in SUBSET lapsed :
             /\ Without(gone)[m] = None
             /\ cached' = [Without(gone) EXCEPT ![m] = p]
             /\ lapsed' = lapsed \ gone
       /\ UNCHANGED <<open, subject>>

Lapse ==
    /\ \E more \in SUBSET {m \in Models : cached[m] # None} :
          lapsed' = lapsed \cup more
    /\ UNCHANGED <<open, phase, subject, cached>>

Drop ==
    /\ \E gone \in SUBSET lapsed :
          /\ cached' = Without(gone)
          /\ lapsed' = lapsed \ gone
    /\ UNCHANGED <<open, phase, subject>>

Close ==
    /\ open' = FALSE
    /\ cached' = [m \in Models |-> None]
    /\ lapsed' = {}
    /\ UNCHANGED <<phase, subject>>

Next ==
    \/ \E p \in Checks, m \in Models : Launch(p, m)
    \/ \E p \in Checks : Finish(p) \/ Cache(p)
    \/ Lapse
    \/ Drop
    \/ Close

Spec == Init /\ [][Next]_vars

=============================================================================
