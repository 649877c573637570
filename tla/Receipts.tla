------------------------------ MODULE Receipts ------------------------------
(***************************************************************************)
(* What every language's inference client promises about a captured        *)
(* completion, stated without locks, futures, tasks, timers or clocks.     *)
(*                                                                         *)
(* A completion is the exact request and response bytes of one inference   *)
(* call together with the evidence its request was sent under.  It is      *)
(* retained under the ID the service gave it, unless the cache was cleared *)
(* since its request was sent; it stays until it lapses or the cache is    *)
(* cleared.  One signature lookup at a time may be asking about it, its    *)
(* bytes stay while one may still be needed, and it is decided only once.  *)
(***************************************************************************)
CONSTANTS Completions,  \* one per inference call
          Ids,          \* completion IDs the service hands out
          Lookups,      \* signature lookups
          None          \* "no completion"

VARIABLES age,      \* age[c]: "unsent", "current", or "fenced" by a clear
          held,     \* held[id]: the completion retained under id, or None
          seen,     \* every completion retained so far
          lapsed,   \* completions whose time to live is over
          bytes,    \* completions whose bytes are kept
          asking,   \* asking[c]: the lookups running for c
          verdict   \* verdict[c]: terminal verification result of c

retention == <<age, held, seen, lapsed>>
verification == <<bytes, asking, verdict>>
vars == <<retention, verification>>

Init ==
    /\ age = [c \in Completions |-> "unsent"]
    /\ held = [id \in Ids |-> None]
    /\ seen = {}
    /\ lapsed = {}
    /\ bytes = {}
    /\ asking = [c \in Completions |-> {}]
    /\ verdict = [c \in Completions |-> "undecided"]

(* A request sent by a client that is already closed is fenced at once.    *)
Send(c) ==
    /\ age[c] = "unsent"
    /\ age' \in {[age EXCEPT ![c] = a] : a \in {"current", "fenced"}}
    /\ UNCHANGED <<held, seen, lapsed, verification>>

Without(ids) == [id \in Ids |-> IF id \in ids THEN None ELSE held[id]]

Lapsed == {id \in Ids : held[id] \in lapsed}

(* A new completion takes an ID that is free once some lapsed ones are     *)
(* gone.                                                                   *)
Retain(c, id) ==
    /\ age[c] = "current"
    /\ c \notin seen
    /\ \E gone \in SUBSET Lapsed :
          /\ Without(gone)[id] = None
          /\ held' = [Without(gone) EXCEPT ![id] = c]
    /\ seen' = seen \cup {c}
    /\ bytes' = bytes \cup {c}
    /\ UNCHANGED <<age, lapsed, asking, verdict>>

Lapse ==
    /\ \E more \in SUBSET seen : lapsed' = lapsed \cup more
    /\ UNCHANGED <<age, held, seen, verification>>

Drop ==
    /\ \E gone \in SUBSET Lapsed : held' = Without(gone)
    /\ UNCHANGED <<age, seen, lapsed, verification>>

Clear ==
    /\ held' = [id \in Ids |-> None]
    /\ age' = [c \in Completions |->
                  IF age[c] = "current" THEN "fenced" ELSE age[c]]
    /\ UNCHANGED <<seen, lapsed, verification>>

-----------------------------------------------------------------------------
(* A caller may still hold a completion that was dropped from the cache.   *)
Ask(c, l) ==
    /\ c \in bytes
    /\ verdict[c] = "undecided"
    /\ asking[c] = {}
    /\ asking' = [asking EXCEPT ![c] = {l}]
    /\ UNCHANGED <<retention, bytes, verdict>>

(* A lookup that fails retryably decides nothing and keeps the bytes.      *)
Retry(c) ==
    /\ asking[c] # {}
    /\ asking' = [asking EXCEPT ![c] = {}]
    /\ UNCHANGED <<retention, bytes, verdict>>

(* The verdict is final; a closing client decides by cancelling.           *)
Decide(c) ==
    /\ asking[c] # {}
    /\ asking' = [asking EXCEPT ![c] = {}]
    /\ verdict' \in {[verdict EXCEPT ![c] = v] :
                        v \in {"ok", "failed", "cancelled"}}
    /\ bytes' \in {bytes, bytes \ {c}}
    /\ UNCHANGED retention

Release(c) ==
    /\ verdict[c] # "undecided"
    /\ bytes' = bytes \ {c}
    /\ UNCHANGED <<retention, asking, verdict>>

Next ==
    \/ \E c \in Completions : Send(c) \/ Retry(c) \/ Decide(c) \/ Release(c)
    \/ \E c \in Completions, id \in Ids : Retain(c, id)
    \/ \E c \in Completions, l \in Lookups : Ask(c, l)
    \/ Lapse
    \/ Drop
    \/ Clear

Spec == Init /\ [][Next]_vars

=============================================================================
