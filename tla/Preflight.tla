----------------------------- MODULE Preflight ------------------------------
(***************************************************************************)
(* What the preflight of an inference client promises, whatever the order  *)
(* and the concurrency of its verification:                                *)
(*                                                                         *)
(*   - the API key goes only to a Gateway that has been authenticated, over *)
(*     a connection to the TLS key it attested;                            *)
(*   - the caller's deployment verifier and policy see only deployments    *)
(*     measured by an authenticated quote, and a GPU verifier only evidence *)
(*     for this preflight's nonce;                                         *)
(*   - a session is granted only for acceptable evidence, and only after   *)
(*     every verification the options ask for has been answered;           *)
(*   - acceptable evidence is refused only if another party cannot be      *)
(*     reached or the caller gives up.                                     *)
(*                                                                         *)
(* Evidence is judged here by its label, that is by what really happened   *)
(* to it, never by the checks a client runs.                               *)
(***************************************************************************)
EXTENDS Evidence

VARIABLES case,       \* the options and the evidence, fixed at the start
          inflight,   \* the calls to other parties that await an answer
          answered,   \* the calls whose answer the verification went on from
          outcome     \* running, granted, refused, unreachable or abandoned

vars == <<case, inflight, answered, outcome>>

-----------------------------------------------------------------------------
(* The truth about a case. *)

\* Evidence that is not what it claims to be, for this preflight.
Tainted ==
    {"staleNonce", "staleQuote", "forged", "debug", "borrowedQuote",
     "malformedAddress", "swappedCompose", "configVersion", "truncatedLog",
     "emptyLog", "extendedLog", "editedPayload", "editedBlank", "unparsed",
     "otherEcho", "alienKey", "staleGpu", "rejectedGpu"}
TaintedManagers == ManagerLabels \ {"manager", "managerOutOfDate"}
Unreleased == {"otherImage", "legacyClaim", "foreignClaim"}

Tcb(label) ==
    CASE label \in {"outOfDate", "managerOutOfDate"} -> "OutOfDate"
      [] label = "hardening" -> "SWHardeningNeeded"
      [] OTHER -> "UpToDate"
\* The statuses accepted by the options, which list none to ask for the default.
AcceptedTcb(o) == IF o.tcb = {} THEN {"UpToDate", "OutOfDate", "TDRelaunchAdvised"} ELSE o.tcb

Pinnable(i) ==
    i.gateway \notin {"swappedPin", "otherPeer"}
        \cup (IF i.o.tls THEN {"unpinned"} ELSE {"surplusPin"})

\* An OHTTP configuration is vouched for by an Ed25519 signer: the Gateway's,
\* or a direct endpoint's own.
OhttpVouched(i) ==
    i.o.ohttp => /\ i.ohttp = "good" /\ i.o.algo = "ed25519"
                 /\ i.o.direct => i.models[Serving] # "otherAlgo"

GatewayVouched(i) ==
    /\ i.gateway \notin Tainted \cup {"noEcho", "otherAlgo"}
    /\ Tcb(i.gateway) \in AcceptedTcb(i.o)
    /\ Pinnable(i)
    /\ i.o.gatewayVerifier => i.gateway \notin Unreleased
    /\ OhttpVouched(i)

\* A direct endpoint speaks for its own compose manager only.
Managed(i, p) == i.models[p] \in ManagerLabels /\ (i.o.direct => p = Serving)
Authentic(i, p) == i.models[p] \notin Tainted /\ (Managed(i, p) => i.models[p] \notin TaintedManagers)

ModelVouched(i, p) ==
    LET label == i.models[p]
    IN /\ Authentic(i, p)
       /\ Managed(i, p) \/ label \notin ManagerLabels => Tcb(label) \in AcceptedTcb(i.o)
       /\ i.o.gpuRequired => label # "noGpu"
       /\ i.o.verifier => label \notin Unreleased
       /\ i.o.policy => label # "otherCompose"

\* A report that names the model key a session would encrypt to or expect
\* signatures from; behind a direct OHTTP endpoint it is the endpoint's own.
Usable(i, p) ==
    /\ i.models[p] \notin {"noKey", "siblingNoKey", "otherAlgo"}
    /\ (i.o.direct /\ i.o.ohttp) =>
            (i.models[p] \in {"sibling", "siblingNoKey"}) = (i.models[Serving] \in {"sibling", "siblingNoKey"})

Attested(i) == i.o.direct \/ i.vllm
ModelsVouched(i) ==
    /\ Reports(i) # {}
    /\ \A p \in Reports(i) : ModelVouched(i, p)
    /\ \E p \in Reports(i) : Usable(i, p)

\* Options that ask something of a model's evidence, so that a model without
\* any cannot meet them.
Asking(o) == o.e2ee \/ o.verifier \/ o.policy \/ o.gpuRequired \/ o.tcb # {}
PinHolds(i) == i.o.tls => ~i.moved

MayAccept(i) ==
    IF i.o.direct
    THEN i.listed /\ ModelsVouched(i) /\ OhttpVouched(i)
            /\ \A p \in Reports(i) : i.models[p] # "pinned"
    ELSE /\ GatewayVouched(i) /\ PinHolds(i)
         /\ IF i.vllm THEN ModelsVouched(i) ELSE ~Asking(i.o)

\* A TLS key on a model report behind a Gateway means nothing: a client may
\* refuse it or ignore it.
MustAccept(i) == MayAccept(i) /\ \A p \in Reports(i) : i.models[p] # "pinned"

-----------------------------------------------------------------------------
(* The calls. *)

Asked(to, i) == {Call(to, p) : p \in Reports(i)}
Required(i) ==
    {Call("evidence", 0)}
        \cup (IF i.o.direct THEN {} ELSE {Call("intel", 0), Call("catalog", 0)})
        \cup (IF ~i.o.direct /\ i.o.gatewayVerifier THEN {Call("verifier", 0)} ELSE {})
        \cup (IF ~i.o.direct /\ i.vllm THEN {Call("reports", 0)} ELSE {})
        \cup (IF ~Attested(i) THEN {} ELSE
                Asked("intel", i)
                \cup {Call("manager", p) : p \in {q \in Reports(i) : Managed(i, q)}}
                \cup (IF i.o.verifier THEN Asked("verifier", i) ELSE {})
                \cup (IF i.o.policy THEN Asked("policy", i) ELSE {})
                \cup {Call("nvidia", p) : p \in {q \in Reports(i) : i.models[q] # "noGpu"}})

\* The parties asked with the API key in the request.
Credentialed == {Call("catalog", 0), Call("reports", 0)}

\* May c be asked once the calls of done have been answered?
MayAsk(i, c, done) ==
    LET p == c.for
        fresh == IF p = 0 THEN i.gateway # "staleNonce" ELSE i.models[p] # "staleNonce"
    IN CASE c \in Credentialed ->
                /\ GatewayVouched(i) /\ PinHolds(i)
                /\ Call("intel", 0) \in done
                /\ i.o.gatewayVerifier => Call("verifier", 0) \in done
         [] c.to = "intel" -> fresh
         [] c.to = "manager" -> Call("intel", p) \in done /\ i.models[p] # "managerStale"
         [] c.to = "nvidia" -> fresh /\ i.models[p] \notin {"staleGpu", "noGpu"}
         [] c = Call("verifier", 0) ->
                i.gateway \notin Tainted \cup {"swappedPin"} /\ Call("intel", 0) \in done
         [] OTHER ->
                /\ i.models[p] \notin Tainted \ {"alienKey", "staleGpu", "rejectedGpu"}
                /\ Call("intel", p) \in done
                /\ Managed(i, p) => Authentic(i, p) /\ Call("manager", p) \in done
                /\ c.to = "policy" /\ i.o.verifier => Call("verifier", p) \in done

\* Does the party asked by c approve?
Approves(i, c) ==
    LET label == IF c.for = 0 THEN i.gateway ELSE i.models[c.for]
    IN CASE c.to = "intel" -> label # "forged"
         [] c.to = "manager" -> label # "managerForged"
         [] c.to = "nvidia" -> label # "rejectedGpu"
         [] c.to = "verifier" -> label \notin Unreleased
         [] c.to = "policy" -> label # "otherCompose"
         [] OTHER -> TRUE

-----------------------------------------------------------------------------
\* A preflight of any case starts with the request for evidence.
Init ==
    /\ inflight = {Call("evidence", 0)}
    /\ answered = {}
    /\ outcome = "running"

\* Verification goes on from an approval, or not, and further calls are asked
\* only where it does; calls may be given up, or answered to no effect.
Verify ==
    /\ \/ UNCHANGED answered
       \/ \E c \in inflight : Approves(case, c) /\ answered' = answered \cup {c}
    /\ answered' = answered => inflight' \subseteq inflight
    /\ \A c \in inflight' \ inflight : c \in Required(case) /\ MayAsk(case, c, answered')
    /\ UNCHANGED case

GoOn == Verify /\ UNCHANGED outcome

\* The last verification is answered and a session is granted.
Grant ==
    /\ outcome = "running" /\ Verify
    /\ MayAccept(case) /\ answered' = Required(case) /\ inflight' = {}
    /\ outcome' = "granted"

\* The evidence is found wanting.
Refuse == outcome = "running" /\ Verify /\ ~MustAccept(case) /\ outcome' = "refused"

\* A party cannot be reached, or the caller gives up.
GiveUp == outcome = "running" /\ Verify /\ outcome' \in {"unreachable", "abandoned"}

Next == GoOn \/ Grant \/ Refuse \/ GiveUp

Spec == Init /\ [][Next]_vars
=============================================================================
