---------------------------- MODULE Preflights -----------------------------
(***************************************************************************)
(* The four preflights on the same cases, and their common promise.        *)
(***************************************************************************)
EXTENDS Evidence

CONSTANT Cases   \* the options and evidence the clients may meet

\* The reports of a model are counted from one.
ASSUME PreflightsAssumption == \A i \in Cases : 0 \notin Reports(i)

VARIABLES case, inflight, answered, outcome,
          faults,       \* the failed tasks of the Python client
          language      \* the client at hand

preflightVars == <<case, inflight, answered, outcome, faults, language>>

Rust == INSTANCE RustPreflight
Go == INSTANCE GoPreflight
Js == INSTANCE JsPreflight
Py == INSTANCE PyPreflight

PreflightInit ==
    /\ \/ language = "rust" /\ Rust!Init
       \/ language = "go" /\ Go!Init
       \/ language = "js" /\ Js!Init
       \/ language = "py" /\ Py!Init
    /\ faults = {}

PreflightNext ==
    /\ UNCHANGED language
    /\ \/ language = "rust" /\ Rust!Next /\ UNCHANGED faults
       \/ language = "go" /\ Go!Next /\ UNCHANGED faults
       \/ language = "js" /\ Js!Next /\ UNCHANGED faults
       \/ language = "py" /\ Py!Next

PreflightSpec == PreflightInit /\ [][PreflightNext]_preflightVars

-----------------------------------------------------------------------------
PreflightPromise == INSTANCE Preflight

\* Whatever the evidence, the options and the order in which calls are
\* answered and verifications fail, each of the four createSession functions
\* asks others only what it may, grants a session only for acceptable evidence
\* that has been verified in full, and refuses no acceptable evidence.
ImplementsPreflight == PreflightPromise!Spec

\* A preflight that has not ended waits for a party, or for a task that is
\* about to fail: no join of concurrent verifications, no swallowed error and
\* no cancelled sibling leaves a caller of createSession waiting for nothing.
NeverStranded == outcome = "running" => inflight \ {NoCall} # {} \/ faults # {}

-----------------------------------------------------------------------------
(* The steps behind a preflight, where concurrent verifications are joined. *)

\* Every check has held and every call has been answered with an approval.
Fulfilled(steps) ==
    \A k \in DOMAIN steps : steps[k].ok /\ (IsCall(steps[k]) => steps[k].call \in answered)

\* A session is granted only when every verification of every report has
\* passed, however many run at once and in whatever order they end: one that
\* failed or was cancelled is never taken for one that has ended.
GrantedIsVerified ==
    outcome = "granted" =>
        /\ language = "rust" =>
               /\ Fulfilled(Rust!Prologue(case)) /\ Fulfilled(Rust!Epilogue(case))
               /\ \A p \in Rust!Joined(case) : Fulfilled(Rust!ReportSteps(case, p))
        /\ language = "js" =>
               /\ Fulfilled(Js!sequel(case)) /\ Fulfilled(Js!conclusion(case))
               /\ \A t \in Js!joined(case) : Fulfilled(Js!track(case, t))
        /\ language = "py" =>
               /\ Fulfilled(Py!prologue(case)) /\ Fulfilled(Py!epilogue(case))
               /\ \A p \in Py!gathered(case) :
                      /\ \A track \in Py!Tracks : Fulfilled(Py!StepsIn(case, track, p))
                      /\ Py!verify_signing_public_key(Py!report(case, p))

\* The API key is in no request before the Gateway has passed every check of
\* its evidence, its deployment and its TLS key.
KeyIsGuarded ==
    inflight \cap {Call("catalog", 0), Call("reports", 0)} # {} =>
        /\ language = "rust" =>
               /\ Fulfilled(Rust!FetchGatewayAttestation(Rust!GatewayOf(case), case.o))
               /\ Fulfilled(Rust!VerifyGatewayAttestation(Rust!GatewayOf(case), case.o))
               /\ Fulfilled(Rust!PinnedTo(case))
        /\ language = "js" =>
               /\ Fulfilled(Js!fetchGatewayAttestation(Js!GatewayOf(case), case.o))
               /\ Fulfilled(Js!verifyGatewayAttestation(Js!GatewayOf(case), case.o))
               /\ Fulfilled(Js!gatewayFetch(case))
        /\ language = "py" =>
               /\ Fulfilled(Py!fetch_gateway_attestation(Py!GatewayOf(case), case.o))
               /\ Fulfilled(Py!verify_gateway(case))
               /\ Fulfilled(Py!pinned(case))
=============================================================================
