----------------------------- MODULE GoPreflight -----------------------------
(***************************************************************************)
(* The preflight of the Go client: createSession of client.go, which runs  *)
(* in the goroutine of one flight, makes one call after another and        *)
(* verifies the model reports in their order.  Each report is measured     *)
(* before its compose manager is; the Gateway's deployment verifier runs   *)
(* before the observed TLS peer is compared.                               *)
(***************************************************************************)
EXTENDS Evidence

CONSTANT Cases   \* the options and evidence the client may meet

VARIABLES case, inflight, answered, outcome

vars == <<case, inflight, answered, outcome>>

Nonce == "fresh"   \* nonce(), drawn for one evidence request

-----------------------------------------------------------------------------
(* verification.go, compose_manager.go, gpu.go *)

SameNonce(nonce) == nonce = Nonce
SigningBytes(r) == r.address[1] = r.algo

\* The digest an event contributes, and what makes an event acceptable.
EventDigest(e) == IF e.runtime THEN <<e.name, e.payload>> ELSE e.digest
EventHolds(e) ==
    IF e.runtime THEN e.digest = Blank \/ e.digest = EventDigest(e)
    ELSE e.digest # Blank /\ e.digest # Malformed

Measuring(log) == SelectSeq(log, LAMBDA e : e.imr = 3)

ReplayEvents(log, quote) ==
    LET events == Measuring(log)
    IN /\ \A k \in DOMAIN log : log[k].parses
       /\ \A k \in DOMAIN events : EventHolds(events[k])
       /\ events # <<>> /\ [k \in DOMAIN events |-> EventDigest(events[k])] = quote.rtmr

\* The image a later runtime event names overrides an earlier one's.
OSImageHash(log) ==
    LET claims == SelectSeq(Measuring(log), LAMBDA e : e.runtime /\ e.name = "os-image-hash")
    IN IF claims = <<>> THEN "none" ELSE claims[Len(claims)].payload

VerifyQuote(to, p, quote, o) ==
    Ask(to, p, quote.genuine)
        \o Check(~quote.debug)
        \o Check(quote.tcb \in IF o.tcb = {} THEN {"UpToDate", "OutOfDate", "TDRelaunchAdvised"}
                               ELSE o.tcb)

MeasuredCompose(quote, compose) == quote.config = <<1, compose>>

VerifyDstackDeployment(r) ==
    Check(MeasuredCompose(r.quote, r.compose)) \o Check(ReplayEvents(r.log, r.quote))

\* verifyAttestation up to the deployment verifier.
VerifyAttestation(r, p, o) ==
    Check(SameNonce(r.nonce)) \o Check(SigningBytes(r))
        \o VerifyQuote("intel", p, r.quote, o)
        \o Check(r.quote.nonce = Nonce)
        \o Check(r.echo = NoEcho \/ r.echo = Echo(r.quote))
        \o Check(r.quote.head = IF r.fingerprint = "none" THEN <<r.address>>
                                ELSE <<r.address, r.fingerprint>>)
        \o VerifyDstackDeployment(r)

RunDeploymentVerifier(r, p, verifier, policy) ==
    When(verifier, Ask("verifier", p, OSImageHash(r.log) = "release"))
        \o When(policy, Ask("policy", p, r.compose = "compose"))

VerifyGatewayAttestation(r, o) ==
    VerifyAttestation(r, 0, o)
        \o RunDeploymentVerifier(r, 0, o.gatewayVerifier, FALSE)
        \o Check(r.fingerprint \in {"none", Peer})

VerifyComposeManager(m, p, compose, o) ==
    Check(SameNonce(m.nonce))
        \o VerifyQuote("manager", p, m.quote, o)
        \o Check(m.quote.nonce = Nonce)
        \o Check(m.echo = NoEcho \/ m.echo = Echo(m.quote))
        \o Check(m.hash = m.actions /\ m.quote.head = <<m.actions>>)
        \o Check(MeasuredCompose(m.quote, compose))
        \o Check(ReplayEvents(m.log, m.quote))

GpuEvidence(gpu, p, o) ==
    IF gpu = NoGpu THEN Check(~o.gpuRequired)
    ELSE Check(SameNonce(gpu.nonce)) \o Ask("nvidia", p, gpu.genuine)

SigningPublicKey(r) == r.key = NoKey \/ r.key = r.address

VerifyModelEvidence(r, p, o) ==
    (IF r.manager = <<>> THEN <<>> ELSE VerifyComposeManager(r.manager[1], p, r.compose, o))
        \o RunDeploymentVerifier(r, p, o.verifier, o.policy)
        \o GpuEvidence(r.gpu, p, o)
        \o Check(SigningPublicKey(r))

\* Behind a Gateway a model report must not carry a TLS key.
VerifyModelAttestation(r, p, o) ==
    Check(o.direct \/ r.fingerprint = "none") \o VerifyAttestation(r, p, o) \o VerifyModelEvidence(r, p, o)

VerifyOHTTPKeyConfig(config, signer) ==
    /\ config.algo = "ed25519" /\ signer.algo = "ed25519" /\ config.key = signer.address
    /\ config.signed

NewOHTTPTransport(config) == config.supported

ConfigureOHTTP(i, signer) ==
    LET config == OhttpVariant(signer, i.ohttp)
    IN When(i.o.ohttp, Check(config.present) \o Check(VerifyOHTTPKeyConfig(config, signer))
                           \o Check(NewOHTTPTransport(config)))

-----------------------------------------------------------------------------
(* api.go: what a fetch refuses before verification starts. *)

DecodeAttestation(r) == r.nonce # "malformed" /\ SigningBytes(r)

FetchGatewayAttestation(i) ==
    LET r == GatewayOf(i)
    IN Ask("evidence", 0, TRUE)
        \o Check(DecodeAttestation(r))
        \o Check(r.echo # NoEcho /\ SameNonce(r.nonce) /\ (r.fingerprint # "none") = i.o.tls)

\* A direct endpoint's entries lose their nested manager evidence; its
\* serving envelope supplies that of the entry it equals.
Entry(i, p) ==
    IF i.o.direct /\ p # Serving THEN [ModelOf(i, p) EXCEPT !.manager = <<>>] ELSE ModelOf(i, p)

FetchModelAttestations(i) ==
    Ask(IF i.o.direct THEN "evidence" ELSE "reports", 0, TRUE)
        \o Check(\A p \in Reports(i) : /\ DecodeAttestation(Entry(i, p))
                                       /\ SameNonce(Entry(i, p).nonce)
                                       /\ Entry(i, p).fingerprint = "none")
        \o When(i.o.direct, Check(Reports(i) # {} /\ i.listed))

\* A pinned transport shakes hands only with the key the Gateway attested.
PinnedTransport(i) == Connect(~(i.o.tls /\ i.moved))

FetchModelMetadata(i) == PinnedTransport(i) \o Ask("catalog", 0, TRUE)

-----------------------------------------------------------------------------
(* client.go: createSession. *)

GatewaySteps(i) ==
    FetchGatewayAttestation(i)
        \o VerifyGatewayAttestation(GatewayOf(i), i.o)
        \o Check(GatewayOf(i).algo = i.o.algo)
        \o ConfigureOHTTP(i, GatewayOf(i))
        \o FetchModelMetadata(i)
        \o (IF i.vllm THEN PinnedTransport(i) \o FetchModelAttestations(i) \o Check(Reports(i) # {})
            ELSE Check(~(i.o.e2ee \/ i.o.policy \/ i.o.verifier \/ i.o.tcb # {} \/ i.o.gpuRequired)))

Verified(i) == IF i.o.direct \/ i.vllm THEN Reports(i) ELSE {}

\* The reports, one after another.
ReportSteps(i) ==
    LET upTo[n \in {0} \cup Verified(i)] ==
            IF n = 0 THEN <<>> ELSE upTo[n - 1] \o VerifyModelAttestation(Entry(i, n), n, i.o)
    IN IF Verified(i) = {} THEN upTo[0] ELSE upTo[Len(i.models)]

\* The first such report becomes the session's model key.
Selected(i, p) ==
    LET r == Entry(i, p) serving == Entry(i, Serving)
    IN /\ r.algo = i.o.algo /\ r.key # NoKey
       /\ i.o.direct /\ i.o.ohttp => r.algo = serving.algo /\ r.address = serving.address

CreateSession(i) ==
    (IF i.o.direct THEN FetchModelAttestations(i) ELSE GatewaySteps(i))
        \o ReportSteps(i)
        \o Check(Verified(i) = {} \/ \E p \in Verified(i) : Selected(i, p))
        \o When(i.o.direct /\ Verified(i) # {}, ConfigureOHTTP(i, Entry(i, Serving)))

-----------------------------------------------------------------------------
Init ==
    /\ case \in Cases
    /\ inflight = {Call("evidence", 0)}
    /\ answered = {}
    /\ outcome = "running"

Fail(error) == outcome' = error /\ inflight' = {} /\ UNCHANGED <<case, answered>>

\* The party asked by c answers, and createSession runs on to its next call.
Resume(c, steps) ==
    LET here == PositionOf(steps, c)
        next == HaltAfter(steps, here)
    IN /\ steps[here].ok /\ Waits(steps, next)
       /\ inflight' = {steps[next].call}
       /\ answered' = answered \cup {c}
       /\ UNCHANGED <<case, outcome>>

\* It was the last call.
Return(c, steps) ==
    LET here == PositionOf(steps, c)
    IN /\ steps[here].ok /\ Finished(steps, HaltAfter(steps, here))
       /\ inflight' = {} /\ answered' = answered \cup {c}
       /\ outcome' = "granted"
       /\ UNCHANGED case

\* The party rejects, or a check behind its answer fails.
Reject(c, steps) ==
    LET here == PositionOf(steps, c)
        next == HaltAfter(steps, here)
    IN \/ ~steps[here].ok /\ Fail("refused")
       \/ steps[here].ok /\ Fails(steps, next) /\ Fail(ErrorOf(steps[next]))

Answer(c, steps) == Resume(c, steps) \/ Return(c, steps) \/ Reject(c, steps)

Unreachable(c) == c \in inflight /\ Fail("unreachable")

\* The context of the flight is cancelled under the call it waits for.
Cancel(c) == c \in inflight /\ Fail("abandoned")

Done == outcome # "running" /\ UNCHANGED vars

Next == \/ \E c \in inflight : Answer(c, CreateSession(case)) \/ Unreachable(c) \/ Cancel(c)
        \/ Done

Spec == Init /\ [][Next]_vars

=============================================================================
