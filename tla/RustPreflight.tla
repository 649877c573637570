---------------------------- MODULE RustPreflight ----------------------------
(***************************************************************************)
(* The preflight of the Rust client: create_session of inference.rs for a  *)
(* Gateway and of direct.rs for a direct endpoint, and the verification of *)
(* Gateway, model and compose-manager reports they run.  A future awaits   *)
(* one call at a time; the model reports are verified by one future each,  *)
(* joined by try_join_all, so the first that fails drops all others.       *)
(***************************************************************************)
EXTENDS Evidence

CONSTANT Cases   \* the options and evidence the client may meet

VARIABLES case, inflight, answered, outcome

vars == <<case, inflight, answered, outcome>>

Nonce == "fresh"   \* generate_nonce, drawn for one evidence request

-----------------------------------------------------------------------------
(* bindings.rs *)

VerifyReportedNonce(nonce) == nonce = Nonce

ValidateSigningIdentity(r) == r.address[1] = r.algo

VerifyAdvertisedReportData(echo, quote) == echo = NoEcho \/ echo = Echo(quote)

VerifyQuoteReportDataNonce(quote) == quote.nonce = Nonce

\* The signer-and-nonce layout: the address fills the first half.
VerifyReportDataBinding(r) ==
    VerifyQuoteReportDataNonce(r.quote) /\ r.quote.head = <<r.address>>

\* The layout that also hashes a TLS key, which must be the peer's.
VerifyReportDataBindingWithTls(r, peer) ==
    /\ VerifyQuoteReportDataNonce(r.quote)
    /\ r.quote.head = <<r.address, r.fingerprint>>
    /\ r.fingerprint = peer

VerifyAppComposeMrconfigidBinding(compose, quote) == quote.config = <<1, compose>>

-----------------------------------------------------------------------------
(* event_log.rs *)

\* A runtime event is hashed again and its stored digest may only agree;
\* of another event the digest is all there is.
EventDigest(e) == IF e.runtime THEN <<e.name, e.payload>> ELSE e.digest
EventHolds(e) ==
    IF e.runtime THEN e.digest \in {Blank, EventDigest(e)}
    ELSE e.digest \notin {Blank, Malformed}

Rtmr3Events(log) == SelectSeq(log, LAMBDA e : e.imr = 3)

VerifyAndReplayRtmr3(log, quote) ==
    LET events == Rtmr3Events(log)
    IN /\ \A k \in DOMAIN log : log[k].parses
       /\ \A k \in DOMAIN events : EventHolds(events[k])
       /\ events # <<>>
       /\ [k \in DOMAIN events |-> EventDigest(events[k])] = quote.rtmr

\* Mutant: an event of any register claims the OS image.
BadOsImage(log) ==
    LET claims == {k \in DOMAIN log : log[k].runtime /\ log[k].name = "os-image-hash"}
    IN IF claims = {} THEN "none"
       ELSE log[CHOOSE k \in claims : \A l \in claims : l <= k].payload

\* The OS image in the measurements a replay returns: the last one claimed
\* by a runtime event of RTMR3.
OsImage(log) ==
    LET events == Rtmr3Events(log)
        claims == {k \in DOMAIN events : events[k].runtime /\ events[k].name = "os-image-hash"}
    IN IF claims = {} THEN "none"
       ELSE events[CHOOSE k \in claims : \A l \in claims : l <= k].payload

-----------------------------------------------------------------------------
(* attestation.rs *)

AcceptedTcbStatuses(o) ==
    IF o.tcb = {} THEN {"UpToDate", "OutOfDate", "TDRelaunchAdvised"} ELSE o.tcb

VerifyTdxQuotePolicy(to, p, quote, o) ==
    Ask(to, p, quote.genuine)
        \o Check(~quote.debug) \o Check(quote.tcb \in AcceptedTcbStatuses(o))

VerifyDstackQuote(r, p, o) ==
    Check(VerifyReportedNonce(r.nonce)) \o Check(ValidateSigningIdentity(r))
        \o VerifyTdxQuotePolicy("intel", p, r.quote, o)
        \o Check(VerifyAdvertisedReportData(r.echo, r.quote))

VerifyDstackDeployment(r) ==
    Check(VerifyAndReplayRtmr3(r.log, r.quote))
        \o Check(VerifyAppComposeMrconfigidBinding(r.compose, r.quote))

-----------------------------------------------------------------------------
(* compose_manager.rs, model.rs, gateway.rs, deployment_verifier.rs, ohttp.rs *)

VerifyComposeManager(m, p, compose, o) ==
    Check(VerifyReportedNonce(m.nonce))
        \o VerifyTdxQuotePolicy("manager", p, m.quote, o)
        \o Check(VerifyAdvertisedReportData(m.echo, m.quote))
        \o Check(VerifyQuoteReportDataNonce(m.quote))
        \o Check(m.actions = m.hash /\ m.quote.head = <<m.actions>>)
        \o Check(VerifyAppComposeMrconfigidBinding(compose, m.quote))
        \o Check(VerifyAndReplayRtmr3(m.log, m.quote))

\* The caller's verifier releases OS images, its deployment policy applications.
RunDeploymentVerifier(r, p, verifier, policy) ==
    When(verifier, Ask("verifier", p, OsImage(r.log) = "release"))
        \o When(policy, Ask("policy", p, r.compose = "compose"))

VerifyGpuEvidence(gpu, p, o) ==
    IF gpu = NoGpu THEN Check(~o.gpuRequired)
    ELSE Check(VerifyReportedNonce(gpu.nonce)) \o Ask("nvidia", p, gpu.genuine)

VerifySigningPublicKey(r) == r.key \in {NoKey, r.address}

VerifyModelWithTls(r, p, o, fingerprint) ==
    VerifyDstackQuote(r, p, o)
        \o Check(IF fingerprint = "none" THEN VerifyReportDataBinding(r)
                 ELSE VerifyReportDataBindingWithTls(r, fingerprint))
        \o (IF r.manager = <<>> THEN <<>>
            ELSE VerifyComposeManager(r.manager[1], p, r.compose, o))
        \o VerifyDstackDeployment(r)
        \o RunDeploymentVerifier(r, p, o.verifier, o.policy)
        \o VerifyGpuEvidence(r.gpu, p, o)
        \o Check(VerifySigningPublicKey(r))

VerifyGatewayAttestation(r, o) ==
    VerifyDstackQuote(r, 0, o)
        \o Check(IF r.fingerprint = "none" THEN VerifyReportDataBinding(r)
                 ELSE o.tls /\ VerifyReportDataBindingWithTls(r, Peer))
        \o VerifyDstackDeployment(r)
        \o RunDeploymentVerifier(r, 0, o.gatewayVerifier, FALSE)

VerifyOhttpKeyConfig(config, signer) ==
    /\ signer.algo = "ed25519" /\ config.algo = "ed25519"
    /\ config.key = signer.address
    /\ config.signed

CreateOhttpClient(config) == config.supported

OhttpSteps(i, signer) ==
    LET config == OhttpVariant(signer, i.ohttp)
    IN When(i.o.ohttp, Check(config.present) \o Check(VerifyOhttpKeyConfig(config, signer))
                           \o Check(CreateOhttpClient(config)))

-----------------------------------------------------------------------------
(* cloud_api.rs, direct.rs: what a fetch refuses before verification starts. *)

MapEvidence(r) == r.nonce # "malformed" /\ ValidateSigningIdentity(r)

FetchGatewayAttestation(r, o) ==
    Ask("evidence", 0, TRUE)
        \o Check(MapEvidence(r) /\ r.echo # NoEcho)
        \o Check(o.tls = (r.fingerprint # "none"))
        \o Check(r.nonce = Nonce)

FetchModelAttestations(i) ==
    Ask("reports", 0, TRUE)
        \o Check(\A p \in Reports(i) : MapEvidence(ModelOf(i, p)))
        \o Check(\A p \in Reports(i) : ModelOf(i, p).nonce = Nonce)

FetchDirectModelAttestations(i) ==
    Ask("evidence", 0, TRUE)
        \o Check(Reports(i) # {})
        \o Check(\A p \in Reports(i) : MapEvidence(ModelOf(i, p)))
        \o Check(i.listed)
        \o Check(\A p \in Reports(i) :
                    ModelOf(i, p).fingerprint = "none" /\ ModelOf(i, p).nonce = Nonce)

\* Only the serving envelope of a direct endpoint speaks for a compose manager.
DirectReport(i, p) ==
    IF p = Serving THEN ModelOf(i, p) ELSE [ModelOf(i, p) EXCEPT !.manager = <<>>]

\* The decoder of a Gateway's model reports does not read a TLS key.
ReportSteps(i, p) ==
    IF i.o.direct
    THEN LET r == DirectReport(i, p) IN VerifyModelWithTls(r, p, i.o, r.fingerprint)
    ELSE VerifyModelWithTls(ModelOf(i, p), p, i.o, "none")

-----------------------------------------------------------------------------
(* inference.rs and direct.rs: create_session. *)

\* A pinned client shakes hands only with the key the Gateway attested.
PinnedTo(i) == Connect(i.o.tls => ~i.moved)

\* The options hold a policy for model reports.
ModelPolicy(o) == o.tcb # {} \/ o.gpuRequired

ModelMetadata(i) ==
    PinnedTo(i) \o Ask("catalog", 0, TRUE)
        \o When(~i.vllm, Check(~(i.o.e2ee \/ i.o.verifier \/ i.o.policy \/ ModelPolicy(i.o))))

\* The Gateway is authenticated before a credentialed request is made.
GatewaySteps(i) ==
    FetchGatewayAttestation(GatewayOf(i), i.o)
        \o VerifyGatewayAttestation(GatewayOf(i), i.o)
        \o Check(GatewayOf(i).algo = i.o.algo)
        \o OhttpSteps(i, GatewayOf(i))
        \o ModelMetadata(i)
        \o When(i.vllm, PinnedTo(i) \o FetchModelAttestations(i) \o Check(Reports(i) # {}))

\* What create_session awaits one call after another, before it joins the reports.
Prologue(i) == IF i.o.direct THEN FetchDirectModelAttestations(i) ELSE GatewaySteps(i)

\* The reports that are joined: none where the catalog lists no NEAR-attested model.
Joined(i) == IF i.o.direct \/ i.vllm THEN Reports(i) ELSE {}

SameSigner(r, s) == r.algo = s.algo /\ r.address = s.address

Selectable(i, p) ==
    /\ ModelOf(i, p).algo = i.o.algo /\ ModelOf(i, p).key # NoKey
    /\ i.o.direct /\ i.o.ohttp => SameSigner(ModelOf(i, p), ModelOf(i, Serving))

Epilogue(i) ==
    Check(Joined(i) = {} \/ \E p \in Joined(i) : Selectable(i, p))
        \o When(i.o.direct, OhttpSteps(i, ModelOf(i, Serving)))

-----------------------------------------------------------------------------
(* The future of create_session: which call a halt at step j begins, and    *)
(* what the end of all verification means.                                  *)

\* Whatever is awaited before the join is asked for no report in particular.
InPrologue(c) == c.for = 0
StepsOf(i, c) == IF InPrologue(c) THEN Prologue(i) ELSE ReportSteps(i, c.for)

Fail(error) == outcome' = error /\ inflight' = {} /\ UNCHANGED <<case, answered>>

Finish(c, epilogue) ==
    LET j == HaltAfter(epilogue, 0)
    IN IF Fails(epilogue, j) THEN Fail(ErrorOf(epilogue[j]))
       ELSE outcome' = "granted" /\ inflight' = {} /\ answered' = answered \cup {c} /\ UNCHANGED case

\* try_join_all polls every report's future once; each runs to its first call.
JoinReports(c, futures) ==
    LET first(p) == HaltAfter(futures[p], 0)
    IN IF \E p \in DOMAIN futures : Fails(futures[p], first(p)) THEN Fail("refused")
       ELSE /\ inflight' = {futures[p][first(p)].call : p \in DOMAIN futures}
            /\ answered' = answered \cup {c}
            /\ UNCHANGED <<case, outcome>>

-----------------------------------------------------------------------------
Init ==
    /\ case \in Cases
    /\ inflight = {Call("evidence", 0)}
    /\ answered = {}
    /\ outcome = "running"

\* The party asked by c answers, and the future that awaited it runs on to
\* its next call.
Resume(c, steps) ==
    LET here == PositionOf(steps, c)
        next == HaltAfter(steps, here)
    IN /\ steps[here].ok /\ Waits(steps, next)
       /\ inflight' = (inflight \ {c}) \cup {steps[next].call}
       /\ answered' = answered \cup {c}
       /\ UNCHANGED <<case, outcome>>

\* It is the last call of its future: the reports are joined, or the last of
\* them has been verified, or others are still awaited.
Return(c, steps) ==
    LET here == PositionOf(steps, c)
    IN /\ steps[here].ok /\ Finished(steps, HaltAfter(steps, here))
       /\ IF InPrologue(c) /\ Joined(case) # {}
          THEN JoinReports(c, [p \in Joined(case) |-> ReportSteps(case, p)])
          ELSE IF inflight = {c} THEN Finish(c, Epilogue(case))
          ELSE /\ inflight' = inflight \ {c} /\ answered' = answered \cup {c}
               /\ UNCHANGED <<case, outcome>>

\* The party rejects, or a check behind its answer fails.
Reject(c, steps) ==
    LET here == PositionOf(steps, c)
        next == HaltAfter(steps, here)
    IN \/ ~steps[here].ok /\ Fail("refused")
       \/ steps[here].ok /\ Fails(steps, next) /\ Fail(ErrorOf(steps[next]))

Answer(c, steps) == Resume(c, steps) \/ Return(c, steps) \/ Reject(c, steps)

Unreachable(c) == c \in inflight /\ Fail("unreachable")

\* The caller drops the future.
Abandon == outcome = "running" /\ Fail("abandoned")

Done == outcome # "running" /\ UNCHANGED vars

Next == \/ \E c \in inflight : Answer(c, StepsOf(case, c)) \/ Unreachable(c)
        \/ Abandon \/ Done

Spec == Init /\ [][Next]_vars

=============================================================================
