----------------------------- MODULE JsPreflight -----------------------------
(***************************************************************************)
(* The preflight of the JavaScript client: createVerificationState of      *)
(* inference-client.ts and direct-inference-client.ts.  Promise.all starts *)
(* the CPU and the GPU verification of every model report at once and      *)
(* rejects with the first error; it stops none of the others, so their     *)
(* verification goes on behind a preflight that has failed.  A caller's    *)
(* abort signal ends the caller's wait only.                               *)
(***************************************************************************)
EXTENDS Evidence

CONSTANT Cases   \* the options and evidence the client may meet

VARIABLES case, inflight, answered, outcome

vars == <<case, inflight, answered, outcome>>

Nonce == "fresh"   \* generateNonce(), drawn for one evidence request

-----------------------------------------------------------------------------
(* attestation-common.ts and event-log.ts *)

verifyReportedNonce(reportedNonce) == Check(reportedNonce = Nonce)

verifyQuoteReportDataNonce(quote) == Check(quote.nonce = Nonce)

verifyReportDataBinding(r) ==
    verifyQuoteReportDataNonce(r.quote) \o Check(r.quote.head = <<r.address>>)

verifyReportDataBindingWithTlsFingerprint(r) ==
    verifyQuoteReportDataNonce(r.quote) \o Check(r.quote.head = <<r.address, r.fingerprint>>)

verifyAppComposeMrConfigBinding(appCompose, quote) == Check(quote.config = <<1, appCompose>>)

verifyAdvertisedReportData(advertised, quote) ==
    When(advertised # NoEcho, Check(advertised = Echo(quote)))

eventDigest(e) == IF e.runtime THEN <<e.name, e.payload>> ELSE e.digest

\* A runtime event may omit its digest, no event may misstate it.
isAcceptable(e) ==
    \/ e.runtime /\ e.digest \in {Blank, <<e.name, e.payload>>}
    \/ ~e.runtime /\ e.digest \notin {Blank, Malformed}

replayable(eventLog) == SelectSeq(eventLog, LAMBDA e : e.imr = 3)

verifyAndReplayRtmr3(eventLog, quote) ==
    LET events == replayable(eventLog)
    IN Check(\A k \in DOMAIN eventLog : eventLog[k].parses)
        \o Check(\A k \in DOMAIN events : isAcceptable(events[k]))
        \o Check(Len(events) > 0)
        \o Check(quote.rtmr = [k \in DOMAIN events |-> eventDigest(events[k])])

\* Only a runtime event names the OS image, and the last of them wins.
osImageHash(eventLog) ==
    LET named == SelectSeq(replayable(eventLog), LAMBDA e : e.name = "os-image-hash" /\ e.runtime)
    IN IF named = <<>> THEN "none" ELSE named[Len(named)].payload

-----------------------------------------------------------------------------
(* dstack-attestation.ts, compose-manager-attestation.ts, deployment-verifier.ts *)

getAcceptedTcbStatuses(o) ==
    IF o.tcb = {} THEN {"UpToDate", "OutOfDate", "TDRelaunchAdvised"} ELSE o.tcb

verifyTdxQuote(to, p, quote, o) ==
    Ask(to, p, quote.genuine)
        \o Check(~quote.debug) \o Check(quote.tcb \in getAcceptedTcbStatuses(o))

verifyDstackQuote(r, p, o) ==
    verifyReportedNonce(r.nonce) \o Check(r.address[1] = r.algo)
        \o verifyTdxQuote("intel", p, r.quote, o)
        \o verifyAdvertisedReportData(r.echo, r.quote)

verifyDstackDeployment(r) ==
    verifyAndReplayRtmr3(r.log, r.quote) \o verifyAppComposeMrConfigBinding(r.compose, r.quote)

verifyComposeManagerAttestation(m, p, appCompose, o) ==
    verifyReportedNonce(m.nonce)
        \o verifyTdxQuote("manager", p, m.quote, o)
        \o verifyAdvertisedReportData(m.echo, m.quote)
        \o verifyQuoteReportDataNonce(m.quote)
        \o Check(m.actions = m.hash /\ m.quote.head = <<m.actions>>)
        \o verifyAppComposeMrConfigBinding(appCompose, m.quote)
        \o verifyAndReplayRtmr3(m.log, m.quote)

\* The caller's verifier releases OS images, its deployment policy applications.
runDeploymentVerifier(r, p, verifier, policy) ==
    When(verifier, Ask("verifier", p, osImageHash(r.log) = "release"))
        \o When(policy, Ask("policy", p, r.compose = "compose"))

-----------------------------------------------------------------------------
(* attestation-gateway.ts, attestation-model.ts, attestation-direct.ts *)

verifyGatewayAttestation(r, o) ==
    verifyDstackQuote(r, 0, o)
        \o (IF r.fingerprint = "none" THEN verifyReportDataBinding(r)
            ELSE Check(o.tls) \o verifyReportDataBindingWithTlsFingerprint(r)
                     \o Check(r.fingerprint = Peer))
        \o verifyDstackDeployment(r)
        \o runDeploymentVerifier(r, 0, o.gatewayVerifier, FALSE)

verifySigningPublicKey(r) == When(r.key # NoKey, Check(r.key = r.address))

verifyModelDeployment(r, p, o) ==
    (IF r.manager = <<>> THEN <<>>
     ELSE verifyComposeManagerAttestation(r.manager[1], p, r.compose, o))
        \o verifyDstackDeployment(r)
        \o runDeploymentVerifier(r, p, o.verifier, o.policy)
        \o verifySigningPublicKey(r)

\* A report behind a Gateway is decoded without a TLS key.
verifyCpu(r, p, o) ==
    verifyDstackQuote(r, p, o)
        \o (IF o.direct /\ r.fingerprint # "none" THEN verifyReportDataBindingWithTlsFingerprint(r)
            ELSE verifyReportDataBinding(r))
        \o verifyModelDeployment(r, p, o)

verifyGpuEvidence(r, p, o) ==
    IF r.gpu = NoGpu THEN Check(~o.gpuRequired)
    ELSE verifyReportedNonce(r.gpu.nonce) \o Ask("nvidia", p, r.gpu.genuine)

-----------------------------------------------------------------------------
(* boundaries/, cloud-api.ts, direct-api.ts, ohttp-attestation.ts *)

mapEvidence(r) == r.address[1] = r.algo

fetchGatewayAttestation(r, o) ==
    Ask("evidence", 0, TRUE)
        \o Check(mapEvidence(r) /\ r.echo # NoEcho)
        \o Check((r.fingerprint # "none") = o.tls) \o Check(r.nonce = Nonce)

fetchModelAttestations(i) ==
    Ask("reports", 0, TRUE)
        \o Check(\A p \in Reports(i) : mapEvidence(ModelOf(i, p)))
        \o Check(\A p \in Reports(i) : ModelOf(i, p).nonce = Nonce)

fetchDirectModelAttestations(i) ==
    Ask("evidence", 0, TRUE)
        \o Check(i.models # <<>>)
        \o Check(\A p \in Reports(i) : mapEvidence(ModelOf(i, p)))
        \o Check(i.listed)
        \o Check(\A p \in Reports(i) :
                    ModelOf(i, p).nonce = Nonce /\ ModelOf(i, p).fingerprint = "none")

\* A direct endpoint's manager evidence is copied to its serving entry alone.
entry(i, p) ==
    IF i.o.direct /\ p # Serving THEN [ModelOf(i, p) EXCEPT !.manager = <<>>] ELSE ModelOf(i, p)

getOhttpKeyConfig(i, signer) ==
    LET config == OhttpVariant(signer, i.ohttp)
    IN When(i.o.ohttp, Check(config.present) \o Check(signer.algo = "ed25519")
                         \o Check(config.key = signer.address) \o Check(config.signed))

createCompletionFetch(i, signer) ==
    When(i.o.ohttp, Check(OhttpVariant(signer, i.ohttp).supported))

-----------------------------------------------------------------------------
(* createVerificationState *)

\* Every request of the session's fetch opens a connection and checks its key.
gatewayFetch(i) == Connect(i.o.tls => ~i.moved)

fetchReports(i) ==
    gatewayFetch(i) \o Ask("catalog", 0, TRUE)
        \o (IF i.vllm
            THEN gatewayFetch(i) \o fetchModelAttestations(i) \o Check(i.models # <<>>)
            ELSE Check(~i.o.e2ee /\ ~i.o.policy /\ ~i.o.verifier /\ ~i.o.gpuRequired /\ i.o.tcb = {}))

\* What is awaited one after another ...
sequel(i) ==
    LET gateway == GatewayOf(i)
    IN IF i.o.direct THEN fetchDirectModelAttestations(i)
       ELSE fetchGatewayAttestation(gateway, i.o)
                \o verifyGatewayAttestation(gateway, i.o)
                \o Check(gateway.algo = i.o.algo)
                \o getOhttpKeyConfig(i, gateway) \o createCompletionFetch(i, gateway)
                \o fetchReports(i)

\* ... then together, two tracks for every report ...
joined(i) ==
    (IF i.o.direct \/ i.vllm THEN Reports(i) ELSE {}) \X {"cpu", "gpu"}

track(i, t) ==
    LET p == t[1] IN IF t[2] = "cpu" THEN verifyCpu(entry(i, p), p, i.o)
                     ELSE verifyGpuEvidence(entry(i, p), p, i.o)

\* ... and in the end.
conclusion(i) ==
    LET serving == entry(i, Serving)
        sameSigner(r) == r.algo = serving.algo /\ r.address = serving.address
        key(r) == /\ r.algo = i.o.algo /\ r.key # NoKey
                  /\ i.o.direct /\ i.o.ohttp => sameSigner(r)
        found == Check(joined(i) = {} \/ \E t \in joined(i) : key(entry(i, t[1])))
    IN IF i.o.direct THEN getOhttpKeyConfig(i, serving) \o found \o createCompletionFetch(i, serving)
       ELSE found

\* What is awaited before the tracks is asked for no report in particular.
inSequel(c) == c.for = 0
stepsOf(c) ==
    IF inSequel(c) THEN sequel(case)
    ELSE track(case, <<c.for, IF c.to = "nvidia" THEN "gpu" ELSE "cpu">>)

-----------------------------------------------------------------------------
\* The first error is the preflight's; of a later one nobody hears.
Settle(error) == outcome' = IF outcome = "running" THEN error ELSE outcome

\* Promise.all starts every track; each runs on to its first call.
Start(c, tracks) ==
    LET halt(t) == HaltAfter(tracks[t], 0)
        waiting == {t \in DOMAIN tracks : Waits(tracks[t], halt(t))}
    IN /\ inflight' = {tracks[t][halt(t)].call : t \in waiting}
       /\ answered' = answered \cup {c}
       /\ IF \E t \in DOMAIN tracks : Fails(tracks[t], halt(t)) THEN Settle("refused")
          ELSE UNCHANGED outcome
       /\ UNCHANGED case

Conclude(c, steps) ==
    LET j == HaltAfter(steps, 0)
    IN /\ inflight' = {}
       /\ answered' = answered \cup {c}
       /\ Settle(IF Fails(steps, j) THEN ErrorOf(steps[j]) ELSE "granted")
       /\ UNCHANGED case

Init ==
    /\ case \in Cases
    /\ inflight = {Call("evidence", 0)}
    /\ answered = {}
    /\ outcome = "running"

\* The party asked by c answers, and verification runs on to its next call.
Resume(c, steps) ==
    LET here == PositionOf(steps, c)
        next == HaltAfter(steps, here)
    IN /\ steps[here].ok /\ Waits(steps, next)
       /\ inflight' = (inflight \ {c}) \cup {steps[next].call}
       /\ answered' = answered \cup {c}
       /\ UNCHANGED <<case, outcome>>

\* It was the last call of a track, or of what comes before the tracks.
Return(c, steps) ==
    LET here == PositionOf(steps, c)
    IN /\ steps[here].ok /\ Finished(steps, HaltAfter(steps, here))
       /\ IF inSequel(c) /\ joined(case) # {}
          THEN Start(c, [t \in joined(case) |-> track(case, t)])
          ELSE IF outcome = "running" /\ inflight = {c} THEN Conclude(c, conclusion(case))
          ELSE /\ inflight' = inflight \ {c} /\ answered' = answered \cup {c}
               /\ UNCHANGED <<case, outcome>>

\* The party rejects, or a check behind its answer fails.
Reject(c, steps) ==
    LET here == PositionOf(steps, c)
        next == HaltAfter(steps, here)
    IN /\ inflight' = inflight \ {c}
       /\ \/ ~steps[here].ok /\ Settle("refused")
          \/ steps[here].ok /\ Fails(steps, next) /\ Settle(ErrorOf(steps[next]))
       /\ UNCHANGED <<case, answered>>

Answer(c, steps) == Resume(c, steps) \/ Return(c, steps) \/ Reject(c, steps)

Unreachable(c) == inflight' = inflight \ {c} /\ Settle("unreachable") /\ UNCHANGED <<case, answered>>

Done == outcome # "running" /\ inflight = {} /\ UNCHANGED vars

Next == (\E c \in inflight : Answer(c, stepsOf(c)) \/ Unreachable(c)) \/ Done

Spec == Init /\ [][Next]_vars

=============================================================================
