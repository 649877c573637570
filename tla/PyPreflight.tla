----------------------------- MODULE PyPreflight -----------------------------
(***************************************************************************)
(* The preflight of the Python client: _create_session of                  *)
(* inference_client.py and direct_inference_client.py, one asyncio task.   *)
(* Every model report is verified by a task of its own, which verifies CPU *)
(* and GPU evidence in two further tasks; gather_cancel_on_error joins     *)
(* both levels.  When one of two tracks fails, the report's task cancels   *)
(* the other and only then fails itself, and only then the reports'        *)
(* siblings are cancelled: in between they run on.                         *)
(***************************************************************************)
EXTENDS Evidence

CONSTANT Cases   \* the options and evidence the client may meet

VARIABLES case, inflight, answered, outcome,
          faults   \* the reports with a failed track whose error is still to be raised

vars == <<case, inflight, answered, outcome, faults>>

Nonce == "fresh"   \* generate_nonce(), drawn for one evidence request

-----------------------------------------------------------------------------
(* attestation_common.py and event_log.py *)

verify_reported_nonce(reported) == reported = Nonce
verify_advertised_report_data(advertised, quote) == advertised \in {NoEcho, Echo(quote)}
verify_report_data_nonce(quote) == quote.nonce = Nonce

verify_report_data_binding(r) == verify_report_data_nonce(r.quote) /\ r.quote.head = <<r.address>>
verify_report_data_binding_with_tls_fingerprint(r) ==
    verify_report_data_nonce(r.quote) /\ r.quote.head = <<r.address, r.fingerprint>>

verify_app_compose_mrconfig_binding(app_compose, quote) ==
    /\ quote.config[1] = 1
    /\ quote.config[2] = app_compose

event_digest(e) == IF e.runtime THEN <<e.name, e.payload>> ELSE e.digest
valid_event(e) ==
    /\ e.runtime => e.digest = Blank \/ e.digest = event_digest(e)
    /\ ~e.runtime => e.digest # Blank /\ e.digest # Malformed

rtmr3(event_log) == SelectSeq(event_log, LAMBDA e : e.imr = 3)

verify_and_replay_rtmr3(event_log, quote) ==
    LET events == rtmr3(event_log)
        replayed == [k \in DOMAIN events |-> event_digest(events[k])]
    IN /\ \A k \in DOMAIN event_log : event_log[k].parses
       /\ \A k \in DOMAIN events : valid_event(events[k])
       /\ events # <<>> /\ replayed = quote.rtmr

\* Each runtime event of the register overwrites what an earlier one claimed.
os_image_hash(event_log) ==
    LET claims == {e \in 1..Len(rtmr3(event_log)) :
                     rtmr3(event_log)[e].runtime /\ rtmr3(event_log)[e].name = "os-image-hash"}
        last == CHOOSE e \in claims : \A f \in claims : f <= e
    IN IF claims = {} THEN "none" ELSE rtmr3(event_log)[last].payload

-----------------------------------------------------------------------------
(* dstack_attestation.py, compose_manager_attestation.py, deployment_verifier.py *)

accepted_tcb_statuses(o) ==
    IF o.tcb = {} THEN {"UpToDate", "OutOfDate", "TDRelaunchAdvised"} ELSE o.tcb

verify_tdx_quote(to, p, quote, o) ==
    Ask(to, p, quote.genuine)
        \o Check(~quote.debug) \o Check(quote.tcb \in accepted_tcb_statuses(o))

verify_dstack_quote(r, p, o) ==
    Check(verify_reported_nonce(r.nonce)) \o Check(r.address[1] = r.algo)
        \o verify_tdx_quote("intel", p, r.quote, o)
        \o Check(verify_advertised_report_data(r.echo, r.quote))

verify_dstack_deployment(r) ==
    Check(verify_and_replay_rtmr3(r.log, r.quote))
        \o Check(verify_app_compose_mrconfig_binding(r.compose, r.quote))

verify_compose_manager_attestation(m, p, app_compose, o) ==
    Check(verify_reported_nonce(m.nonce))
        \o verify_tdx_quote("manager", p, m.quote, o)
        \o Check(verify_advertised_report_data(m.echo, m.quote))
        \o Check(verify_report_data_nonce(m.quote))
        \o Check(m.actions = m.hash /\ m.quote.head = <<m.actions>>)
        \o Check(verify_app_compose_mrconfig_binding(app_compose, m.quote))
        \o Check(verify_and_replay_rtmr3(m.log, m.quote))

\* The caller's verifier releases OS images, its deployment policy applications.
run_deployment_verifier(r, p, verifier, policy) ==
    When(verifier, Ask("verifier", p, os_image_hash(r.log) = "release"))
        \o When(policy, Ask("policy", p, r.compose = "compose"))

-----------------------------------------------------------------------------
(* attestation_gateway.py, attestation_model.py, attestation_direct.py *)

verify_gateway_attestation(r, o) ==
    verify_dstack_quote(r, 0, o)
        \o (IF r.fingerprint = "none" THEN Check(verify_report_data_binding(r))
            ELSE Check(o.tls) \o Check(verify_report_data_binding_with_tls_fingerprint(r))
                     \o Check(r.fingerprint = Peer))
        \o verify_dstack_deployment(r)
        \o run_deployment_verifier(r, 0, o.gatewayVerifier, FALSE)

verify_model_deployment(r, p, o) ==
    (IF r.manager = <<>> THEN <<>>
     ELSE verify_compose_manager_attestation(r.manager[1], p, r.compose, o))
        \o verify_dstack_deployment(r)
        \o run_deployment_verifier(r, p, o.verifier, o.policy)

\* Only a direct report is decoded with a TLS key, and without one it has none.
verify_cpu(r, p, o) ==
    verify_dstack_quote(r, p, o)
        \o Check(IF o.direct /\ r.fingerprint # "none"
                 THEN verify_report_data_binding_with_tls_fingerprint(r)
                 ELSE verify_report_data_binding(r))
        \o verify_model_deployment(r, p, o)

verify_gpu_evidence(r, p, o) ==
    IF r.gpu = NoGpu THEN Check(~o.gpuRequired)
    ELSE Check(verify_reported_nonce(r.gpu.nonce)) \o Ask("nvidia", p, r.gpu.genuine)

verify_signing_public_key(r) == r.key \in {NoKey, r.address}

-----------------------------------------------------------------------------
(* cloud_api.py, direct_api.py, ohttp_attestation.py *)

map_attestation(r) == r.address[1] = r.algo

fetch_gateway_attestation(r, o) ==
    Ask("evidence", 0, TRUE)
        \o Check(r.echo # NoEcho) \o Check(map_attestation(r))
        \o Check((r.fingerprint # "none") = o.tls)
        \o Check(r.nonce = Nonce)

fetch_model_attestations(i) ==
    Ask("reports", 0, TRUE)
        \o Check(\A p \in Reports(i) : map_attestation(ModelOf(i, p)))
        \o Check(\A p \in Reports(i) : ModelOf(i, p).nonce = Nonce)

fetch_direct_attestations(i) ==
    Ask("evidence", 0, TRUE)
        \o Check(Reports(i) # {})
        \o Check(\A p \in Reports(i) : map_attestation(ModelOf(i, p)))
        \o Check(i.listed)
        \o Check(\A p \in Reports(i) :
                    ModelOf(i, p).nonce = Nonce /\ ModelOf(i, p).fingerprint = "none")

\* The schema of a direct report knows no manager evidence: the envelope has
\* it, and it is put back into the serving report.
report(i, p) ==
    IF i.o.direct /\ p # Serving THEN [ModelOf(i, p) EXCEPT !.manager = <<>>] ELSE ModelOf(i, p)

verify_ohttp_key_config(i, signer) ==
    LET config == OhttpVariant(signer, i.ohttp)
    IN When(i.o.ohttp, Check(config.present)
                         \o Check(signer.algo = "ed25519" /\ config.algo = "ed25519")
                         \o Check(config.key = signer.address) \o Check(config.signed))

completion_client(i, signer) ==
    When(i.o.ohttp, Check(OhttpVariant(signer, i.ohttp).supported))

-----------------------------------------------------------------------------
(* inference_client.py and direct_inference_client.py *)

\* A pinned client refuses every other TLS key before it writes a request.
pinned(i) == Check(i.o.tls => ~i.moved)

verify_gateway(i) ==
    verify_gateway_attestation(GatewayOf(i), i.o)
        \o Check(GatewayOf(i).algo = i.o.algo)
        \o verify_ohttp_key_config(i, GatewayOf(i))

model_policy(o) == o.tcb # {} \/ o.gpuRequired

fetch_models(i) ==
    pinned(i) \o Ask("catalog", 0, TRUE)
        \o (IF i.vllm THEN pinned(i) \o fetch_model_attestations(i) \o Check(Reports(i) # {})
            ELSE Check(~(i.o.e2ee \/ i.o.policy \/ model_policy(i.o) \/ i.o.verifier)))

\* What is awaited one after another, before the reports are gathered ...
prologue(i) ==
    IF i.o.direct THEN fetch_direct_attestations(i)
    ELSE fetch_gateway_attestation(GatewayOf(i), i.o) \o verify_gateway(i)
            \o completion_client(i, GatewayOf(i)) \o fetch_models(i)

\* ... the reports that are gathered ...
gathered(i) == IF i.o.direct \/ i.vllm THEN Reports(i) ELSE {}

same_signer(r, s) == r.algo = s.algo /\ r.address = s.address

selects(i, p) ==
    LET r == report(i, p)
    IN /\ r.algo = i.o.algo /\ r.key # NoKey
       /\ (i.o.direct /\ i.o.ohttp) => same_signer(r, report(i, Serving))

\* ... and what follows.
epilogue(i) ==
    LET selected == Check(gathered(i) = {} \/ \E p \in gathered(i) : selects(i, p))
        serving == report(i, Serving)
    IN IF i.o.direct
       THEN verify_ohttp_key_config(i, serving) \o selected \o completion_client(i, serving)
       ELSE selected

-----------------------------------------------------------------------------
(* The tasks.  A track is one of the two tasks that verify a report.        *)

Tracks == {"cpu", "gpu"}
StepsIn(i, track, p) ==
    IF track = "cpu" THEN verify_cpu(report(i, p), p, i.o)
    ELSE verify_gpu_evidence(report(i, p), p, i.o)
TrackOf(c) == IF c.to = "nvidia" THEN "gpu" ELSE "cpu"

\* What is awaited before the tasks are made is asked for no report in particular.
InPrologue(c) == c.for = 0
StepsOf(c) == IF InPrologue(c) THEN prologue(case) ELSE StepsIn(case, TrackOf(c), c.for)

CallsFor(p) == {d \in inflight : d.for = p /\ ~InPrologue(d)}
Faulty(p) == \E f \in faults : f.for = p
Fault(p, error, stopped) == [for |-> p, error |-> error, stopped |-> stopped]

Raise(error) ==
    outcome' = error /\ inflight' = {} /\ faults' = {} /\ UNCHANGED <<case, answered>>

\* Mutant: an error reaches the report's gather only while the other track runs.
BadFailTrack(c, error) ==
    /\ inflight' = inflight \ {c}
    /\ faults' = IF CallsFor(c.for) = {c} THEN faults ELSE faults \cup {Fault(c.for, error, FALSE)}
    /\ UNCHANGED <<case, answered, outcome>>

\* The first error of a report's tracks is the one its gather raises.
FailTrack(c, error) ==
    /\ inflight' = inflight \ {c}
    /\ faults' = IF Faulty(c.for) THEN faults ELSE faults \cup {Fault(c.for, error, FALSE)}
    /\ UNCHANGED <<case, answered, outcome>>

FailAt(c, error) == IF InPrologue(c) THEN Raise(error) ELSE FailTrack(c, error)

\* All tracks start; one whose own checks fail asks nobody.
Gather(c, tasks) ==
    LET halt(x) == HaltAfter(tasks[x], 0)
        asking == {x \in DOMAIN tasks : Waits(tasks[x], halt(x))}
        failing == {x \in DOMAIN tasks : Fails(tasks[x], halt(x))}
    IN /\ inflight' = {tasks[x][halt(x)].call : x \in asking}
       /\ faults' = {Fault(x[2], "refused", FALSE) : x \in failing}
       /\ answered' = answered \cup {c}
       /\ UNCHANGED <<case, outcome>>

Finish(c, steps) ==
    LET j == HaltAfter(steps, 0)
    IN IF Fails(steps, j) THEN Raise(ErrorOf(steps[j]))
       ELSE /\ outcome' = "granted" /\ inflight' = {} /\ answered' = answered \cup {c}
            /\ UNCHANGED <<case, faults>>

\* A track of report p has ended with the answer to c.  With both ended the
\* report's key is checked, and with all reports verified the session is made.
EndTrack(c) ==
    LET p == c.for
        ends == CallsFor(p) = {c} /\ ~Faulty(p)
        key == verify_signing_public_key(report(case, p))
    IN IF ends /\ key /\ inflight = {c} /\ faults = {} THEN Finish(c, epilogue(case))
       ELSE /\ inflight' = inflight \ {c} /\ answered' = answered \cup {c}
            /\ faults' = IF ends /\ ~key THEN faults \cup {Fault(p, "refused", TRUE)} ELSE faults
            /\ UNCHANGED <<case, outcome>>

-----------------------------------------------------------------------------
Init ==
    /\ case \in Cases
    /\ inflight = {Call("evidence", 0)}
    /\ answered = {}
    /\ outcome = "running"
    /\ faults = {}

\* The party asked by c answers, and the task that awaited it runs on to its
\* next call.
Resume(c, steps) ==
    LET here == PositionOf(steps, c)
        next == HaltAfter(steps, here)
    IN /\ steps[here].ok /\ Waits(steps, next)
       /\ inflight' = (inflight \ {c}) \cup {steps[next].call}
       /\ answered' = answered \cup {c}
       /\ UNCHANGED <<case, outcome, faults>>

\* It was the last call of its task.
Return(c, steps) ==
    LET here == PositionOf(steps, c)
    IN /\ steps[here].ok /\ Finished(steps, HaltAfter(steps, here))
       /\ IF ~InPrologue(c) THEN EndTrack(c)
          ELSE IF gathered(case) = {} THEN Finish(c, epilogue(case))
          ELSE Gather(c, [x \in Tracks \X gathered(case) |-> StepsIn(case, x[1], x[2])])

\* The party rejects, or a check behind its answer fails.
Reject(c, steps) ==
    LET here == PositionOf(steps, c)
        next == HaltAfter(steps, here)
    IN \/ ~steps[here].ok /\ FailAt(c, "refused")
       \/ steps[here].ok /\ Fails(steps, next) /\ FailAt(c, ErrorOf(steps[next]))

Answer(c, steps) == Resume(c, steps) \/ Return(c, steps) \/ Reject(c, steps)

Unreachable(c) == FailAt(c, "unreachable")

\* The task of a report wakes up to a failed track and cancels the other one ...
CancelTracks(f) ==
    /\ ~f.stopped
    /\ inflight' = inflight \ CallsFor(f.for)
    /\ faults' = (faults \ {f}) \cup {[f EXCEPT !.stopped = TRUE]}
    /\ UNCHANGED <<case, answered, outcome>>

\* ... then raises the error, and the session's task cancels all other reports.
CancelReports(f) == f.stopped /\ Raise(f.error)

\* The client is closed, which cancels the session's task.
Close == outcome = "running" /\ Raise("abandoned")

Done == outcome # "running" /\ UNCHANGED vars

Next == \/ \E c \in inflight : Answer(c, StepsOf(c)) \/ Unreachable(c)
        \/ \E f \in faults : CancelTracks(f) \/ CancelReports(f)
        \/ Close \/ Done

Spec == Init /\ [][Next]_vars

=============================================================================
