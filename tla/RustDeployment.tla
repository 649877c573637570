--------------------------- MODULE RustDeployment ---------------------------
(***************************************************************************)
(* The last checks of a model's evidence in the Rust client, once its      *)
(* quote is verified: the deployment's image provenance, by the helpers a  *)
(* deployment verifier calls, and then the GPU evidence                    *)
(* (verify_model_with_tls in rs/src/model.rs runs one after the other).    *)
(*                                                                         *)
(* `deployed` is the measured deployment with the caller's policies and    *)
(* `stage` how far its verification is.  GitHub, a proxy of it and         *)
(* NVIDIA's services are free to answer anything; the runs bound by        *)
(* MaxFaults how many inputs and answers are not as usual.                 *)
(***************************************************************************)
EXTENDS RustProvenance, RustImages, RustNras

CONSTANTS
    Deployments,    \* with their policies and options
    Files,          \* from the hash of a Compose file to its content
    FileAnswers,    \* what a request for a file may be answered
    Pages,          \* what a request for attestations may be answered
    Payloads, NrasAnswers, JwksAnswers,
    MaxFile,        \* 8 MiB
    MaxTime, MaxFaults

\* The limits and sizes are numbers, logs and pages are sequences, and the key
\* set that NVIDIA's own address serves holds NVIDIA's keys.
IsSeq(s) == s \in Seq({s[k] : k \in DOMAIN s})
ASSUME RustDeploymentAssumption ==
    /\ MaxPages \in Nat \ {0} /\ {MaxPage, MaxTotal} \subseteq Nat
    /\ \A deployment \in Deployments : IsSeq(deployment.actions)
    /\ \A page \in Pages : page.size \in Nat /\ IsSeq(page.bundles)
    /\ \A answer \in JwksAnswers : \A key \in answer.keys : key.key = "nvidia"

VARIABLES
    deployed, stage,
    queue,          \* the images still to verify
    payload, token, \* GPU evidence, and the token NRAS answered with
    now, oddities,
    served,         \* history: the attestations served for each digest
    submitted       \* history: when the payload was submitted

flowVars == <<deployed, queue>>
gpuVars == <<payload, token, submitted>>
deploymentVars == <<deployed, stage, queue, payload, token, now, oddities, served, submitted, fetchVars>>

NoToken == [alg |-> "none"]
NoPayload == [kind |-> "none"]

DeploymentInit ==
    /\ deployed \in Deployments /\ oddities = deployed.odd /\ oddities <= MaxFaults
    /\ stage = "select" /\ queue = {} /\ now = 1
    /\ payload = NoPayload /\ token = NoToken /\ submitted = 0 /\ served = {}
    /\ target = NoFetch /\ url = NoFetch.original /\ visited = {} /\ bytes = 0
    /\ bundles = <<>> /\ requests = <<>>

\* An answer that is not as usual counts towards the bound.
Tolerated(answer) ==
    oddities + answer.odd <= MaxFaults /\ oddities' = oddities + answer.odd

\* run_deployment_verifier: an error of the verifier is the model's error.
Fail == stage' = "failed"

-----------------------------------------------------------------------------
(* Which images. *)

Signed(image) ==
    [place |-> image.place, key |-> image.key, digest |-> image.digest, policy |-> image.policy,
     signer |-> IF image.key \in DOMAIN deployed.signers THEN deployed.signers[image.key]
                ELSE None]
SignedAll(images) == {Signed(image) : image \in images}

\* verify_deployment_image_provenance_with_options: the measured Compose file.
SelectMeasured ==
    /\ stage = "select" /\ deployed.mode = "measured"
    /\ IF /\ KnownSigners(deployed.signers, deployed.policies)
          /\ Selectable(deployed.compose, {}, deployed.policies)
       THEN /\ queue' = SignedAll(SelectComposeImages(deployed.compose, {}, deployed.policies))
            /\ stage' = "image"
       ELSE Fail /\ UNCHANGED queue
    /\ UNCHANGED <<deployed, gpuVars, now, oddities, served, fetchVars>>

\* verify_compose_manager_deployment_image_provenance: the log names a file.
BadDeploying ==
    deployed.actions[SelectInSeq(deployed.actions,
        LAMBDA a : a.action = "compose_up" /\ deployed.file \in {"any", a.file})]
Deploying == deployed.actions[ComposeUp(deployed.actions, deployed.file)]
RequestFile ==
    [url |-> [NoFetch.original EXCEPT !.origin = deployed.api, !.digest = Deploying.sha],
     token |-> deployed.token /\ deployed.api = "default"]
SelectManaged ==
    /\ stage = "select" /\ deployed.mode = "managed"
    /\ IF /\ ManagerSelectable(deployed.actions, deployed.file, deployed.policies,
                               deployed.manager, deployed.signers)
          /\ GithubApiBase(deployed.api)
       THEN stage' = "file" /\ requests' = <<RequestFile>>
       ELSE Fail /\ UNCHANGED requests
    /\ UNCHANGED <<flowVars, gpuVars, now, oddities, served, target, url, visited, bytes, bundles>>

\* The file that is served has the hash of the action.
Hashed(answer) == answer.sha = Deploying.sha
ManagerToVerify ==
    [place |-> <<Len(deployed.policies) + 1, 1>>, key |-> deployed.manager.key,
     policy |-> deployed.manager.policy, signer |-> deployed.manager.signer,
     digest |-> deployed.actions[Started(deployed.actions)].image.digest]
ReceiveFile(answer) ==
    LET compose == Files[answer.sha]
    IN /\ stage = "file" /\ Tolerated(answer)
       /\ IF /\ answer.sent /\ answer.success /\ answer.declared <= MaxFile
             /\ answer.size <= MaxFile /\ answer.complete
             /\ Hashed(answer) /\ Selectable(compose, Deploying.services, deployed.policies)
          THEN /\ queue' = SignedAll(SelectComposeImages(compose, Deploying.services, deployed.policies))
                              \cup {ManagerToVerify}
               /\ stage' = "image"
          ELSE Fail /\ UNCHANGED queue
       /\ UNCHANGED <<deployed, gpuVars, now, served, fetchVars>>

-----------------------------------------------------------------------------
(* verify_selected_images: one after the other. *)

\* In the order of the policies, and of the file for each.
Before(a, b) ==
    \/ a.place[1] < b.place[1]
    \/ a.place[1] = b.place[1] /\ a.place[2] < b.place[2]
Current == CHOOSE image \in queue : \A other \in queue \ {image} : Before(image, other)

NextImage ==
    /\ stage = "image"
    /\ IF queue = {} THEN stage' = "approved" /\ UNCHANGED fetchVars
       ELSE IF Fetchable(Current.policy.repository, Current.digest, deployed.api)
       THEN /\ stage' = "page"
            /\ StartFetch(Current.policy.repository, Current.digest, deployed.api, deployed.token)
       ELSE Fail /\ UNCHANGED fetchVars
    /\ UNCHANGED <<flowVars, gpuVars, now, oddities, served>>

RequestPage ==
    /\ stage = "page"
    /\ IF Askable THEN stage' = "answer" /\ AskPage ELSE Fail /\ UNCHANGED fetchVars
    /\ UNCHANGED <<flowVars, gpuVars, now, oddities, served>>

ReceivePage(page) ==
    LET next == NextPage(page.links)
    IN /\ stage = "answer" /\ Tolerated(page)
       /\ IF ~page.sent \/ ~page.success \/ ~next.ok \/ ~Readable(page)
          THEN Fail /\ UNCHANGED <<served, fetchVars>>
          ELSE /\ Keep(page, next)
               /\ served' = served \cup {[digest |-> Current.digest, bundle |-> page.bundles[k]] :
                                            k \in DOMAIN page.bundles}
               /\ stage' = IF next.last THEN "check" ELSE "page"
       /\ UNCHANGED <<flowVars, gpuVars, now>>

VerifyImage ==
    /\ stage = "check"
    /\ IF VerifyImageProvenance(Current.digest, Current.policy, Current.signer)
       THEN stage' = "image" /\ queue' = queue \ {Current}
       ELSE Fail /\ UNCHANGED queue
    /\ UNCHANGED <<deployed, gpuVars, now, oddities, served, fetchVars>>

-----------------------------------------------------------------------------
(* verify_gpu_evidence. *)

CheckPayload(evidence) ==
    /\ stage = "approved" /\ Tolerated(evidence)
    /\ payload' = evidence
    /\ IF GpuMissing(evidence) THEN stage' = IF deployed.gpuRequired THEN "failed" ELSE "verified"
       ELSE stage' = IF GpuSubmittable(evidence) THEN "nras" ELSE "failed"
    /\ submitted' = now
    /\ UNCHANGED <<flowVars, token, now, served, fetchVars>>

ReceiveToken(answer) ==
    /\ stage = "nras" /\ Tolerated(answer)
    /\ IF DecodeNras(answer) THEN stage' = "jwks" /\ token' = answer.token
       ELSE Fail /\ UNCHANGED token
    /\ UNCHANGED <<flowVars, payload, submitted, now, served, fetchVars>>

ReceiveKeys(answer) ==
    /\ stage = "jwks" /\ Tolerated(answer)
    /\ stage' = IF /\ answer.sent /\ answer.success /\ answer.json
                   /\ VerifyNrasJwt(token, answer.keys, payload.nonce, now)
                THEN "verified" ELSE "failed"
    /\ UNCHANGED <<flowVars, gpuVars, now, served, fetchVars>>

\* Time passes while the services are asked.
Tick ==
    /\ stage \in {"nras", "jwks"} /\ now < MaxTime
    /\ now' = now + 1
    /\ UNCHANGED <<flowVars, stage, gpuVars, oddities, served, fetchVars>>

DeploymentNext ==
    \/ SelectMeasured \/ SelectManaged \/ NextImage \/ RequestPage \/ VerifyImage \/ Tick
    \/ \E answer \in FileAnswers : ReceiveFile(answer)
    \/ \E page \in Pages : ReceivePage(page)
    \/ \E evidence \in Payloads : CheckPayload(evidence)
    \/ \E answer \in NrasAnswers : ReceiveToken(answer)
    \/ \E answer \in JwksAnswers : ReceiveKeys(answer)

DeploymentSpec == DeploymentInit /\ [][DeploymentNext]_deploymentVars

-----------------------------------------------------------------------------
(* Properties. *)

\* The log entry that counts: no later one of its kind.
Intended(action) ==
    CHOOSE k \in DOMAIN deployed.actions :
        /\ deployed.actions[k].action = action
        /\ action = "compose_up" => deployed.file \in {"any", deployed.actions[k].file}
        /\ \A j \in DOMAIN deployed.actions :
              j > k => \/ deployed.actions[j].action # action
                       \/ action = "compose_up" /\ deployed.file \notin {"any", deployed.actions[j].file}

\* The services the deployment was measured, or logged, to run.
ServicesRun ==
    LET up == deployed.actions[Intended("compose_up")]
        compose == IF deployed.mode = "measured" THEN deployed.compose ELSE Files[up.sha]
        asked == IF deployed.mode = "measured" THEN {} ELSE up.services
    IN {compose.services[k] : k \in {j \in DOMAIN compose.services :
                                        asked = {} \/ compose.services[j].name \in asked}}

\* A certificate that Sigstore vouches for says that the policy's workflow,
\* or the named signer, made this image from the policy's source.
Claimed(claim) == IF claim.modern = "absent" THEN claim.legacy ELSE claim.modern
BuiltAs(digest, policy, signer) ==
    \E s \in served :
        LET b == s.bundle
        IN /\ s.digest = digest /\ b.signed /\ digest \in b.subjects /\ b.issuer = policy.issuer
           /\ Claimed(b.repository) = policy.repository
           /\ policy.ref # None => Claimed(b.ref) = policy.ref
           /\ policy.commit # None => Claimed(b.commit) = policy.commit
           /\ IF signer = None
              THEN b.identity.repository = policy.repository /\ b.identity.workflow = policy.workflow
              ELSE b.identity.name = signer

SignerOf(key) == IF key \in DOMAIN deployed.signers THEN deployed.signers[key] ELSE None

\* A deployment is approved only when each required repository has an image
\* among the services the measured file, or the latest logged action, runs,
\* and every such image is pinned to a digest that the policy's source was
\* attested to have built; under Compose Manager also the manager's own
\* latest image.
ApprovedIsBuilt ==
    stage \in {"approved", "nras", "jwks", "verified"} =>
        /\ \A k \in DOMAIN deployed.policies :
              LET p == deployed.policies[k]
                  images == {s.image : s \in {r \in ServicesRun : r.image.kind = "literal"}}
                  required == {i \in images : Normalized(i.repository) = Normalized(p.key)}
              IN /\ required # {}
                 /\ \A i \in required :
                       /\ i.tag \in {"none", "tag"} /\ i.digest \in Digests
                       /\ BuiltAs(i.digest, p.policy, SignerOf(p.key))
        /\ deployed.mode = "managed" =>
              BuiltAs(deployed.actions[Intended("compose_manager_started")].image.digest,
                      deployed.manager.policy, deployed.manager.signer)

\* Whatever the pages say, the client asks only the address the caller chose,
\* only for the image it verifies, no page twice and no more pages or bytes
\* than the limits, and gives the token to none but GitHub.
FetchIsConfined ==
    /\ bytes <= MaxTotal /\ Len(requests) <= MaxPages
    /\ \A k \in DOMAIN requests :
          LET r == requests[k]
          IN /\ r.url.origin = deployed.api
             /\ stage \in {"page", "answer", "check"} =>
                   r.url.digest = Current.digest /\ r.url.repository = Current.policy.repository
             /\ r.token => deployed.api = "default"
             /\ \A j \in DOMAIN requests : j # k => requests[j].url # r.url

\* A payload is verified only by a token for the client's own nonce that
\* NVIDIA signed, that says so, and that is valid when the keys arrive, not
\* only when the payload was submitted.
GpuVerdictIsFresh ==
    stage = "verified" /\ payload.kind # "absent" =>
        /\ payload.nonce = ClientNonce /\ token.nonce = ClientNonce
        /\ token.key = "nvidia" /\ token.issuer = "nvidia" /\ token.result
        /\ token.nbf <= now /\ token.iat <= now /\ now < token.exp
=============================================================================
