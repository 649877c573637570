---------------------------- MODULE MC_Preflight ----------------------------
(***************************************************************************)
(* The four preflights, for TLC, and beside them what the Rust one takes   *)
(* as one verification each: the image provenance of a deployment and its  *)
(* GPU evidence (RustDeployment).  A behaviour is one of a single part     *)
(* while the other stays where it begins.                                  *)
(***************************************************************************)
EXTENDS Preflights, DeploymentCases

VARIABLE part   \* which of the two moves

Plain == Usual(Measured)
MCInit ==
    \/ part = "preflight" /\ PreflightInit /\ deployed = Plain /\ DeploymentInit
    \/ /\ part = "deployment" /\ DeploymentInit
       /\ language = "rust" /\ case = (CHOOSE c \in Cases : TRUE) /\ PreflightInit

MCNext ==
    /\ UNCHANGED part
    /\ \/ part = "preflight" /\ PreflightNext /\ UNCHANGED deploymentVars
       \/ part = "deployment" /\ DeploymentNext /\ UNCHANGED preflightVars
       \/ stage \in {"failed", "verified"} /\ UNCHANGED <<preflightVars, deploymentVars>>

MCSpec == MCInit /\ [][MCNext]_<<part, preflightVars, deploymentVars>>

-----------------------------------------------------------------------------
Gateway ==
    [direct |-> FALSE, tls |-> FALSE, ohttp |-> FALSE, e2ee |-> FALSE,
     algo |-> "ed25519", tcb |-> {}, gpuRequired |-> FALSE,
     gatewayVerifier |-> FALSE, verifier |-> FALSE, policy |-> FALSE]
Direct == [Gateway EXCEPT !.direct = TRUE]

\* The options whose cases have two reports: everything on, behind a Gateway
\* and at a direct endpoint.
Full ==
    {[Gateway EXCEPT !.tls = TRUE, !.ohttp = TRUE, !.verifier = TRUE, !.gatewayVerifier = TRUE],
     [Direct EXCEPT !.ohttp = TRUE, !.policy = TRUE, !.gpuRequired = TRUE, !.tcb = {"UpToDate"}]}
MCOptions ==
    Full \cup
    {Gateway,
     [Gateway EXCEPT !.tls = TRUE, !.policy = TRUE, !.gpuRequired = TRUE, !.algo = "ecdsa"],
     [Gateway EXCEPT !.verifier = TRUE, !.policy = TRUE, !.tcb = {"UpToDate", "SWHardeningNeeded"}],
     [Gateway EXCEPT !.e2ee = TRUE, !.gatewayVerifier = TRUE, !.tcb = {"UpToDate"}],
     [Direct EXCEPT !.verifier = TRUE]}

Honest(o) ==
    [o |-> o, gateway |-> "honest", models |-> <<"honest">>, ohttp |-> "good",
     vllm |-> TRUE, moved |-> FALSE, listed |-> TRUE]

\* No report, one, and pairs that are interesting under any options.
FewReports ==
    {<<label>> : label \in ModelLabels}
        \cup {<<>>, <<"noKey", "noKey">>, <<"noKey", "sibling">>, <<"siblingNoKey", "honest">>,
              <<"manager", "managerLog">>, <<"forged", "staleGpu">>}
TwoReports ==
    {<<label, "honest">> : label \in ModelLabels} \cup {<<"honest", label>> : label \in ModelLabels}

\* A case deviates from the honest one in one place.
MCCases ==
    UNION {{[Honest(o) EXCEPT !.models = m] : m \in FewReports \cup (IF o \in Full THEN TwoReports ELSE {})}
             \cup {[Honest(o) EXCEPT !.ohttp = label] : label \in IF o.ohttp THEN OhttpLabels ELSE {}}
             \cup {[Honest(o) EXCEPT !.listed = ~o.direct]}
             \cup (IF o.direct THEN {}
                   ELSE {[Honest(o) EXCEPT !.gateway = label] : label \in GatewayLabels}
                          \cup {[Honest(o) EXCEPT !.vllm = FALSE], [Honest(o) EXCEPT !.moved = TRUE]})
           : o \in MCOptions}
=============================================================================
