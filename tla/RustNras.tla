------------------------------ MODULE RustNras ------------------------------
(***************************************************************************)
(* GPU evidence in the Rust client: when it is needed (verify_gpu_evidence *)
(* in rs/src/model.rs), and what NVIDIA's remote attestation service must  *)
(* answer (rs/src/nvidia.rs).  A token and a key set are records of facts. *)
(***************************************************************************)
EXTENDS Integers, FiniteSets

CONSTANT ClientNonce    \* of this verification

\* Without a payload nothing is verified; the policy says whether that will do.
GpuMissing(payload) == payload.kind = "absent"

\* The payload is an object that repeats the client's nonce.
GpuSubmittable(payload) == payload.kind = "object" /\ payload.nonce = ClientNonce

\* decode_nras_overall_attestation_jwt: the first entry holds the token.
DecodeNras(answer) == answer.sent /\ answer.success /\ answer.json /\ answer.schema

\* What the library's decoding of a token checks: signature, issuer and time.
Decoded(token, key, now) ==
    /\ token.claims /\ token.key = key.key /\ token.issuer = "nvidia"
    /\ token.exp >= now /\ token.nbf <= now

\* verify_nras_jwt.
BadVerifyNrasJwt(token, keys, nonce, now) ==
    /\ token.alg = "ES384"
    /\ \E key \in keys : key.kid = token.kid /\ key.usable /\ Decoded(token, key, now)
    /\ token.iat <= now
    /\ token.nonce = nonce /\ token.result
VerifyNrasJwt(token, keys, nonce, now) ==
    /\ token.alg = "ES384"
    /\ \E key \in keys : key.kid = token.kid /\ key.usable /\ Decoded(token, key, now)
    /\ now < token.exp /\ token.iat <= now
    /\ token.nonce = nonce /\ token.result
=============================================================================
