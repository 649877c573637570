--------------------------- MODULE RustSignature ---------------------------
(***************************************************************************)
(* Completion signatures in the Rust client: how an answer of the          *)
(* signature endpoint becomes a signature (rs/src/cloud_api.rs), and how   *)
(* it is checked against the bytes of a completion and the attested        *)
(* signers (rs/src/response.rs, direct.rs and verify_response).            *)
(*                                                                         *)
(* Hashes are ideal: a signed text is <<request, response>>, after the     *)
(* model for a provider, and names the bytes themselves.  A result is "ok" *)
(* or the reason of the first check that fails.                            *)
(***************************************************************************)
EXTENDS Naturals, SequencesExt

\* A signer: its algorithm and, of its address, the key and the length in
\* bytes ("short" of neither kind, "nothex" not hexadecimal at all).
Lengths == [ecdsa |-> 20, ed25519 |-> 32]
ValidSigner(signer) == signer.length = Lengths[signer.algo]
SameSigner(a, b) == a.algo = b.algo /\ a.key = b.key /\ a.length = b.length

-----------------------------------------------------------------------------
(* The answer of the signature endpoint: [transport, status, object,       *)
(* missing, null, reason, kind, text, signed, signer]; `missing` and       *)
(* `null` are the fields omitted or null, `reason` is that an error code   *)
(* and a message are both there.                                           *)

Fields == {"text", "signature", "signing_address", "signing_algo", "signature_kind"}

Retryable(result, status) ==
    \/ result \in {"transport", "unavailable"}
    \/ result = "http" /\ (status \in {404, 408, 425, 429} \/ status >= 500)

\* map_completion_signature: unavailable only if every field is omitted.
MapCompletionSignature(w) ==
    IF w.reason /\ w.missing = Fields THEN "unavailable"
    ELSE IF w.missing \cup w.null # {} \/ ~ValidSigner(w.signer) THEN "invalid_response"
    ELSE "ok"

\* get_cloud_api_response and fetch_completion_signature.
FetchSignature(w) ==
    CASE w.transport -> "transport"
      [] w.status \notin 200..299 -> "http"
      [] ~w.object -> "invalid_json"
      [] OTHER -> MapCompletionSignature(w)

\* direct_signature: an endpoint that serves one model may leave the kind
\* out, and may not answer with another.
DirectSignature(w) ==
    LET supplied == {"signature", "signature_kind"} \cap w.missing = {"signature_kind"}
        given == [transport |-> w.transport, status |-> w.status, object |-> w.object,
                  missing |-> IF supplied THEN w.missing \ {"signature_kind"} ELSE w.missing,
                  null |-> w.null, reason |-> w.reason,
                  kind |-> IF supplied THEN "provider_tee" ELSE w.kind,
                  text |-> w.text, signed |-> w.signed, signer |-> w.signer]
        fetched == FetchSignature(given)
    IN [answer |-> given,
        result |-> IF fetched = "ok" /\ given.kind # "provider_tee"
                   THEN "unsupported_kind" ELSE fetched]

-----------------------------------------------------------------------------
(* The bytes of a signature: [by, over, v, odd, length], made by the key   *)
(* `by` over the text `over`; v is the recovery byte of an ECDSA signature *)
(* and `odd` what it should say.                                           *)

\* normalize_recovery_id: Electrum, EIP-155 and plain IDs.
RecoveryId(v) == IF v \in {27, 28} THEN v - 27 ELSE IF v >= 35 THEN (v - 35) % 2 ELSE v

\* Another ID recovers another key, whose address is not the signer's.
VerifyEcdsa(signature, text, signer) ==
    CASE signature.length # 65 \/ signer.length # 20 -> "format"
      [] RecoveryId(signature.v) > 3 -> "format"
      [] signature.over = text /\ signature.by = signer.key
         /\ RecoveryId(signature.v) = signature.odd -> "ok"
      [] OTHER -> "invalid"

VerifyEd25519(signature, text, signer) ==
    CASE signature.length # 64 \/ signer.length # 32 -> "format"
      [] signature.over = text /\ signature.by = signer.key -> "ok"
      [] OTHER -> "invalid"

VerifySignatureBytes(s) ==
    IF s.signer.algo = "ecdsa" THEN VerifyEcdsa(s.signed, s.text, s.signer)
    ELSE VerifyEd25519(s.signed, s.text, s.signer)

\* verify_model_response and verify_gateway_response.  `request` is
\* [model, bytes]: the model is "none" when the body names none.
BadVerifyCompletion(kind, request, response, s, signer) ==
    IF s.kind # kind THEN "kind"
    ELSE IF VerifySignatureBytes(s) # "ok" THEN VerifySignatureBytes(s)
    ELSE IF ~SameSigner(s.signer, signer) THEN "signer"
    ELSE "ok"
VerifyCompletion(kind, request, response, s, signer) ==
    LET expected == IF kind = "gateway" THEN <<request, response>>
                    ELSE <<request.model, request, response>>
    IN IF s.kind # kind THEN "kind"
       ELSE IF kind = "provider_tee" /\ request.model = "none" THEN "missing_model"
       ELSE IF s.text # expected THEN "text"
       ELSE IF VerifySignatureBytes(s) # "ok" THEN VerifySignatureBytes(s)
       ELSE IF ~SameSigner(s.signer, signer) THEN "signer"
       ELSE "ok"

-----------------------------------------------------------------------------
(* verify_response, once the receipt is found: the session's signers are   *)
(* [direct, gateway, selected, attested], {} where there is none.          *)

VerifyReceipt(receipt, session, algo, w) ==
    LET direct == DirectSignature(w)
        s == IF session.direct THEN direct.answer ELSE w
        fetched == IF session.direct THEN direct.result ELSE FetchSignature(w)
        signers == IF s.kind = "gateway" THEN session.gateway ELSE session.selected
    IN IF fetched # "ok" THEN fetched
       ELSE IF s.signer.algo # algo THEN "signer"
       ELSE IF receipt.gatewayOnly /\ s.kind # "gateway" THEN "kind"
       ELSE IF signers = {} THEN "kind"
       ELSE VerifyCompletion(s.kind, receipt.request, receipt.response, s,
                             CHOOSE signer \in signers : TRUE)

\* find_model_attestation_for_signature: exactly one of the attested signers
\* must be the one that signed.
FindModelAttestation(attested, s) ==
    LET matching == {k \in DOMAIN attested : SameSigner(attested[k], s.signer)}
    IN CASE s.kind # "provider_tee" -> "unsupported_kind"
         [] ~ValidSigner(s.signer) \/ \E k \in DOMAIN attested : ~ValidSigner(attested[k]) -> "signer"
         [] matching = {} -> "not_found"
         [] \E a, b \in matching : a # b -> "ambiguous"
         [] OTHER -> "ok"

\* verify_direct_model_response: any number of replicas may share a signer.
VerifyDirectModelResponse(request, response, s, attested) ==
    LET matching == {k \in DOMAIN attested : SameSigner(attested[k], s.signer)}
    IN IF s.kind # "provider_tee" THEN "kind"
       ELSE IF matching = {} THEN "signer"
       ELSE VerifyCompletion("provider_tee", request, response, s,
                             attested[CHOOSE k \in matching : \A j \in matching : k <= j])
=============================================================================
