------------------------- MODULE Verification_proofs -------------------------
(***************************************************************************)
(* Proofs about what the Rust client verifies: its calls (RustSend) and    *)
(* its checks of a deployment (RustDeployment).  They hold for any calls,  *)
(* chunks, answers and keys, and for any deployments, policies and bounds. *)
(***************************************************************************)
EXTENDS RustSend, RustDeployment, FiniteSetTheorems, SequenceTheorems,
        WellFoundedInduction, TLAPS

-----------------------------------------------------------------------------
(***************************************************************************)
(* Calls (RustSend).                                                       *)
(*                                                                         *)
(* The invariant follows a call from its admission to its verification:    *)
(* the request on the wire is the one the admitted call asks for, a        *)
(* receipt holds that request and every byte that has arrived, and a       *)
(* result was reached from that receipt and from a signature over both.    *)
(***************************************************************************)
(* Headers. *)

\* The credentials among some headers are the client's, all of them.
ClientsOwn(headers, c) ==
    \A n \in Credentials(c) :
        /\ n \in DOMAIN headers <=> n \in DOMAIN c.options
        /\ n \in DOMAIN headers => headers[n] = "client"

\* The first headers of a call are the client's ...
LEMMA OwnedIsClients ==
    ASSUME NEW c \in Calls
    PROVE  ClientsOwn(Owned(c), c)
BY RustSendAssumption DEF ClientsOwn, Owned

\* ... removing others ...
LEMMA WithoutKeeps ==
    ASSUME NEW c, NEW headers, NEW names,
           ClientsOwn(headers, c), names \cap Credentials(c) = {}
    PROVE  ClientsOwn(Without(headers, names), c)
BY DEF ClientsOwn, Without

\* ... or setting others keeps them so.
LEMMA WithKeeps ==
    ASSUME NEW c, NEW headers, NEW names, NEW by,
           ClientsOwn(headers, c), names \cap Credentials(c) = {}
    PROVE  ClientsOwn(With(headers, names, by), c)
BY DEF ClientsOwn, With

LEMMA RoutedKeeps ==
    ASSUME NEW c \in Calls
    PROVE  ClientsOwn(Routed(c, Owned(c)), c)
<1>1. ClientsOwn(With(Owned(c), {"anthropic-version"}, "library"), c)
  BY OwnedIsClients, WithKeeps DEF Credentials
<1> QED  BY <1>1, OwnedIsClients DEF Routed

\* Of what `send` puts on the wire.
LEMMA PreparedHeaders ==
    ASSUME NEW c \in Calls, ~c.helper
    PROVE  /\ ClientsOwn(Prepared(c), c)
           /\ "x-model-pub-key" \in DOMAIN Prepared(c) => Prepared(c)["x-model-pub-key"] = "attested"
           /\ c.e2ee => E2eeHeaders \subseteq DOMAIN Prepared(c)
           /\ "host" \notin DOMAIN Prepared(c)
<1> DEFINE routed == Routed(c, Owned(c))
           library == With(routed, {"accept-encoding"}, "library")
           framed == Without(library, {"host", "transfer-encoding", "trailer"})
           bare == RemoveE2eeHeaders(framed)
           plain == With(bare, {"x-no-aliasing"}, "library")
<1>1. Prepared(c) = IF c.e2ee THEN PrepareHeaders(framed)
                    ELSE IF c.modelKey # {} /\ c.route # "messages"
                    THEN With(plain, {"x-model-pub-key"}, "attested") ELSE plain
  BY DEF Prepared
<1>2. ClientsOwn(framed, c)
  <2>1. ClientsOwn(library, c)
    BY RoutedKeeps, WithKeeps DEF Credentials
  <2> QED  BY <2>1, WithoutKeeps DEF Credentials
<1>3. "host" \notin DOMAIN framed
  BY DEF Without
<1> HIDE DEF framed
<1>4. ASSUME c.e2ee  PROVE /\ ClientsOwn(PrepareHeaders(framed), c)
                          /\ PrepareHeaders(framed)["x-model-pub-key"] = "attested"
                          /\ E2eeHeaders \subseteq DOMAIN PrepareHeaders(framed)
                          /\ "host" \notin DOMAIN PrepareHeaders(framed)
  <2> DEFINE inner == Without(framed, BodyHeaders)
             stripped == RemoveE2eeHeaders(inner)
  <2>1. ClientsOwn(inner, c)
    BY <1>2, WithoutKeeps DEF Credentials, BodyHeaders
  <2>2. ClientsOwn(stripped, c)
    BY <2>1, WithoutKeeps DEF Credentials, E2eeHeaders, RemoveE2eeHeaders
  <2>3. ClientsOwn(PrepareHeaders(framed), c)
    BY <2>2, WithKeeps DEF Credentials, E2eeHeaders, PrepareHeaders
  <2>4. "host" \notin DOMAIN stripped
    BY <1>3 DEF Without, RemoveE2eeHeaders
  <2> HIDE DEF stripped
  <2>5. /\ DOMAIN With(stripped, E2eeHeaders \cup {"content-type", "x-no-aliasing"}, "attested")
              = DOMAIN stripped \cup E2eeHeaders \cup {"content-type", "x-no-aliasing"}
        /\ \A n \in E2eeHeaders :
              With(stripped, E2eeHeaders \cup {"content-type", "x-no-aliasing"}, "attested")[n] = "attested"
    BY DEF With
  <2>6. PrepareHeaders(framed) = With(stripped, E2eeHeaders \cup {"content-type", "x-no-aliasing"}, "attested")
    BY DEF PrepareHeaders, stripped
  <2> QED  BY <2>3, <2>4, <2>5, <2>6 DEF E2eeHeaders
<1>5. /\ ClientsOwn(plain, c)
      /\ "host" \notin DOMAIN plain /\ "x-model-pub-key" \notin DOMAIN plain
  <2>1. ClientsOwn(bare, c)
    BY <1>2, WithoutKeeps DEF Credentials, E2eeHeaders, RemoveE2eeHeaders
  <2>2. "host" \notin DOMAIN bare /\ "x-model-pub-key" \notin DOMAIN bare
    BY <1>3 DEF RemoveE2eeHeaders, Without, E2eeHeaders
  <2>3. ClientsOwn(plain, c)
    BY <2>1, WithKeeps DEF Credentials
  <2> HIDE DEF bare
  <2>4. DOMAIN plain = DOMAIN bare \cup {"x-no-aliasing"}
    BY DEF With
  <2> QED  BY <2>2, <2>3, <2>4
<1> HIDE DEF plain
<1>6. /\ ClientsOwn(With(plain, {"x-model-pub-key"}, "attested"), c)
      /\ With(plain, {"x-model-pub-key"}, "attested")["x-model-pub-key"] = "attested"
      /\ "host" \notin DOMAIN With(plain, {"x-model-pub-key"}, "attested")
  <2>1. ClientsOwn(With(plain, {"x-model-pub-key"}, "attested"), c)
    BY <1>5, WithKeeps DEF Credentials
  <2>2. DOMAIN With(plain, {"x-model-pub-key"}, "attested") = DOMAIN plain \cup {"x-model-pub-key"}
    BY DEF With
  <2>3. With(plain, {"x-model-pub-key"}, "attested")["x-model-pub-key"] = "attested"
    BY DEF With
  <2> QED  BY <1>5, <2>1, <2>2, <2>3
<1>7. CASE c.e2ee
  BY <1>1, <1>4, <1>7
<1>8. CASE ~c.e2ee /\ c.modelKey # {} /\ c.route # "messages"
  BY <1>1, <1>6, <1>8
<1>9. CASE ~c.e2ee /\ ~(c.modelKey # {} /\ c.route # "messages")
  BY <1>1, <1>5, <1>9
<1> QED  BY <1>7, <1>8, <1>9

\* Of what systemone_create puts on the wire.
LEMMA DecisionsHeaders ==
    ASSUME NEW c \in Calls
    PROVE  /\ ClientsOwn(DecisionHeaders(c), c)
           /\ "x-model-pub-key" \in DOMAIN DecisionHeaders(c) => DecisionHeaders(c)["x-model-pub-key"] = "attested"
           /\ "host" \notin DOMAIN DecisionHeaders(c)
<1> DEFINE dropped == {"host", "content-length", "content-encoding", "transfer-encoding", "trailer",
                       "content-md5", "digest", "content-digest", "repr-digest"}
           fixed == {"x-no-aliasing", "content-type", "accept", "accept-encoding"}
           bare == RemoveE2eeHeaders(Owned(c))
           less == Without(bare, dropped)
           plain == With(less, fixed, "library")
<1>1. DecisionHeaders(c) = IF c.modelKey # {} THEN With(plain, {"x-model-pub-key"}, "attested") ELSE plain
  BY DEF DecisionHeaders
<1>2. ClientsOwn(bare, c)
  BY OwnedIsClients, WithoutKeeps DEF Credentials, E2eeHeaders, RemoveE2eeHeaders
<1>3. "x-model-pub-key" \notin DOMAIN bare
  BY DEF RemoveE2eeHeaders, Without, E2eeHeaders
<1> HIDE DEF bare
<1>4. /\ ClientsOwn(less, c)
      /\ "x-model-pub-key" \notin DOMAIN less /\ "host" \notin DOMAIN less
  <2>1. ClientsOwn(less, c)
    BY <1>2, WithoutKeeps DEF Credentials
  <2>2. DOMAIN less = DOMAIN bare \ dropped
    BY DEF Without
  <2> QED  BY <1>3, <2>1, <2>2
<1> HIDE DEF less
<1>5. /\ ClientsOwn(plain, c)
      /\ "x-model-pub-key" \notin DOMAIN plain /\ "host" \notin DOMAIN plain
  <2>1. ClientsOwn(plain, c)
    BY <1>4, WithKeeps DEF Credentials
  <2>2. DOMAIN plain = DOMAIN less \cup fixed
    BY DEF With
  <2> QED  BY <1>4, <2>1, <2>2
<1> HIDE DEF plain
<1>6. /\ ClientsOwn(With(plain, {"x-model-pub-key"}, "attested"), c)
      /\ With(plain, {"x-model-pub-key"}, "attested")["x-model-pub-key"] = "attested"
      /\ DOMAIN With(plain, {"x-model-pub-key"}, "attested") = DOMAIN plain \cup {"x-model-pub-key"}
  <2>1. ClientsOwn(With(plain, {"x-model-pub-key"}, "attested"), c)
    BY <1>5, WithKeeps DEF Credentials
  <2> QED  BY <2>1 DEF With
<1> QED  BY <1>1, <1>5, <1>6

-----------------------------------------------------------------------------
(* Seals. *)

\* Where the fields of a label are.
Parent(label) ==
    IF label = "messages[]" THEN Message
    ELSE IF label = "messages[].audio" THEN Message \o <<"audio">>
    ELSE IF label = "messages[].tool_calls[].function" THEN ToolCall
    ELSE IF label = "messages[].function_call" THEN Message \o <<"function_call">>
    ELSE IF label = "tools[].function" THEN Tool
    ELSE IF label = "tool_choice.function" THEN <<"tool_choice", "function">>
    ELSE <<"function_call">>

\* A label determines the fields it may belong to.
LEMMA FieldOfLabel ==
    ASSUME NEW f \in RequestFields
    PROVE  f[1] = Append(Parent(f[2][1]), f[2][2])
<1>1. ASSUME NEW path, NEW names, NEW label, path = Parent(label), f \in Labelled(path, names, label)
      PROVE  f[1] = Append(Parent(f[2][1]), f[2][2])
  BY <1>1 DEF Labelled
<1>2. /\ Parent("messages[]") = Message
      /\ Parent("messages[].audio") = Message \o <<"audio">>
      /\ Parent("messages[].tool_calls[].function") = ToolCall
      /\ Parent("messages[].function_call") = Message \o <<"function_call">>
      /\ Parent("tools[].function") = Tool
      /\ Parent("tool_choice.function") = <<"tool_choice", "function">>
      /\ Parent("function_call") = <<"function_call">>
  BY DEF Parent
<1> QED  BY <1>1, <1>2 DEF RequestFields

\* Two protected fields never have the same label.
LEMMA LabelsDiffer ==
    ASSUME NEW p \in Protected, NEW q \in Protected, LabelOf(p) = LabelOf(q)
    PROVE  p = q
<1>1. ASSUME NEW r \in Protected
      PROVE  r = Append(Parent(LabelOf(r)[1]), LabelOf(r)[2])
  <2>1. \E f \in RequestFields : f[1] = r
    BY DEF Protected
  <2> DEFINE chosen == CHOOSE f \in RequestFields : f[1] = r
  <2>2. chosen \in RequestFields /\ chosen[1] = r
    BY <2>1
  <2>3. LabelOf(r) = chosen[2]
    BY DEF LabelOf
  <2> HIDE DEF chosen
  <2> QED  BY <2>2, <2>3, FieldOfLabel
<1> QED  BY <1>1

\* What a document shows, and what its ciphertexts are bound to.
SealedFor(doc, reply, public) ==
    LET sealed == {p \in DOMAIN doc : doc[p].kind = "sealed"}
    IN /\ \A p \in Places(doc, Protected) :
             \/ doc[p].kind \in {"sealed", "null"}
             \/ Shape(p) = Content /\ doc[p].kind \notin {"text", "empty", "array"}
       /\ \A p, q \in sealed : doc[p].aad = doc[q].aad <=> Shape(p) = Shape(q)
       /\ \A p \in sealed : doc[p].aad[2] = reply /\ doc[p].to = public

\* What has been sealed of a document that held no ciphertext.
LEMMA SealedRequest ==
    ASSUME NEW doc, NEW model, NEW reply,
           \A p \in DOMAIN doc : doc[p].kind # "sealed",
           EncryptRequest(doc, model, reply).ok
    PROVE  SealedFor(EncryptRequest(doc, model, reply).doc, reply, model.public)
<1> DEFINE reached == Places(doc, Protected)
           closed == {p \in reached : Sealable(doc[p], Shape(p))}
           kept == {p \in DOMAIN doc : \A s \in closed : ~Below(p, s)}
           cipher(p) == Sealed(model.public, RequestAad(model.algo, reply, LabelOf(Shape(p))), doc[p])
           out == EncryptRequest(doc, model, reply).doc
           sealed == {p \in DOMAIN out : out[p].kind = "sealed"}
<1>1. out = [p \in kept |-> IF p \in closed THEN cipher(p) ELSE doc[p]]
  BY DEF EncryptRequest
<1>2. \A p \in reached : ~Refusable(doc[p], Shape(p))
  BY DEF EncryptRequest
<1>3. \A p : /\ cipher(p).kind = "sealed" /\ cipher(p).to = model.public
             /\ cipher(p).aad = <<model.algo, reply, LabelOf(Shape(p))>>
  BY DEF Sealed, RequestAad
<1>4. \A p \in reached : p \in DOMAIN doc /\ Shape(p) \in Protected /\ Reached(doc, p)
  BY DEF Places
<1>5. \A p \in DOMAIN doc : Shape(p) \in Protected /\ Reached(doc, p) => p \in reached
  BY DEF Places
<1> HIDE DEF out, cipher, closed, reached, kept
<1>6. /\ DOMAIN out = kept
      /\ \A p \in kept : out[p] = IF p \in closed THEN cipher(p) ELSE doc[p]
  BY <1>1
<1>7. closed \subseteq reached /\ kept \subseteq DOMAIN doc
  BY DEF closed, kept
<1>8. sealed \subseteq closed
  BY <1>3, <1>6, <1>7
<1>9. \A p \in sealed : out[p] = cipher(p) /\ Shape(p) \in Protected
  BY <1>4, <1>6, <1>7, <1>8
<1>10. ASSUME NEW p \in Places(out, Protected), out[p].kind \notin {"sealed", "null"}
       PROVE  Shape(p) = Content /\ out[p].kind \notin {"text", "empty", "array"}
  <2>1. p \in DOMAIN out /\ Shape(p) \in Protected /\ Reached(out, p)
    BY DEF Places
  <2>2. p \in kept /\ p \notin closed /\ out[p] = doc[p] /\ p \in DOMAIN doc
    BY <1>3, <1>6, <1>7, <1>10, <2>1
  <2>3. ASSUME NEW n \in 1..(Len(p) - 1)
        PROVE  KindAt(doc, SubSeq(p, 1, n)) = IF p[n + 1] \in Elements THEN "array" ELSE "object"
    <3> DEFINE q == SubSeq(p, 1, n)
    <3>1. KindAt(out, q) = IF p[n + 1] \in Elements THEN "array" ELSE "object"
      BY <2>1 DEF Reached
    <3> HIDE DEF q
    <3>2. q \in DOMAIN out /\ out[q].kind # "sealed"
      BY <3>1 DEF KindAt
    <3>3. out[q] = doc[q] /\ q \in DOMAIN doc
      BY <3>2, <1>3, <1>6, <1>7
    <3> QED  BY <3>1, <3>2, <3>3 DEF KindAt, q
  <2>4. Reached(doc, p)
    BY <2>3 DEF Reached
  <2>5. p \in reached /\ ~Sealable(doc[p], Shape(p))
    BY <1>5, <2>1, <2>2, <2>4 DEF closed
  <2>6. ~Refusable(doc[p], Shape(p))
    BY <1>2, <2>5
  <2> QED  BY <1>10, <2>2, <2>5, <2>6 DEF Refusable, Sealable
<1>11. ASSUME NEW p \in sealed, NEW q \in sealed
       PROVE  out[p].aad = out[q].aad <=> Shape(p) = Shape(q)
  <2>1. /\ out[p].aad = <<model.algo, reply, LabelOf(Shape(p))>>
        /\ out[q].aad = <<model.algo, reply, LabelOf(Shape(q))>>
    BY <1>3, <1>9
  <2>2. out[p].aad = out[q].aad <=> LabelOf(Shape(p)) = LabelOf(Shape(q))
    BY <2>1
  <2> QED  BY <1>9, <2>2, LabelsDiffer
<1>12. \A p \in sealed : out[p].aad[2] = reply /\ out[p].to = model.public
  BY <1>3, <1>9
<1> QED  BY <1>10, <1>11, <1>12 DEF SealedFor, out

-----------------------------------------------------------------------------
(* The inductive invariant of a call. *)

\* What is on the wire is what the admitted call asks for.
Admitted(c) == IF c.decide THEN Decidable(c) ELSE c.helper \/ Sendable(c)
Outgoing(c, s) ==
    IF c.decide THEN s.headers = DecisionHeaders(c) /\ s.body.doc = c.doc
    ELSE s.headers = Prepared(c) /\ Sealing(c).ok /\ s.body.doc = Sealing(c).doc
SentOK ==
    /\ \A s \in sent : sent = {s} /\ s.body.model = call.model /\ Admitted(call) /\ Outgoing(call, s)
    /\ pc \in {"sent", "streaming", "buffering"} => sent # {}

\* A receipt holds the request that was sent and all that has arrived, which
\* is all that will.
ReceiptOK ==
    \A r \in receipt :
        /\ pc \in {"done", "failed"} /\ ~call.helper
        /\ (\E s \in sent : r.request = s.body)
        /\ r.response = wire /\ r.gatewayOnly = GatewayOnly(call)

CallInv == call \in Calls /\ SentOK /\ ReceiptOK /\ VerifiedIsDelivered

\* What a verification of a receipt has established, by either way.
Established(c, body, w) ==
    /\ w.signed.by \in {m.key : m \in (IF w.kind = "gateway" /\ ~c.direct THEN c.session.gateway
                                       ELSE c.session.selected \cup Range(c.session.attested))}
    /\ w.signed.over = IF w.kind = "gateway" /\ ~c.direct THEN <<body, wire>> ELSE <<body.model, body, wire>>
    /\ GatewayOnly(c) /\ c.session.attested = <<>> => w.kind = "gateway"

\* The signer vouches for the bytes: verify_signature and the comparison of
\* the signed text.
LEMMA CompletionHolds ==
    ASSUME NEW kind, NEW request, NEW response, NEW s, NEW signer,
           VerifyCompletion(kind, request, response, s, signer) = "ok"
    PROVE  /\ s.kind = kind
           /\ kind = "gateway" => s.signed.over = <<request, response>>
           /\ kind # "gateway" => s.signed.over = <<request.model, request, response>>
           /\ s.signed.by = signer.key /\ s.signer.key = signer.key
<1> DEFINE expected == IF kind = "gateway" THEN <<request, response>>
                       ELSE <<request.model, request, response>>
<1>1. /\ s.kind = kind /\ s.text = expected
      /\ VerifySignatureBytes(s) = "ok" /\ SameSigner(s.signer, signer)
  BY DEF VerifyCompletion
<1>2. s.signed.over = s.text /\ s.signed.by = s.signer.key
  <2>1. CASE s.signer.algo = "ecdsa"
    BY <1>1, <2>1 DEF VerifySignatureBytes, VerifyEcdsa
  <2>2. CASE s.signer.algo # "ecdsa"
    BY <1>1, <2>2 DEF VerifySignatureBytes, VerifyEd25519
  <2> QED  BY <2>1, <2>2
<1> QED  BY <1>1, <1>2 DEF SameSigner

\* A direct endpoint's answer speaks for a model.
LEMMA DirectAnswer ==
    ASSUME NEW w, DirectSignature(w).result = "ok"
    PROVE  /\ DirectSignature(w).answer.kind = "provider_tee"
           /\ DirectSignature(w).answer.signed = w.signed
           /\ DirectSignature(w).answer.signer = w.signer
BY DEF DirectSignature

\* What verify_response has established when it succeeds.
LEMMA VerifyingHolds ==
    ASSUME CallInv, NEW w, VerifyResponse(w), result' = "ok"
    PROVE  \A s \in sent : Established(call, s.body, w)
<1> DEFINE r == CHOOSE kept \in receipt : TRUE
           s == IF call.session.direct THEN DirectSignature(w).answer ELSE w
           signers == IF s.kind = "gateway" THEN call.session.gateway ELSE call.session.selected
           signer == CHOOSE one \in signers : TRUE
<1>1. r \in receipt
  BY DEF VerifyResponse, Open
<1>2. /\ \A sending \in sent : r.request = sending.body
      /\ r.response = wire /\ r.gatewayOnly = GatewayOnly(call)
  BY <1>1 DEF CallInv, ReceiptOK, SentOK
<1>3. call.session.direct = call.direct
  BY RustSendAssumption DEF CallInv
<1>4. VerifyReceipt(r, call.session, call.algo, w) = "ok"
  BY DEF VerifyResponse
<1> HIDE DEF r
<1>5. /\ call.session.direct => DirectSignature(w).result = "ok"
      /\ r.gatewayOnly => s.kind = "gateway"
      /\ signers # {}
      /\ VerifyCompletion(s.kind, r.request, r.response, s, signer) = "ok"
  BY <1>4 DEF VerifyReceipt
<1>6. signer \in signers
  BY <1>5
<1>7. s.signed = w.signed /\ (call.session.direct => s.kind = "provider_tee")
  BY <1>5, DirectAnswer
<1>8. ~call.session.direct => s.kind = w.kind
  OBVIOUS
<1> HIDE DEF s, signers, signer
<1>9. /\ s.kind = "gateway" => s.signed.over = <<r.request, r.response>>
      /\ s.kind # "gateway" => s.signed.over = <<r.request.model, r.request, r.response>>
      /\ s.signed.by = signer.key
  BY <1>5, CompletionHolds
<1>10. signers = IF s.kind = "gateway" THEN call.session.gateway ELSE call.session.selected
  BY DEF signers
<1>11. GatewayOnly(call) => w.kind = "gateway"
  <2>1. GatewayOnly(call) => ~call.direct
    <3>1. \E sending \in sent : TRUE
      BY <1>1 DEF CallInv, ReceiptOK
    <3>2. Admitted(call) /\ ~call.helper
      BY <1>1, <3>1 DEF CallInv, SentOK, ReceiptOK
    <3> QED  BY <3>2 DEF Admitted, Decidable, Sendable
  <2> QED  BY <1>2, <1>3, <1>5, <1>8, <2>1
<1> TAKE sending \in sent
<1>12. (w.kind = "gateway" /\ ~call.direct) <=> s.kind = "gateway"
  BY <1>3, <1>7, <1>8
<1>13. r.request = sending.body /\ r.response = wire
  BY <1>2
<1>14. w.signed.over = IF w.kind = "gateway" /\ ~call.direct THEN <<sending.body, wire>>
                       ELSE <<sending.body.model, sending.body, wire>>
  BY <1>7, <1>9, <1>12, <1>13
<1>15. CASE s.kind = "gateway"
  <2>1. signer \in call.session.gateway /\ w.signed.by = signer.key
    BY <1>6, <1>7, <1>9, <1>10, <1>15
  <2> QED  BY <2>1, <1>11, <1>12, <1>14, <1>15 DEF Established
<1>16. CASE s.kind # "gateway"
  <2>1. signer \in call.session.selected /\ w.signed.by = signer.key
    BY <1>6, <1>7, <1>9, <1>10, <1>16
  <2> QED  BY <2>1, <1>11, <1>12, <1>14, <1>16 DEF Established
<1> QED  BY <1>15, <1>16

\* What the verification by hand has established when it succeeds.
LEMMA VerifyingByHandHolds ==
    ASSUME CallInv, NEW w, VerifyByHand(w), result' = "ok"
    PROVE  \A s \in sent : Established(call, s.body, w)
<1> DEFINE r == CHOOSE kept \in receipt : TRUE
           s == IF call.direct THEN DirectSignature(w).answer ELSE w
           attested == call.session.attested
           gateway == CHOOSE g \in call.session.gateway : TRUE
           matching == {k \in DOMAIN attested : SameSigner(attested[k], s.signer)}
           serving == attested[CHOOSE k \in matching : \A j \in matching : k <= j]
<1>1. r \in receipt
  BY DEF VerifyByHand, Open
<1>2. /\ \A sending \in sent : r.request = sending.body
      /\ r.response = wire
  BY <1>1 DEF CallInv, ReceiptOK, SentOK
<1>3. GatewayOnly(call) => ~call.direct
  <2>1. \E sending \in sent : TRUE
    BY <1>1 DEF CallInv, ReceiptOK
  <2>2. Admitted(call) /\ ~call.helper
    BY <1>1, <2>1 DEF CallInv, SentOK, ReceiptOK
  <2> QED  BY <2>2 DEF Admitted, Decidable, Sendable
<1>4. matching # {} => \E m \in Range(attested) : m.key = s.signer.key
  BY DEF SameSigner, Range
<1>5. CASE call.direct
  <2>1. /\ DirectSignature(w).result = "ok"
        /\ VerifyDirectModelResponse(r.request, r.response, s, attested) = "ok"
    BY <1>5 DEF VerifyByHand
  <2>2. s.signed = w.signed
    BY <1>5, <2>1, DirectAnswer
  <2> HIDE DEF s, r, matching, attested, serving
  <2>3. matching # {} /\ VerifyCompletion("provider_tee", r.request, r.response, s, serving) = "ok"
    BY <2>1 DEF VerifyDirectModelResponse, matching, serving
  <2>4. /\ s.signed.over = <<r.request.model, r.request, r.response>>
        /\ s.signed.by = s.signer.key
    BY <2>3, CompletionHolds
  <2>5. w.signed.by \in {m.key : m \in call.session.selected \cup Range(call.session.attested)}
    BY <1>4, <2>2, <2>3, <2>4 DEF attested
  <2> QED  BY <1>2, <1>3, <1>5, <2>2, <2>4, <2>5 DEF Established
<1>6. CASE ~call.direct /\ w.kind = "gateway" /\ call.session.gateway # {}
  <2>1. VerifyCompletion("gateway", r.request, r.response, w, gateway) = "ok"
    BY <1>6 DEF VerifyByHand
  <2>2. gateway \in call.session.gateway
    BY <1>6
  <2> HIDE DEF r, gateway
  <2>3. w.signed.over = <<r.request, r.response>> /\ w.signed.by = gateway.key
    BY <2>1, CompletionHolds
  <2> QED  BY <1>2, <1>6, <2>2, <2>3 DEF Established
<1>7. CASE ~call.direct /\ ~(w.kind = "gateway" /\ call.session.gateway # {})
  <2>1. /\ FindModelAttestation(attested, w) = "ok"
        /\ VerifyCompletion("provider_tee", r.request, r.response, w, w.signer) = "ok"
    BY <1>7 DEF VerifyByHand
  <2>2. s = w
    BY <1>7
  <2> HIDE DEF r, s, attested, matching
  <2>3. w.kind = "provider_tee" /\ matching # {}
    BY <2>1, <2>2 DEF FindModelAttestation, matching
  <2>4. /\ w.signed.over = <<r.request.model, r.request, r.response>>
        /\ w.signed.by = w.signer.key
    BY <2>1, CompletionHolds
  <2>5. attested # <<>>
    BY <2>3 DEF matching
  <2>6. w.signed.by \in {m.key : m \in call.session.selected \cup Range(call.session.attested)}
    BY <1>4, <2>2, <2>3, <2>4 DEF attested
  <2> QED  BY <1>2, <1>7, <2>3, <2>4, <2>5, <2>6 DEF Established, attested
<1> QED  BY <1>5, <1>6, <1>7

LEMMA CallInit == Init => CallInv
BY DEF Init, CallInv, SentOK, ReceiptOK, VerifiedIsDelivered

\* Before a call has ended nothing is verified.
LEMMA Unverified ==
    ASSUME CallInv, pc \notin {"done", "failed"}
    PROVE  receipt = {} /\ result # "ok"
BY DEF CallInv, ReceiptOK, VerifiedIsDelivered

\* Steps up to the end of the body.
LEMMA Leaving ==
    ASSUME CallInv, Send \/ SystemoneCreate
    PROVE  CallInv'
<1>1. /\ receipt = {} /\ result # "ok" /\ pc = "ready"
      /\ UNCHANGED <<call, receipt, result>>
  BY Unverified DEF Send, SystemoneCreate, Leave, Give
<1>2. SentOK'
  <2>1. CASE Send /\ pc' = "sent"
    <3>1. /\ ~call.decide /\ (call.helper \/ Sendable(call))
          /\ Sealing(call).ok /\ Leave(Prepared(call), Sealing(call).doc)
      BY <2>1 DEF Send, Give
    <3> QED  BY <2>1, <3>1 DEF Leave, SentOK, Admitted, Outgoing, Send
  <2>2. CASE SystemoneCreate /\ pc' = "sent"
    <3>1. call.decide /\ Decidable(call) /\ Leave(DecisionHeaders(call), call.doc)
      BY <2>2 DEF SystemoneCreate, Give
    <3> QED  BY <3>1 DEF Leave, SentOK, Admitted, Outgoing
  <2>3. CASE pc' # "sent"
    <3>1. UNCHANGED <<call, sent>> /\ pc' = "failed"
      BY <2>3 DEF Send, SystemoneCreate, Leave, Give
    <3> QED  BY <3>1 DEF CallInv, SentOK
  <2> QED  BY <2>1, <2>2, <2>3
<1> QED  BY <1>1, <1>2 DEF CallInv, ReceiptOK, VerifiedIsDelivered

\* The request stays as it is once it has left.
LEMMA SentStays ==
    ASSUME CallInv, UNCHANGED call, UNCHANGED sent,
           pc \in {"sent", "streaming", "buffering"} \/ pc' \notin {"sent", "streaming", "buffering"}
    PROVE  SentOK'
BY DEF CallInv, SentOK

LEMMA Arriving ==
    ASSUME CallInv, NEW head, NEW part,
           Respond(head) \/ Chunk(part) \/ Buffer(part) \/ Cut
    PROVE  CallInv'
<1>1. pc \in {"sent", "streaming", "buffering"}
  BY DEF Respond, Chunk, Buffer, Cut
<1>2. receipt = {} /\ result # "ok"
  BY <1>1, Unverified
<1>3. call' = call /\ sent' = sent /\ receipt' = receipt /\ result' = result
  BY DEF Respond, Chunk, Buffer, Cut, Give
<1>4. SentOK'
  BY <1>1, <1>3, SentStays
<1> QED  BY <1>2, <1>3, <1>4 DEF CallInv, ReceiptOK, VerifiedIsDelivered

LEMMA FinishHolds ==
    ASSUME CallInv, pc \in {"streaming", "buffering"},
           NEW after, NEW id, NEW ok, Finish(after, id, ok)
    PROVE  CallInv'
<1>1. receipt = {} /\ result # "ok" /\ \E s \in sent : TRUE
  BY Unverified DEF CallInv, SentOK
<1>2. call' = call /\ sent' = sent /\ wire' = wire /\ result' = result
  BY DEF Finish
<1>3. SentOK'
  BY <1>2, SentStays
<1>4. pc' \in {"done", "failed"}
  BY DEF Finish
<1>5. receipt' = {} \/ (~call.helper /\ Register(id))
  BY DEF Finish
<1>6. ASSUME Register(id)  PROVE \A r \in receipt' :
              (\E s \in sent : r.request = s.body) /\ r.response = wire /\ r.gatewayOnly = GatewayOnly(call)
  BY <1>1, <1>6 DEF Register
<1>7. ReceiptOK'
  BY <1>2, <1>4, <1>5, <1>6 DEF ReceiptOK, GatewayOnly
<1> QED  BY <1>1, <1>2, <1>3, <1>7 DEF CallInv, VerifiedIsDelivered

LEMMA Ending ==
    ASSUME CallInv, EndStream \/ EndBuffered
    PROVE  CallInv'
<1>1. CASE EndStream
  BY <1>1, FinishHolds DEF EndStream, StreamEnds
<1>2. CASE EndBuffered
  <2>1. ASSUME Give("failed")  PROVE CallInv'
    <3>1. receipt = {} /\ result # "ok"
      BY <1>2, Unverified DEF EndBuffered
    <3>2. call' = call /\ sent' = sent /\ receipt' = receipt /\ result' = result /\ pc' = "failed"
      BY <2>1 DEF Give
    <3>3. SentOK'
      BY <3>2, SentStays
    <3> QED  BY <3>1, <3>2, <3>3 DEF CallInv, ReceiptOK, VerifiedIsDelivered
  <2>2. pc = "buffering"
    BY <1>2 DEF EndBuffered
  <2>3. ASSUME NEW body, NEW opened, BodyEnds(body, opened)  PROVE CallInv'
    BY <2>2, <2>3, FinishHolds DEF BodyEnds
  <2> QED  BY <1>2, <2>1, <2>3 DEF EndBuffered
<1> QED  BY <1>1, <1>2

LEMMA Verifying ==
    ASSUME CallInv, NEW w, VerifyResponse(w) \/ VerifyByHand(w)
    PROVE  CallInv'
<1>1. /\ call' = call /\ pc' = pc /\ sent' = sent /\ wire' = wire /\ receipt' = receipt
      /\ receipt # {} /\ signature' = {w}
  BY DEF VerifyResponse, VerifyByHand, Open
<1>2. SentOK' /\ ReceiptOK'
  BY <1>1 DEF CallInv, SentOK, ReceiptOK
<1>3. ASSUME result' = "ok"  PROVE \A s \in sent : Established(call, s.body, w)
  BY <1>3, VerifyingHolds, VerifyingByHandHolds
<1>4. pc \in {"done", "failed"}
  BY <1>1 DEF CallInv, ReceiptOK
<1>5. VerifiedIsDelivered'
  BY <1>1, <1>3, <1>4 DEF VerifiedIsDelivered, Established, GatewayOnly
<1> QED  BY <1>1, <1>2, <1>5 DEF CallInv

LEMMA CallInvariance == Spec => []CallInv
<1>1. CallInv /\ [Next]_vars => CallInv'
  <2> SUFFICES ASSUME CallInv, [Next]_vars  PROVE CallInv'
    OBVIOUS
  <2>1. CASE Send \/ SystemoneCreate
    BY <2>1, Leaving
  <2>2. ASSUME NEW head, Respond(head)  PROVE CallInv'
    BY <2>2, Arriving
  <2>3. ASSUME NEW part, Chunk(part) \/ Buffer(part)  PROVE CallInv'
    BY <2>3, Arriving
  <2>4. CASE Cut
    BY <2>4, Arriving
  <2>5. CASE EndStream \/ EndBuffered
    BY <2>5, Ending
  <2>6. ASSUME NEW w, VerifyResponse(w) \/ VerifyByHand(w)  PROVE CallInv'
    BY <2>6, Verifying
  <2>7. CASE UNCHANGED vars
    BY <2>7 DEF vars, CallInv, SentOK, ReceiptOK, VerifiedIsDelivered
  <2> QED  BY <2>1, <2>2, <2>3, <2>4, <2>5, <2>6, <2>7 DEF Next
<1> QED  BY <1>1, CallInit, PTL DEF Spec

-----------------------------------------------------------------------------
(* Theorems. *)

\* A completion that verifies was signed, by an attested signer in the role
\* the answer claims, over the request that was sent and the bytes that were
\* read: verify_response and the verification by hand.
THEOREM SignedAsDelivered == Spec => []VerifiedIsDelivered
BY CallInvariance, PTL DEF CallInv

\* For any request document, with any number of elements in its arrays, what
\* encrypt_request leaves of a protected field is a ciphertext, null, or a
\* content that is neither text nor parts; and two ciphertexts share their
\* associated data exactly when they stand in the same field, whichever
\* elements they stand in.
THEOREM BoundSeals == Spec => []SealsAreBound
<1>1. CallInv => SealsAreBound
  <2> SUFFICES ASSUME CallInv, call.e2ee, NEW s \in sent
               PROVE  \E k \in call.modelKey : SealedFor(s.body.doc, call.reply, k.public)
    BY DEF SealsAreBound, SealedFor
  <2> DEFINE key == CHOOSE k \in call.modelKey : TRUE
             request == EncryptRequest(call.doc, key, call.reply)
  <2>1. Admitted(call) /\ Outgoing(call, s)
    BY DEF CallInv, SentOK
  <2>2. ~call.decide
    BY <2>1 DEF Admitted, Decidable
  <2>3. key \in call.modelKey
    BY <2>1, <2>2, RustSendAssumption DEF CallInv, Admitted, Sendable
  <2>4. request.ok /\ s.body.doc = request.doc
    BY <2>1, <2>2 DEF Outgoing, Sealing
  <2>5. \A p \in DOMAIN call.doc : call.doc[p].kind # "sealed"
    BY RustSendAssumption DEF CallInv
  <2> HIDE DEF key
  <2>6. SealedFor(s.body.doc, call.reply, key.public)
    BY <2>4, <2>5, SealedRequest
  <2> QED  BY <2>3, <2>6
<1> QED  BY <1>1, CallInvariance, PTL

\* A request carries the client's credentials and no others, and a model key
\* only if it is the attested one, whatever headers the caller supplies.
THEOREM OwnHeaders == Spec => []HeadersAreTheClients
<1>1. CallInv => HeadersAreTheClients
  <2> SUFFICES ASSUME CallInv, NEW s \in sent, ~call.helper
               PROVE  /\ ClientsOwn(s.headers, call)
                      /\ "x-model-pub-key" \in DOMAIN s.headers => s.headers["x-model-pub-key"] = "attested"
                      /\ call.e2ee => E2eeHeaders \subseteq DOMAIN s.headers
                      /\ "host" \notin DOMAIN s.headers
    BY DEF HeadersAreTheClients, ClientsOwn
  <2>1. call \in Calls /\ Admitted(call) /\ Outgoing(call, s)
    BY DEF CallInv, SentOK
  <2>2. CASE call.decide
    BY <2>1, <2>2, DecisionsHeaders DEF Admitted, Decidable, Outgoing
  <2>3. CASE ~call.decide
    BY <2>1, <2>3, PreparedHeaders DEF Outgoing
  <2> QED  BY <2>2, <2>3
<1> QED  BY <1>1, CallInvariance, PTL

-----------------------------------------------------------------------------
(***************************************************************************)
(* Streams (RustSse, RustSend).                                            *)
(*                                                                         *)
(* A record is a piece of the bytes between two cuts.  The loop of         *)
(* scan_records keeps the last line end and the last cut before its        *)
(* offset, so its records and what was told before are the pieces up to    *)
(* there; push keeps that from chunk to chunk, push_eof adds the rest, and *)
(* the generator of the body keeps, record by record, what it has yielded, *)
(* the one ID and the lifecycle of a Messages stream.  A loop is a         *)
(* recursive function: its steps are facts of their own, and Induction     *)
(* carries an invariant through them.                                      *)
(***************************************************************************)
\* Induction up to a bound, which a least counterexample contradicts.
LEMMA Induction ==
    ASSUME NEW n \in Nat, NEW T, 0 \in T, \A k \in 0..(n - 1) : k \in T => k + 1 \in T
    PROVE  \A k \in 0..n : k \in T
<1> DEFINE Bad == {k \in Nat : k <= n /\ k \notin T}
<1> SUFFICES ASSUME Bad # {} PROVE FALSE
  OBVIOUS
<1>1. PICK k \in Bad : \A j \in Bad : ~ (<<j, k>> \in OpToRel(<, Nat))
  BY NatLessThanWellFounded, WFMin, Bad \subseteq Nat
<1>2. k # 0
  OBVIOUS
<1>3. k - 1 \in Nat /\ k - 1 < k /\ k - 1 \in 0..(n - 1) /\ k \in Nat
  BY <1>2
<1>4. k - 1 \notin Bad
  BY <1>1, <1>3 DEF OpToRel
<1>5. k - 1 \in T
  BY <1>3, <1>4
<1>6. (k - 1) + 1 \in T
  BY <1>3, <1>5
<1> QED  BY <1>3, <1>6

\* The cuts up to a place, and the last of them, or 0.
UpTo(cuts, k) == {c \in cuts : c <= k}
IsLast(cuts, k, m) == m \in 0..k /\ (m = 0 \/ m \in cuts) /\ \A c \in UpTo(cuts, k) : c <= m

LEMMA UpToIsFinite ==
    ASSUME NEW cuts \in SUBSET Nat, NEW k \in Nat
    PROVE  IsFiniteSet(UpTo(cuts, k)) /\ Cardinality(UpTo(cuts, k)) \in Nat
<1>1. UpTo(cuts, k) \in SUBSET Nat /\ \A c \in UpTo(cuts, k) : c <= k
  BY DEF UpTo
<1>2. IsFiniteSet(UpTo(cuts, k))
  BY <1>1, FS_BoundedSetOfNaturals
<1> QED  BY <1>2, FS_CardinalityType

\* Equal sets have the same choice.
AnyOf(S) == CHOOSE x \in S : TRUE
LEMMA NthIsChosen ==
    ASSUME NEW cuts, NEW k, k # 0
    PROVE  Nth(cuts, k) = AnyOf(Ranked(cuts, k))
BY DEF Nth, AnyOf

\* One more cut behind the others: the ranks of those stay ...
LEMMA RanksGrow ==
    ASSUME NEW cuts \in SUBSET Nat, IsFiniteSet(cuts),
           NEW c \in Nat, \A d \in cuts : d < c, NEW k
    PROVE  Ranked(cuts \cup {c}, k) =
               IF k = Cardinality(cuts) + 1 THEN {c} ELSE Ranked(cuts, k)
<1> DEFINE grown == cuts \cup {c}
           Lower(D, x) == {d \in D : d <= x}
<1>1. Cardinality(cuts) \in Nat
  BY FS_CardinalityType
<1>2. Lower(grown, c) = grown /\ c \notin cuts
  <2>1. (\A d \in grown : d <= c) /\ c \notin cuts
    OBVIOUS
  <2> QED  BY <2>1
<1>3. Cardinality(Lower(grown, c)) = Cardinality(cuts) + 1
  BY <1>2, FS_AddElement
<1>4. ASSUME NEW x \in cuts
      PROVE  Lower(grown, x) = Lower(cuts, x) /\ Cardinality(Lower(grown, x)) # Cardinality(cuts) + 1
  <2>1. Lower(grown, x) = Lower(cuts, x)
    OBVIOUS
  <2>2. Cardinality(Lower(cuts, x)) <= Cardinality(cuts) /\ IsFiniteSet(Lower(cuts, x))
    BY FS_Subset, Lower(cuts, x) \in SUBSET cuts
  <2>3. Cardinality(Lower(cuts, x)) \in Nat
    BY <2>2, FS_CardinalityType
  <2> QED  BY <1>1, <2>1, <2>2, <2>3
<1> HIDE DEF Lower
<1>5. Ranked(grown, k) = {x \in grown : Cardinality(Lower(grown, x)) = k}
  BY DEF Ranked, Lower
<1>6. Ranked(cuts, k) = {x \in cuts : Cardinality(Lower(cuts, x)) = k}
  BY DEF Ranked, Lower
<1>7. CASE k = Cardinality(cuts) + 1
  <2>1. c \in grown /\ \A x \in grown : x = c \/ x \in cuts
    OBVIOUS
  <2>2. \A x \in grown : Cardinality(Lower(grown, x)) = k <=> x = c
    BY <1>3, <1>4, <1>7, <2>1
  <2> QED  BY <1>5, <1>7, <2>1, <2>2
<1>8. CASE k # Cardinality(cuts) + 1
  BY <1>3, <1>4, <1>5, <1>6, <1>8
<1> QED  BY <1>7, <1>8

\* ... and the last cut has the highest rank.
LEMMA LastRank ==
    ASSUME NEW cuts \in SUBSET Nat, IsFiniteSet(cuts), NEW m \in cuts, \A d \in cuts : d <= m
    PROVE  Ranked(cuts, Cardinality(cuts)) = {m} /\ Cardinality(cuts) # 0
<1> DEFINE rest == cuts \ {m}
<1>1. IsFiniteSet(rest) /\ Cardinality(rest) + 1 = Cardinality(cuts)
  <2>1. IsFiniteSet(rest) /\ Cardinality(rest) = Cardinality(cuts) - 1
    BY FS_RemoveElement
  <2>2. Cardinality(cuts) \in Nat
    BY FS_CardinalityType
  <2> QED  BY <2>1, <2>2
<1>2. rest \in SUBSET Nat /\ (\A d \in rest : d < m) /\ cuts = rest \cup {m}
  OBVIOUS
<1>3. Cardinality(rest) \in Nat
  BY <1>1, FS_CardinalityType
<1> HIDE DEF rest
<1>4. Ranked(rest \cup {m}, Cardinality(cuts)) = {m}
  BY <1>1, <1>2, RanksGrow
<1> QED  BY <1>1, <1>2, <1>3, <1>4

\* Under a name of their own, which keeps the provers from expanding them.
Longer(s, e) == Append(s, e)
Joined(s, t) == s \o t
Piece(cells, m, c) == SubSeq(cells, m + 1, c)

\* So it takes one more piece, from the last cut to the new one.
NextCut(cuts, k, m, c) ==
    /\ IsLast(cuts, k, m)
    /\ c \in cuts /\ c > k
    /\ \A d \in cuts : d <= c => d <= k \/ d = c
LEMMA OneMorePiece ==
    ASSUME NEW cells, NEW cuts \in SUBSET (Nat \ {0}), NEW k \in Nat, NEW m, NEW c,
           NextCut(cuts, k, m, c),
           NEW S, PiecesOf(cells, UpTo(cuts, k)) \in Seq(S),
           NEW piece \in S, piece = Piece(cells, m, c)
    PROVE  /\ PiecesOf(cells, UpTo(cuts, c)) = Longer(PiecesOf(cells, UpTo(cuts, k)), piece)
           /\ PiecesOf(cells, UpTo(cuts, c)) \in Seq(S)
<1>0. /\ IsLast(cuts, k, m) /\ c \in cuts /\ c > k
      /\ \A d \in cuts : d <= c => d <= k \/ d = c
  BY DEF NextCut
<1> DEFINE old == UpTo(cuts, k)
           n == Cardinality(old)
<1>1. old \in SUBSET Nat /\ IsFiniteSet(old) /\ n \in Nat /\ c \in Nat
  BY <1>0, UpToIsFinite DEF UpTo
<1>2. (\A d \in old : d < c) /\ c \notin old /\ UpTo(cuts, c) = old \cup {c}
  <2>1. \A d \in cuts : d <= c <=> d <= k \/ d = c
    <3> SUFFICES ASSUME NEW d \in cuts PROVE d <= c <=> d <= k \/ d = c
      OBVIOUS
    <3>1. d \in Nat /\ c \in Nat
      BY <1>0
    <3> QED  BY <1>0, <3>1
  <2>2. (\A d \in old : d < c) /\ c \notin old
    BY <1>0 DEF UpTo
  <2>3. c \in Nat /\ c <= c /\ \A d \in cuts : d <= c <=> d <= k \/ d = c
    BY <1>0, <2>1
  <2> QED  BY <1>0, <2>2, <2>3 DEF UpTo
<1>3. Cardinality(old \cup {c}) = n + 1
  BY <1>1, <1>2, FS_AddElement
<1>4. \A j : Ranked(old \cup {c}, j) = IF j = n + 1 THEN {c} ELSE Ranked(old, j)
  BY <1>1, <1>2, RanksGrow
<1>5. Nth(old, n) = m
  <2>1. CASE old = {}
    <3>1. m = 0
      BY <1>0, <2>1 DEF IsLast, UpTo
    <3> QED  BY <2>1, <3>1, FS_EmptySet DEF Nth
  <2>2. CASE old # {}
    <3>1. m \in old /\ \A d \in old : d <= m
      <4>1. PICK d \in cuts : d <= k /\ d <= m
        BY <1>0, <2>2 DEF IsLast, UpTo
      <4>2. m # 0 /\ m \in cuts /\ m <= k
        BY <1>0, <4>1 DEF IsLast
      <4> QED  BY <1>0, <4>2 DEF IsLast, UpTo
    <3> HIDE DEF old
    <3>2. Ranked(old, n) = {m} /\ n # 0
      BY <1>1, <3>1, LastRank
    <3> QED  BY <3>2 DEF Nth
  <2> QED  BY <2>1, <2>2
<1> HIDE DEF n, old
<1>6. \A j \in 0..n : Nth(old \cup {c}, j) = Nth(old, j)
  <2> SUFFICES ASSUME NEW j \in 0..n PROVE Nth(old \cup {c}, j) = Nth(old, j)
    OBVIOUS
  <2>1. j # n + 1
    BY <1>1
  <2>2. Ranked(old \cup {c}, j) = Ranked(old, j)
    BY <1>4, <2>1
  <2>3. CASE j = 0
    BY <2>3 DEF Nth
  <2>4. CASE j # 0
    BY <2>2, <2>4, NthIsChosen
  <2> QED  BY <2>3, <2>4
<1>7. Nth(old \cup {c}, n + 1) = c
  <2>1. Ranked(old \cup {c}, n + 1) = {c}
    BY <1>4
  <2>2. n + 1 # 0
    BY <1>1
  <2> QED  BY <2>1, <2>2 DEF Nth
<1> DEFINE before == PiecesOf(cells, old)
<1>8. PiecesOf(cells, old \cup {c}) =
          [j \in 1..(n + 1) |-> IF j <= n THEN before[j] ELSE piece]
  <2> DEFINE At(j) == SubSeq(cells, Nth(old \cup {c}, j - 1) + 1, Nth(old \cup {c}, j))
  <2>1. PiecesOf(cells, old \cup {c}) = [j \in 1..(n + 1) |-> At(j)]
    BY <1>3 DEF PiecesOf, n
  <2>2. ASSUME NEW j \in 1..n  PROVE before[j] = At(j)
    <3>1. j \in 0..n /\ j - 1 \in 0..n
      BY <1>1 DEF n
    <3>2. Nth(old \cup {c}, j) = Nth(old, j) /\ Nth(old \cup {c}, j - 1) = Nth(old, j - 1)
      BY <1>6, <3>1
    <3>3. before[j] = SubSeq(cells, Nth(old, j - 1) + 1, Nth(old, j))
      BY DEF PiecesOf, n
    <3> QED  BY <3>2, <3>3
  <2>3. piece = At(n + 1)
    <3>1. (n + 1) - 1 = n /\ n \in 0..n
      BY <1>1 DEF n
    <3>2. Nth(old \cup {c}, n) = m
      BY <1>5, <1>6, <3>1
    <3> QED  BY <1>7, <3>1, <3>2 DEF Piece
  <2> HIDE DEF before, At
  <2>4. \A j \in 1..(n + 1) : At(j) = IF j <= n THEN before[j] ELSE piece
    <3> SUFFICES ASSUME NEW j \in 1..(n + 1)
                 PROVE  At(j) = IF j <= n THEN before[j] ELSE piece
      OBVIOUS
    <3>1. (j \in 1..n /\ j <= n) \/ (j = n + 1 /\ ~(j <= n))
      BY <1>1 DEF n
    <3> QED  BY <2>2, <2>3, <3>1
  <2> QED  BY <2>1, <2>4
<1>9. before \in Seq(S) /\ Len(before) = n /\ piece \in S
  <2>1. before \in Seq(S) /\ piece \in S
    BY DEF old
  <2>2. DOMAIN before = 1..n
    BY DEF PiecesOf, n
  <2> HIDE DEF before
  <2>3. Len(before) = n
    BY <1>1, <2>1, <2>2, LenProperties
  <2> QED  BY <2>1, <2>3
<1> HIDE DEF before
<1>10. Append(before, piece) = [j \in 1..(n + 1) |-> IF j <= n THEN before[j] ELSE piece]
  <2>1. n \in Nat
    BY <1>1 DEF n
  <2>2. /\ Append(before, piece) \in Seq(S) /\ Len(Append(before, piece)) = n + 1
        /\ \A j \in 1..n : Append(before, piece)[j] = before[j]
        /\ Append(before, piece)[n + 1] = piece
    BY <1>9, AppendProperties
  <2>3. DOMAIN Append(before, piece) = 1..(n + 1)
    BY <2>2, LenProperties
  <2>4. Append(before, piece) = [j \in 1..(n + 1) |-> Append(before, piece)[j]]
    BY <2>2, <2>3, LenProperties
  <2>5. \A j \in 1..(n + 1) : Append(before, piece)[j] = IF j <= n THEN before[j] ELSE piece
    BY <2>1, <2>2
  <2> QED  BY <2>4, <2>5
<1>11. PiecesOf(cells, UpTo(cuts, c)) = Append(before, piece) /\ Append(before, piece) \in Seq(S)
  BY <1>2, <1>8, <1>9, <1>10, AppendProperties
<1> QED  BY <1>11 DEF before, old, Longer

LEMMA NoCuts ==
    ASSUME NEW cuts \in SUBSET (Nat \ {0})
    PROVE  UpTo(cuts, 0) = {}
<1>1. \A c \in cuts : ~(c <= 0)
  OBVIOUS
<1> QED  BY <1>1 DEF UpTo

LEMMA NoPieces ==
    ASSUME NEW cells
    PROVE  PiecesOf(cells, {}) = <<>>
<1> DEFINE none == PiecesOf(cells, {})
<1>1. none \in [1..0 -> {}]
  BY FS_EmptySet DEF PiecesOf
<1>2. none \in Seq({})
  BY <1>1, SeqDef
<1>3. DOMAIN none = 1..0
  BY <1>1
<1> HIDE DEF none
<1>4. Len(none) = 0
  BY <1>2, <1>3, LenProperties
<1>5. none = <<>>
  BY <1>2, <1>4, EmptySeq
<1> QED  BY <1>5 DEF none

LEMMA LastExists ==
    ASSUME NEW cuts \in SUBSET (Nat \ {0}), NEW n \in Nat
    PROVE  \E m : IsLast(cuts, n, m)
<1> DEFINE Has(k) == \E m : IsLast(cuts, k, m)
           T == {k \in Nat : Has(k)}
<1>1. 0 \in T
  <2>1. IsLast(cuts, 0, 0)
    BY NoCuts DEF IsLast
  <2> QED  BY <2>1
<1>2. ASSUME NEW k \in Nat, k \in T  PROVE k + 1 \in T
  <2>1. PICK m : IsLast(cuts, k, m)
    BY <1>2
  <2>2. CASE k + 1 \in cuts
    <3>1. IsLast(cuts, k + 1, k + 1)
      BY <2>2 DEF IsLast, UpTo
    <3> QED  BY <3>1
  <2>3. CASE k + 1 \notin cuts
    <3>1. \A d \in cuts : d <= k + 1 <=> d <= k
      BY <2>3
    <3>2. UpTo(cuts, k + 1) = UpTo(cuts, k)
      BY <3>1 DEF UpTo
    <3>3. m \in 0..(k + 1)
      BY <2>1 DEF IsLast
    <3>4. IsLast(cuts, k + 1, m)
      BY <2>1, <3>2, <3>3 DEF IsLast
    <3> QED  BY <3>4
  <2> QED  BY <2>2, <2>3
<1> HIDE DEF T
<1>3. n \in T
  BY <1>1, <1>2, Induction
<1> QED  BY <1>3 DEF T

\* What follows the cuts does not change the pieces.
LEMMA PiecesStay ==
    ASSUME NEW Cell, NEW cells \in Seq(Cell), NEW more \in Seq(Cell),
           NEW cuts \in SUBSET (Nat \ {0}), NEW n \in 0..Len(cells)
    PROVE  /\ PiecesOf(cells \o more, UpTo(cuts, n)) = PiecesOf(cells, UpTo(cuts, n))
           /\ PiecesOf(cells, UpTo(cuts, n)) \in Seq(Seq(Cell))
<1> DEFINE Same(k) == /\ PiecesOf(cells \o more, UpTo(cuts, k)) = PiecesOf(cells, UpTo(cuts, k))
                      /\ PiecesOf(cells, UpTo(cuts, k)) \in Seq(Seq(Cell))
           T == {k \in Nat : Same(k)}
<1>0. Len(cells) \in Nat /\ n \in Nat
  BY LenProperties
<1>1. 0 \in T
  <2>1. <<>> \in Seq(Seq(Cell))
    BY EmptySeq
  <2>2. Same(0)
    BY <2>1, NoCuts, NoPieces
  <2> QED  BY <2>2
<1>2. ASSUME NEW k \in 0..(n - 1), k \in T  PROVE k + 1 \in T
  <2>1. Same(k) /\ k \in Nat
    BY <1>2
  <2>2. CASE k + 1 \in cuts
    <3>1. PICK m : IsLast(cuts, k, m)
      BY <2>1, LastExists
    <3>2. \A d \in cuts : d <= k + 1 => d <= k \/ d = k + 1
      OBVIOUS
    <3>3. m \in 0..k /\ m + 1 \in 1..Len(cells) /\ k + 1 \in 1..Len(cells) /\ k + 1 \in Nat
      BY <1>0, <3>1 DEF IsLast
    <3> DEFINE piece == SubSeq(cells, m + 1, k + 1)
    <3>4. SubSeq(cells \o more, m + 1, k + 1) = piece
      BY <3>3, SubSeqOfConcat1
    <3>5. piece \in Seq(Cell)
      <4>1. \A i \in (m + 1)..(k + 1) : cells[i] \in Cell
        BY <1>0, <3>3, ElementOfSeq
      <4> QED  BY <3>3, <4>1, SubSeqProperties
    <3>9. NextCut(cuts, k, m, k + 1) /\ k \in Nat
      BY <2>1, <2>2, <3>1, <3>2 DEF NextCut
    <3> HIDE DEF piece
    <3>12. piece = Piece(cells, m, k + 1) /\ piece = Piece(cells \o more, m, k + 1)
      BY <3>4 DEF piece, Piece
    <3>6. /\ PiecesOf(cells, UpTo(cuts, k + 1)) = Longer(PiecesOf(cells, UpTo(cuts, k)), piece)
          /\ PiecesOf(cells, UpTo(cuts, k + 1)) \in Seq(Seq(Cell))
      BY <2>1, <3>5, <3>9, <3>12, OneMorePiece
    <3>7. PiecesOf(cells \o more, UpTo(cuts, k + 1)) =
              Longer(PiecesOf(cells \o more, UpTo(cuts, k)), piece)
      BY <2>1, <3>5, <3>9, <3>12, OneMorePiece
    <3>8. Same(k + 1)
      BY <2>1, <3>6, <3>7
    <3> QED  BY <3>3, <3>8
  <2>3. CASE k + 1 \notin cuts
    <3>1. \A d \in cuts : d <= k + 1 <=> d <= k
      BY <2>1, <2>3
    <3>2. UpTo(cuts, k + 1) = UpTo(cuts, k)
      BY <3>1 DEF UpTo
    <3> QED  BY <2>1, <3>2
  <2> QED  BY <2>2, <2>3
<1> HIDE DEF T
<1>3. n \in T
  <2>1. n \in 0..n
    BY <1>0
  <2> QED  BY <1>0, <1>1, <1>2, <2>1, Induction
<1> QED  BY <1>3 DEF T

-----------------------------------------------------------------------------
(* Where lines and records end. *)

LEMMA StopsAt ==
    ASSUME NEW Cell, NEW cells \in Seq(Cell), NEW eof \in BOOLEAN
    PROVE  /\ LineStops(cells, eof) \in SUBSET (1..Len(cells))
           /\ RecordEnds(cells, eof) \in SUBSET LineStops(cells, eof)
           /\ LineStops(cells, eof) \in SUBSET (Nat \ {0})
           /\ RecordEnds(cells, eof) \in SUBSET (Nat \ {0})
           /\ \A k \in 1..Len(cells) :
                 k \in LineStops(cells, eof) <=>
                     \/ cells[k] = LF
                     \/ cells[k] = CR /\ (IF k = Len(cells) THEN eof ELSE cells[k + 1] # LF)
<1>1. DOMAIN cells = 1..Len(cells) /\ Len(cells) \in Nat
  BY LenProperties
<1>2. 1..Len(cells) \in SUBSET (Nat \ {0})
  BY <1>1
<1>3. LineStops(cells, eof) \in SUBSET (1..Len(cells))
  BY <1>1 DEF LineStops
<1>4. RecordEnds(cells, eof) \in SUBSET LineStops(cells, eof)
  BY DEF RecordEnds
<1> QED  BY <1>1, <1>2, <1>3, <1>4 DEF LineStops

\* A line starts behind a stop.
LineStart(cells, eof, k) == k = 1 \/ (k - 1) \in LineStops(cells, eof)

LEMMA EndsAt ==
    ASSUME NEW cells, NEW eof, NEW k
    PROVE  k \in RecordEnds(cells, eof) <=>
               /\ k \in LineStops(cells, eof)
               /\ \/ LineStart(cells, eof, k)
                  \/ k > 1 /\ cells[k] = LF /\ cells[k - 1] = CR /\ LineStart(cells, eof, k - 1)
BY DEF RecordEnds, LineStart

\* More bytes, or the end, change nothing before the last cell, nor at the
\* last cell if that is no CR.
LEMMA StopsStay ==
    ASSUME NEW Cell, NEW cells \in Seq(Cell), NEW more \in Seq(Cell), NEW eof \in BOOLEAN,
           NEW n \in 0..Len(cells), n = Len(cells) /\ n # 0 => cells[n] # CR
    PROVE  /\ UpTo(LineStops(cells \o more, eof), n) = UpTo(LineStops(cells, FALSE), n)
           /\ UpTo(RecordEnds(cells \o more, eof), n) = UpTo(RecordEnds(cells, FALSE), n)
<1> DEFINE all == cells \o more
<1>1. /\ Len(cells) \in Nat /\ Len(more) \in Nat /\ all \in Seq(Cell)
      /\ Len(all) = Len(cells) + Len(more)
      /\ \A k \in 1..Len(cells) : all[k] = cells[k]
  <2>1. Len(cells) \in Nat /\ Len(more) \in Nat
    BY LenProperties
  <2> QED  BY <2>1, ConcatProperties
<1> HIDE DEF all
<1>2. ASSUME NEW k \in 1..n
      PROVE  k \in LineStops(all, eof) <=> k \in LineStops(cells, FALSE)
  <2>1. k \in 1..Len(cells) /\ k \in 1..Len(all) /\ all[k] = cells[k]
    BY <1>1
  <2>2. k \in LineStops(all, eof) <=>
            all[k] = LF \/ (all[k] = CR /\ (IF k = Len(all) THEN eof ELSE all[k + 1] # LF))
    BY <1>1, <2>1, StopsAt
  <2>3. k \in LineStops(cells, FALSE) <=>
            cells[k] = LF \/ (cells[k] = CR /\ (IF k = Len(cells) THEN FALSE ELSE cells[k + 1] # LF))
    BY <2>1, StopsAt
  <2>4. CASE k = Len(cells)
    <3>1. cells[k] # CR
      BY <1>1, <2>4
    <3> QED  BY <2>1, <2>2, <2>3, <3>1
  <2>5. CASE k # Len(cells)
    <3>1. k + 1 \in 1..Len(cells) /\ k # Len(all)
      BY <1>1, <2>1, <2>5
    <3>2. all[k + 1] = cells[k + 1]
      BY <1>1, <3>1
    <3> QED  BY <2>1, <2>2, <2>3, <2>5, <3>1, <3>2
  <2> QED  BY <2>4, <2>5
<1>3. ASSUME NEW k \in 1..n
      PROVE  LineStart(all, eof, k) <=> LineStart(cells, FALSE, k)
  <2>1. k = 1 \/ k - 1 \in 1..n
    BY <1>1
  <2> QED  BY <1>2, <2>1 DEF LineStart
<1>4. ASSUME NEW k \in 1..n
      PROVE  k \in RecordEnds(all, eof) <=> k \in RecordEnds(cells, FALSE)
  <2>1. all[k] = cells[k]
    BY <1>1
  <2>2. k > 1 => k - 1 \in 1..n /\ all[k - 1] = cells[k - 1]
    BY <1>1
  <2>3. k \in LineStops(all, eof) <=> k \in LineStops(cells, FALSE)
    BY <1>2
  <2>4. LineStart(all, eof, k) <=> LineStart(cells, FALSE, k)
    BY <1>3
  <2>5. k > 1 => (LineStart(all, eof, k - 1) <=> LineStart(cells, FALSE, k - 1))
    BY <1>3, <2>2
  <2> QED  BY <2>1, <2>2, <2>3, <2>4, <2>5, EndsAt
<1>5. \A k \in LineStops(all, eof) \cup LineStops(cells, FALSE) : k <= n => k \in 1..n
  <2>1. \A k \in LineStops(all, eof) \cup LineStops(cells, FALSE) : k \in Nat \ {0}
    BY <1>1, StopsAt
  <2>2. n \in Nat
    BY <1>1
  <2>3. \A k \in Nat \ {0} : k <= n => k \in 1..n
    BY <2>2
  <2> QED  BY <2>1, <2>3
<1>6. UpTo(LineStops(all, eof), n) = UpTo(LineStops(cells, FALSE), n)
  BY <1>2, <1>5 DEF UpTo
<1>7. UpTo(RecordEnds(all, eof), n) = UpTo(RecordEnds(cells, FALSE), n)
  BY <1>1, <1>4, <1>5, StopsAt DEF UpTo
<1> QED  BY <1>6, <1>7 DEF all

-----------------------------------------------------------------------------
(* The loops of the model, step by step. *)

\* scan_records
ScanRun(f, buffer, eof, from, n) == f = [k \in 0..n |-> IF k = 0 THEN from ELSE ScanByte(buffer, eof, f[k - 1], k - 1)]

LEMMA ScanRunExists ==
    ASSUME NEW buffer, NEW eof, NEW from, NEW n \in Nat
    PROVE  \E f : ScanRun(f, buffer, eof, from, n)
<1> DEFINE Has(m) == \E f : ScanRun(f, buffer, eof, from, m)
           T == {m \in Nat : Has(m)}
<1>1. 0 \in T
  <2> DEFINE g == [k \in 0..0 |-> from]
  <2>1. ScanRun(g, buffer, eof, from, 0)
    BY DEF ScanRun
  <2> QED  BY <2>1
<1>2. ASSUME NEW m \in Nat, m \in T  PROVE m + 1 \in T
  <2>1. PICK f : ScanRun(f, buffer, eof, from, m)
    BY <1>2
  <2>2. DOMAIN f = 0..m /\ \A k \in 0..m : f[k] = IF k = 0 THEN from ELSE ScanByte(buffer, eof, f[k - 1], k - 1)
    BY <2>1 DEF ScanRun
  <2> DEFINE g == [k \in 0..(m + 1) |-> IF k <= m THEN f[k] ELSE ScanByte(buffer, eof, f[m], (m + 1) - 1)]
  <2>3. ScanRun(g, buffer, eof, from, m + 1)
    <3> SUFFICES ASSUME NEW k \in 0..(m + 1)
                 PROVE  g[k] = IF k = 0 THEN from ELSE ScanByte(buffer, eof, g[k - 1], k - 1)
      BY DEF ScanRun
    <3>1. CASE k = 0
      BY <2>2, <3>1
    <3>2. CASE k \in 1..m
      BY <2>2, <3>2
    <3>3. CASE k = m + 1
      BY <2>2, <3>3
    <3> QED  BY <3>1, <3>2, <3>3
  <2> HIDE DEF g
  <2>4. Has(m + 1)
    BY <2>3
  <2> QED  BY <2>4
<1> HIDE DEF T
<1>3. n \in T
  BY <1>1, <1>2, Induction
<1> QED  BY <1>3 DEF T

ScanFrom(d) == [scan |-> d.scan, line |-> d.line, start |-> 0, held |-> FALSE, records |-> <<>>]
ScanResult(buffer, s) ==
    [decoder |-> [pending |-> SubSeq(buffer, s.start + 1, Len(buffer)),
                  scan |-> s.scan - s.start, line |-> s.line - s.start],
     records |-> s.records]

ScanTrace(f, d, eof, n) ==
    /\ f[0] = ScanFrom(d)
    /\ \A k \in 0..(n - 1) : f[k + 1] = ScanByte(d.pending, eof, f[k], k)
    /\ ScanRecords(d, eof) = ScanResult(d.pending, f[n])

LEMMA ScanSteps ==
    ASSUME NEW d, NEW eof, NEW n \in Nat, Len(d.pending) = n
    PROVE  \E f : ScanTrace(f, d, eof, n)
<1> DEFINE f == CHOOSE g : ScanRun(g, d.pending, eof, ScanFrom(d), n)
<1>1. ScanRun(f, d.pending, eof, ScanFrom(d), n)
  BY ScanRunExists
<1>2. ScanRecords(d, eof) = ScanResult(d.pending, f[n])
  BY DEF ScanRecords, ScanResult, ScanRun, ScanFrom
<1> HIDE DEF f
<1>3. \A k \in 0..n : f[k] = IF k = 0 THEN ScanFrom(d) ELSE ScanByte(d.pending, eof, f[k - 1], k - 1)
  BY <1>1 DEF ScanRun
<1>4. ASSUME NEW k \in 0..(n - 1)  PROVE f[k + 1] = ScanByte(d.pending, eof, f[k], k)
  <2>1. k + 1 \in 0..n /\ k + 1 # 0 /\ (k + 1) - 1 = k
    OBVIOUS
  <2> QED  BY <1>3, <2>1
<1> QED  BY <1>2, <1>3, <1>4 DEF ScanTrace

\* push
PushRun(f, d, parts, n) == f = [k \in 0..n |-> IF k = 0 THEN [decoder |-> d, records |-> <<>>] ELSE Fed(f[k - 1], parts[k])]

LEMMA PushRunExists ==
    ASSUME NEW d, NEW parts, NEW n \in Nat
    PROVE  \E f : PushRun(f, d, parts, n)
<1> DEFINE Has(m) == \E f : PushRun(f, d, parts, m)
           T == {m \in Nat : Has(m)}
<1>1. 0 \in T
  <2> DEFINE g == [k \in 0..0 |-> [decoder |-> d, records |-> <<>>]]
  <2>1. PushRun(g, d, parts, 0)
    BY DEF PushRun
  <2> QED  BY <2>1
<1>2. ASSUME NEW m \in Nat, m \in T  PROVE m + 1 \in T
  <2>1. PICK f : PushRun(f, d, parts, m)
    BY <1>2
  <2>2. DOMAIN f = 0..m /\ \A k \in 0..m : f[k] = IF k = 0 THEN [decoder |-> d, records |-> <<>>] ELSE Fed(f[k - 1], parts[k])
    BY <2>1 DEF PushRun
  <2> DEFINE g == [k \in 0..(m + 1) |-> IF k <= m THEN f[k] ELSE Fed(f[m], parts[(m + 1)])]
  <2>3. PushRun(g, d, parts, m + 1)
    <3> SUFFICES ASSUME NEW k \in 0..(m + 1)
                 PROVE  g[k] = IF k = 0 THEN [decoder |-> d, records |-> <<>>] ELSE Fed(g[k - 1], parts[k])
      BY DEF PushRun
    <3>1. CASE k = 0
      BY <2>2, <3>1
    <3>2. CASE k \in 1..m
      BY <2>2, <3>2
    <3>3. CASE k = m + 1
      BY <2>2, <3>3
    <3> QED  BY <3>1, <3>2, <3>3
  <2> HIDE DEF g
  <2>4. Has(m + 1)
    BY <2>3
  <2> QED  BY <2>4
<1> HIDE DEF T
<1>3. n \in T
  BY <1>1, <1>2, Induction
<1> QED  BY <1>3 DEF T

PushTrace(f, d, cells, n) ==
    /\ f[0] = [decoder |-> d, records |-> <<>>]
    /\ \A k \in 0..(n - 1) : f[k + 1] = Fed(f[k], Parts(cells)[k + 1])
    /\ Push(d, cells) = f[n]

LEMMA PushSteps ==
    ASSUME NEW d, NEW cells, NEW n \in Nat, Len(Parts(cells)) = n
    PROVE  \E f : PushTrace(f, d, cells, n)
<1> DEFINE f == CHOOSE g : PushRun(g, d, Parts(cells), n)
<1>1. PushRun(f, d, Parts(cells), n)
  BY PushRunExists
<1>2. Push(d, cells) = f[n]
  BY DEF Push, PushRun
<1> HIDE DEF f
<1>3. \A k \in 0..n : f[k] = IF k = 0 THEN [decoder |-> d, records |-> <<>>]
                             ELSE Fed(f[k - 1], Parts(cells)[k])
  BY <1>1 DEF PushRun
<1>4. ASSUME NEW k \in 0..(n - 1)  PROVE f[k + 1] = Fed(f[k], Parts(cells)[k + 1])
  <2>1. k + 1 \in 0..n /\ k + 1 # 0 /\ (k + 1) - 1 = k
    OBVIOUS
  <2> QED  BY <1>3, <2>1
<1> QED  BY <1>2, <1>3, <1>4 DEF PushTrace

\* The consumer
DeliveryRun(f, c, s, records, n) == f = [k \in 0..n |-> IF k = 0 THEN s ELSE DeliverRecord(c, f[k - 1], records[k])]

LEMMA DeliveryRunExists ==
    ASSUME NEW c, NEW s, NEW records, NEW n \in Nat
    PROVE  \E f : DeliveryRun(f, c, s, records, n)
<1> DEFINE Has(m) == \E f : DeliveryRun(f, c, s, records, m)
           T == {m \in Nat : Has(m)}
<1>1. 0 \in T
  <2> DEFINE g == [k \in 0..0 |-> s]
  <2>1. DeliveryRun(g, c, s, records, 0)
    BY DEF DeliveryRun
  <2> QED  BY <2>1
<1>2. ASSUME NEW m \in Nat, m \in T  PROVE m + 1 \in T
  <2>1. PICK f : DeliveryRun(f, c, s, records, m)
    BY <1>2
  <2>2. DOMAIN f = 0..m /\ \A k \in 0..m : f[k] = IF k = 0 THEN s ELSE DeliverRecord(c, f[k - 1], records[k])
    BY <2>1 DEF DeliveryRun
  <2> DEFINE g == [k \in 0..(m + 1) |-> IF k <= m THEN f[k] ELSE DeliverRecord(c, f[m], records[(m + 1)])]
  <2>3. DeliveryRun(g, c, s, records, m + 1)
    <3> SUFFICES ASSUME NEW k \in 0..(m + 1)
                 PROVE  g[k] = IF k = 0 THEN s ELSE DeliverRecord(c, g[k - 1], records[k])
      BY DEF DeliveryRun
    <3>1. CASE k = 0
      BY <2>2, <3>1
    <3>2. CASE k \in 1..m
      BY <2>2, <3>2
    <3>3. CASE k = m + 1
      BY <2>2, <3>3
    <3> QED  BY <3>1, <3>2, <3>3
  <2> HIDE DEF g
  <2>4. Has(m + 1)
    BY <2>3
  <2> QED  BY <2>4
<1> HIDE DEF T
<1>3. n \in T
  BY <1>1, <1>2, Induction
<1> QED  BY <1>3 DEF T

DeliveryTrace(f, records, n) ==
    /\ f[0] = stream
    /\ \A k \in 0..(n - 1) : f[k + 1] = DeliverRecord(call, f[k], records[k + 1])
    /\ Delivered(records) = f[n]

LEMMA DeliverySteps ==
    ASSUME NEW records, NEW n \in Nat, Len(records) = n
    PROVE  \E f : DeliveryTrace(f, records, n)
<1> DEFINE f == CHOOSE g : DeliveryRun(g, call, stream, records, n)
<1>1. DeliveryRun(f, call, stream, records, n)
  BY DeliveryRunExists
<1>2. Delivered(records) = f[n]
  BY DEF Delivered, DeliveryRun
<1> HIDE DEF f
<1>3. \A k \in 0..n : f[k] = IF k = 0 THEN stream ELSE DeliverRecord(call, f[k - 1], records[k])
  BY <1>1 DEF DeliveryRun
<1>4. ASSUME NEW k \in 0..(n - 1)  PROVE f[k + 1] = DeliverRecord(call, f[k], records[k + 1])
  <2>1. k + 1 \in 0..n /\ k + 1 # 0 /\ (k + 1) - 1 = k
    OBVIOUS
  <2> QED  BY <1>3, <2>1
<1> QED  BY <1>2, <1>3, <1>4 DEF DeliveryTrace

-----------------------------------------------------------------------------
(* The splitter. *)

\* Passing no cut changes nothing, and a cut that is passed is the last one.
LEMMA CutsSkipped ==
    ASSUME NEW cuts \in SUBSET (Nat \ {0}), NEW k \in Nat, NEW n \in Nat, k <= n,
           \A c \in (k + 1)..n : c \notin cuts
    PROVE  /\ UpTo(cuts, n) = UpTo(cuts, k)
           /\ \A m : IsLast(cuts, k, m) => IsLast(cuts, n, m)
<1>1. ASSUME NEW c \in cuts  PROVE c <= n <=> c <= k
  <2>1. c \in Nat
    OBVIOUS
  <2>2. ~(c \in (k + 1)..n)
    OBVIOUS
  <2> QED  BY <2>1, <2>2
<1>2. UpTo(cuts, n) = UpTo(cuts, k)
  BY <1>1 DEF UpTo
<1>3. 0..k \subseteq 0..n
  OBVIOUS
<1> QED  BY <1>2, <1>3 DEF IsLast

LEMMA CutReached ==
    ASSUME NEW cuts \in SUBSET (Nat \ {0}), NEW c \in cuts
    PROVE  IsLast(cuts, c, c)
BY DEF IsLast, UpTo

\* The unscanned rest of some bytes.
IsRest(rest, cells, b) == rest = Piece(cells, b, Len(cells))
LEMMA RestOf ==
    ASSUME NEW Cell, NEW cells \in Seq(Cell), NEW b \in 0..Len(cells),
           NEW rest, IsRest(rest, cells, b)
    PROVE  /\ rest \in Seq(Cell) /\ Len(rest) = Len(cells) - b
           /\ \A i \in 1..(Len(cells) - b) : rest[i] = cells[b + i]
           /\ \A m \in 0..(Len(cells) - b), n \in 0..(Len(cells) - b) :
                 Piece(rest, m, n) = Piece(cells, b + m, b + n)
           /\ \A m \in 0..(Len(cells) - b) : Piece(rest, m, Len(rest)) = Piece(cells, b + m, Len(cells))
<1>1. Len(cells) \in Nat /\ \A i \in 1..Len(cells) : cells[i] \in Cell
  BY LenProperties, ElementOfSeq
<1>2. \A i \in (b + 1)..Len(cells) : cells[i] \in Cell
  BY <1>1
<1>3. /\ rest \in Seq(Cell) /\ Len(rest) = Len(cells) - b
      /\ \A i \in 1..(Len(cells) - b) : rest[i] = cells[b + i]
  <2>1. b + 1 \in Int /\ Len(cells) \in Int
    BY <1>1
  <2>2. /\ rest \in Seq(Cell)
        /\ Len(rest) = IF b + 1 <= Len(cells) THEN Len(cells) - (b + 1) + 1 ELSE 0
        /\ \A i \in 1..(Len(cells) - (b + 1) + 1) : rest[i] = cells[(b + 1) + i - 1]
    BY <1>2, <2>1, SubSeqProperties DEF IsRest, Piece
  <2>3. Len(rest) = Len(cells) - b
    BY <1>1, <2>2
  <2>4. ASSUME NEW i \in 1..(Len(cells) - b)  PROVE rest[i] = cells[b + i]
    <3>1. i \in 1..(Len(cells) - (b + 1) + 1) /\ (b + 1) + i - 1 = b + i
      BY <1>1
    <3> QED  BY <2>2, <3>1
  <2> QED  BY <2>2, <2>3, <2>4
<1>4. ASSUME NEW m \in 0..(Len(cells) - b), NEW n \in 0..(Len(cells) - b)
      PROVE  Piece(rest, m, n) = Piece(cells, b + m, b + n)
  <2> DEFINE short == SubSeq(rest, m + 1, n)
             long == SubSeq(cells, b + m + 1, b + n)
  <2>1. \A i \in (m + 1)..n : rest[i] \in Cell
    BY <1>1, <1>3, ElementOfSeq
  <2>2. \A i \in (b + m + 1)..(b + n) : cells[i] \in Cell
    BY <1>1
  <2>3. /\ short \in Seq(Cell) /\ Len(short) = IF m + 1 <= n THEN n - (m + 1) + 1 ELSE 0
        /\ \A i \in 1..(n - (m + 1) + 1) : short[i] = rest[(m + 1) + i - 1]
    BY <2>1, SubSeqProperties
  <2>4. /\ long \in Seq(Cell)
        /\ Len(long) = IF b + m + 1 <= b + n THEN b + n - (b + m + 1) + 1 ELSE 0
        /\ \A i \in 1..(b + n - (b + m + 1) + 1) : long[i] = cells[(b + m + 1) + i - 1]
    BY <2>2, SubSeqProperties
  <2> HIDE DEF short, long
  <2>5. Len(short) = Len(long)
    BY <2>3, <2>4
  <2>6. ASSUME NEW i \in 1..Len(short)  PROVE short[i] = long[i]
    <3>1. i \in 1..(n - (m + 1) + 1) /\ m + i \in 1..(Len(cells) - b)
      BY <1>1, <2>3
    <3>2. /\ i \in 1..(b + n - (b + m + 1) + 1)
          /\ (m + 1) + i - 1 = m + i /\ (b + m + 1) + i - 1 = b + (m + i)
      BY <3>1
    <3>3. short[i] = rest[m + i] /\ long[i] = cells[b + (m + i)]
      BY <2>3, <2>4, <3>1, <3>2
    <3> QED  BY <1>3, <3>1, <3>3
  <2>7. short = long
    BY <2>3, <2>4, <2>5, <2>6, SeqEqual
  <2> QED  BY <2>7 DEF short, long, Piece
<1>5. ASSUME NEW m \in 0..(Len(cells) - b)
      PROVE  Piece(rest, m, Len(rest)) = Piece(cells, b + m, Len(cells))
  <2>1. Len(rest) \in 0..(Len(cells) - b) /\ b + Len(rest) = Len(cells)
    BY <1>1, <1>3
  <2> QED  BY <1>4, <2>1
<1> QED  BY <1>3, <1>4, <1>5

ScanState(Cell) ==
    [scan : Nat, line : Nat, start : Nat, held : BOOLEAN, records : Seq(Seq(Cell))]

\* The loop of scan_records, of which `pre` are the records before its own:
\* line and start are the last ends of a line and a record before scan, the
\* records are those that end before it, and it never stops within CR LF.
Scanned(Cell, cells, eof, b, pre, s) ==
    /\ s \in ScanState(Cell)
    /\ b + s.scan <= Len(cells)
    /\ IsLast(LineStops(cells, eof), b + s.scan, b + s.line)
    /\ IsLast(RecordEnds(cells, eof), b + s.scan, b + s.start)
    /\ b + s.scan # 0 /\ cells[b + s.scan] = CR => b + s.scan \in LineStops(cells, eof)
    /\ Joined(pre, s.records) = PiecesOf(cells, UpTo(RecordEnds(cells, eof), b + s.scan))
    /\ s.held => ~eof /\ b + s.scan + 1 = Len(cells) /\ cells[Len(cells)] = CR

\* Moving on to `to`, without a record or with one.
Moved(s, to, line) == [s EXCEPT !.scan = to, !.line = line]
Recorded(s, to, record) ==
    [s EXCEPT !.scan = to, !.line = to, !.start = to, !.records = Append(@, record)]

LEMMA MovedScanned ==
    ASSUME NEW Cell, NEW cells \in Seq(Cell), NEW eof \in BOOLEAN, NEW b \in Nat, NEW pre,
           NEW s, Scanned(Cell, cells, eof, b, pre, s), ~s.held,
           NEW to \in Nat, to > s.scan, b + to <= Len(cells),
           \A c \in (b + s.scan + 1)..(b + to) : c \notin RecordEnds(cells, eof),
           NEW line \in Nat, IsLast(LineStops(cells, eof), b + to, b + line),
           cells[b + to] = CR => b + to \in LineStops(cells, eof)
    PROVE  Scanned(Cell, cells, eof, b, pre, Moved(s, to, line))
<1> DEFINE t == Moved(s, to, line)
           ends == RecordEnds(cells, eof)
<1>1. s \in ScanState(Cell)
  BY DEF Scanned
<1>2. /\ t \in ScanState(Cell) /\ t.scan = to /\ t.line = line
      /\ t.start = s.start /\ t.held = s.held /\ t.records = s.records
  BY <1>1 DEF ScanState, Moved
<1>3. s.scan \in Nat
  BY <1>1 DEF ScanState
<1>4. UpTo(ends, b + to) = UpTo(ends, b + s.scan) /\ IsLast(ends, b + to, b + s.start)
  <2>1. ends \in SUBSET (Nat \ {0})
    BY StopsAt
  <2>2. b + s.scan \in Nat /\ b + to \in Nat /\ b + s.scan <= b + to
    BY <1>3
  <2>3. IsLast(ends, b + s.scan, b + s.start)
    BY DEF Scanned
  <2> QED  BY <2>1, <2>2, <2>3, CutsSkipped
<1> HIDE DEF t
<1> QED  BY <1>2, <1>4 DEF Scanned, t

LEMMA JoinedLonger ==
    ASSUME NEW S, NEW r \in Seq(S), NEW s \in Seq(S), NEW e \in S
    PROVE  Joined(r, Append(s, e)) = Longer(Joined(r, s), e)
<1>1. <<e>> \in Seq(S) /\ r \o s \in Seq(S)
  BY ConcatProperties
<1>2. Append(s, e) = s \o <<e>> /\ Append(r \o s, e) = (r \o s) \o <<e>>
  BY <1>1, AppendIsConcat
<1>3. (r \o s) \o <<e>> = r \o (s \o <<e>>)
  BY <1>1, ConcatAssociative
<1> QED  BY <1>2, <1>3 DEF Joined, Longer

LEMMA RecordedScanned ==
    ASSUME NEW Cell, NEW cells \in Seq(Cell), NEW eof \in BOOLEAN, NEW b \in Nat,
           NEW pre \in Seq(Seq(Cell)),
           NEW s, Scanned(Cell, cells, eof, b, pre, s), ~s.held,
           NEW to \in Nat, to > s.scan, b + to \in RecordEnds(cells, eof),
           \A c \in (b + s.scan + 1)..(b + to) : c \in RecordEnds(cells, eof) => c = b + to,
           NEW record, record = Piece(cells, b + s.start, b + to)
    PROVE  Scanned(Cell, cells, eof, b, pre, Recorded(s, to, record))
<1> DEFINE t == Recorded(s, to, record)
           ends == RecordEnds(cells, eof)
           k == b + s.scan
           n == b + to
<1>1. s \in ScanState(Cell)
  BY DEF Scanned
<1>2. s.scan \in Nat /\ s.start \in Nat /\ s.records \in Seq(Seq(Cell))
  BY <1>1 DEF ScanState
<1>3. k \in Nat /\ n \in Nat /\ n > k /\ Len(cells) \in Nat
  BY <1>2, LenProperties
<1>4. /\ ends \in SUBSET (Nat \ {0}) /\ LineStops(cells, eof) \in SUBSET (Nat \ {0})
      /\ n \in LineStops(cells, eof) /\ n \in 1..Len(cells)
  BY StopsAt
<1>5. NextCut(ends, k, b + s.start, n)
  <2>1. IsLast(ends, k, b + s.start)
    BY DEF Scanned
  <2>2. ASSUME NEW d \in ends, d <= n  PROVE d <= k \/ d = n
    <3>1. d \in Nat
      BY <1>4
    <3>2. CASE d \in (k + 1)..n
      BY <3>2
    <3>3. CASE ~(d \in (k + 1)..n)
      BY <1>3, <2>2, <3>1, <3>3
    <3> QED  BY <3>2, <3>3
  <2> QED  BY <1>3, <2>1, <2>2 DEF NextCut
<1>6. record \in Seq(Cell)
  <2>1. \A i \in 1..Len(cells) : cells[i] \in Cell
    BY ElementOfSeq
  <2>2. \A i \in (b + s.start + 1)..n : cells[i] \in Cell
    BY <1>2, <1>3, <1>4, <2>1
  <2>3. b + s.start + 1 \in Int /\ n \in Int
    BY <1>2, <1>3
  <2> QED  BY <2>2, <2>3, SubSeqProperties DEF Piece
<1>7. /\ t \in ScanState(Cell) /\ t.scan = to /\ t.line = to /\ t.start = to
      /\ t.held = s.held /\ t.records = Append(s.records, record)
  <2>1. Append(s.records, record) \in Seq(Seq(Cell))
    BY <1>2, <1>6, AppendProperties
  <2> DEFINE grown == Append(s.records, record)
  <2> HIDE DEF grown
  <2>2. t = [s EXCEPT !.scan = to, !.line = to, !.start = to, !.records = grown]
    BY DEF Recorded, grown
  <2>3. grown \in Seq(Seq(Cell))
    BY <2>1 DEF grown
  <2> HIDE DEF t
  <2>4. /\ t \in ScanState(Cell) /\ t.scan = to /\ t.line = to /\ t.start = to
        /\ t.held = s.held /\ t.records = grown
    BY <1>1, <2>2, <2>3 DEF ScanState
  <2> QED  BY <2>4 DEF grown
<1>8. IsLast(LineStops(cells, eof), n, n) /\ IsLast(ends, n, n)
  BY <1>4, CutReached
<1>9. Joined(pre, t.records) = PiecesOf(cells, UpTo(ends, n))
  <2>1. Joined(pre, Append(s.records, record)) = Longer(Joined(pre, s.records), record)
    BY <1>2, <1>6, JoinedLonger
  <2>2. Joined(pre, s.records) = PiecesOf(cells, UpTo(ends, k))
    BY DEF Scanned
  <2>3. PiecesOf(cells, UpTo(ends, k)) \in Seq(Seq(Cell))
    <3>1. Joined(pre, s.records) \in Seq(Seq(Cell))
      BY <1>2, ConcatProperties DEF Joined
    <3> QED  BY <2>2, <3>1
  <2>4. PiecesOf(cells, UpTo(ends, n)) = Longer(PiecesOf(cells, UpTo(ends, k)), record)
    BY <1>3, <1>4, <1>5, <1>6, <2>3, OneMorePiece
  <2> QED  BY <1>7, <2>1, <2>2, <2>4
<1> HIDE DEF t, ends
<1> QED  BY <1>4, <1>7, <1>8, <1>9 DEF Scanned, t, ends

\* One turn of the loop.
LEMMA ByteScanned ==
    ASSUME NEW Cell, NEW cells \in Seq(Cell), NEW eof \in BOOLEAN, NEW b \in 0..Len(cells),
           NEW pre \in Seq(Seq(Cell)), NEW buffer, IsRest(buffer, cells, b),
           NEW s, Scanned(Cell, cells, eof, b, pre, s),
           NEW i \in 0..(Len(buffer) - 1), ~s.held => s.scan >= i
    PROVE  /\ Scanned(Cell, cells, eof, b, pre, ScanByte(buffer, eof, s, i))
           /\ ~ScanByte(buffer, eof, s, i).held => ScanByte(buffer, eof, s, i).scan >= i + 1
<1> DEFINE t == ScanByte(buffer, eof, s, i)
           stops == LineStops(cells, eof)
           ends == RecordEnds(cells, eof)
           n == Len(cells)
           p == b + i + 1
           byte == buffer[i + 1]
           crlf == byte = CR /\ i + 2 <= Len(buffer) /\ buffer[i + 2] = LF
           end == i + IF crlf THEN 2 ELSE 1
<1>0. /\ Len(buffer) = n - b
      /\ \A k \in 1..(n - b) : buffer[k] = cells[b + k]
      /\ \A l \in 0..(n - b), m \in 0..(n - b) : Piece(buffer, l, m) = Piece(cells, b + l, b + m)
  BY RestOf
<1>1. /\ s \in ScanState(Cell) /\ s.scan \in Nat /\ s.line \in Nat /\ s.start \in Nat /\ s.held \in BOOLEAN
      /\ n \in Nat /\ b \in Nat /\ Len(buffer) = n - b
  <2>1. s \in ScanState(Cell)
    BY DEF Scanned
  <2> QED  BY <1>0, <2>1, LenProperties DEF ScanState
<1>2. i \in Nat /\ p \in 1..n /\ byte = cells[p] /\ i + 1 \in 1..(n - b)
  <2>1. i \in Nat /\ p \in 1..n /\ i + 1 \in 1..(n - b) /\ b + (i + 1) = p
    BY <1>1
  <2>2. buffer[i + 1] = cells[b + (i + 1)]
    BY <1>0, <2>1
  <2> QED  BY <2>1, <2>2
<1>3. i + 2 <= Len(buffer) => buffer[i + 2] = cells[p + 1] /\ p + 1 \in 1..n
  <2>1. SUFFICES ASSUME i + 2 <= Len(buffer)
                 PROVE  buffer[i + 2] = cells[p + 1] /\ p + 1 \in 1..n
    OBVIOUS
  <2>2. i + 2 \in 1..(n - b) /\ b + (i + 2) = p + 1 /\ p + 1 \in 1..n
    BY <1>1, <1>2, <2>1
  <2> QED  BY <1>0, <2>2
<1>4. CASE i < s.scan \/ s.held
  <2>1. t = s
    BY <1>4 DEF ScanByte
  <2> QED  BY <1>1, <1>2, <1>4, <2>1
<1>5. CASE ~(i < s.scan \/ s.held)
  <2>1. s.scan = i /\ ~s.held /\ s.held = FALSE
    BY <1>1, <1>2, <1>5
  <2>2. b + s.scan + 1 = p /\ b + (i + 1) = p /\ b + (i + 2) = p + 1
    BY <1>1, <1>2, <2>1
  <2>3. /\ stops \in SUBSET (1..n) /\ ends \in SUBSET stops
        /\ stops \in SUBSET (Nat \ {0}) /\ ends \in SUBSET (Nat \ {0})
        /\ p \in stops <=> cells[p] = LF \/ (cells[p] = CR /\ (IF p = n THEN eof ELSE cells[p + 1] # LF))
    BY <1>2, StopsAt
  \* The line is empty if it starts here.
  <2>4. LineStart(cells, eof, p) <=> i = s.line
    <3>1. IsLast(stops, b + i, b + s.line)
      BY <2>1 DEF Scanned
    <3>2. LineStart(cells, eof, p) <=> b + i = 0 \/ b + i \in stops
      <4>1. p - 1 = b + i /\ (p = 1 <=> b + i = 0)
        BY <1>1, <1>2
      <4> QED  BY <4>1 DEF LineStart
    <3>3. ASSUME b + i = 0 \/ b + i \in stops  PROVE i = s.line
      <4>1. b + s.line \in 0..(b + i)
        BY <3>1 DEF IsLast
      <4>2. CASE b + i = 0
        BY <1>1, <1>2, <4>1, <4>2
      <4>3. CASE b + i \in stops
        <5>1. b + i <= b + s.line
          BY <1>1, <1>2, <3>1, <4>3 DEF IsLast, UpTo
        <5> QED  BY <1>1, <1>2, <4>1, <5>1
      <4> QED  BY <3>3, <4>2, <4>3
    <3>4. ASSUME i = s.line  PROVE b + i = 0 \/ b + i \in stops
      BY <3>1, <3>4 DEF IsLast
    <3> QED  BY <3>2, <3>3, <3>4
  <2>5. CASE byte \notin Terminators
    <3>1. t = Moved(s, i + 1, s.line)
      <4>1. t = [s EXCEPT !.scan = i + 1]
        BY <1>5, <2>5 DEF ScanByte
      <4> QED  BY <1>1, <1>2, <4>1 DEF Moved, ScanState
    <3>2. cells[p] # CR /\ p \notin stops /\ p \notin ends
      BY <1>2, <2>3, <2>5 DEF Terminators
    <3>3. \A c \in (b + s.scan + 1)..(b + (i + 1)) : c = p
      <4>1. p \in Nat /\ b + s.scan + 1 = p /\ b + (i + 1) = p
        BY <1>2, <2>2
      <4> HIDE DEF p
      <4> QED  BY <4>1
    <3>4. IsLast(stops, b + (i + 1), b + s.line)
      <4>1. IsLast(stops, b + s.scan, b + s.line)
        BY DEF Scanned
      <4>2. \A c \in (b + s.scan + 1)..(b + (i + 1)) : c \notin stops
        BY <3>2, <3>3
      <4>3. b + s.scan \in Nat /\ b + (i + 1) \in Nat /\ b + s.scan <= b + (i + 1)
        BY <1>1, <1>2, <2>1
      <4> QED  BY <2>3, <4>1, <4>2, <4>3, CutsSkipped
    <3>5. i + 1 \in Nat /\ i + 1 > s.scan /\ b + (i + 1) <= n
      BY <1>1, <1>2, <2>1
    <3>6. \A c \in (b + s.scan + 1)..(b + (i + 1)) : c \notin ends
      BY <3>2, <3>3
    <3>7. Scanned(Cell, cells, eof, b, pre, Moved(s, i + 1, s.line))
      BY <1>1, <2>1, <2>2, <3>2, <3>4, <3>5, <3>6, MovedScanned
    <3>8. Moved(s, i + 1, s.line).scan = i + 1
      BY <1>1 DEF Moved, ScanState
    <3> HIDE DEF t
    <3>9. t.scan >= i + 1
      BY <1>2, <3>1, <3>8
    <3> QED  BY <3>1, <3>7, <3>9 DEF t
  <2>6. CASE byte \in Terminators /\ byte = CR /\ i + 1 = Len(buffer) /\ ~eof
    <3>1. t = [s EXCEPT !.held = TRUE]
      BY <1>5, <2>6 DEF ScanByte
    <3>2. /\ t \in ScanState(Cell) /\ t.held /\ t.scan = s.scan /\ t.line = s.line
          /\ t.start = s.start /\ t.records = s.records
      BY <1>1, <3>1 DEF ScanState
    <3>3. b + s.scan + 1 = n /\ cells[n] = CR
      <4>1. p = n
        <5>1. i + 1 = n - b
          BY <1>1, <2>6
        <5>2. n \in Nat /\ b \in Nat /\ i \in Nat /\ p = b + i + 1
          BY <1>1, <1>2
        <5> HIDE DEF n, p
        <5> QED  BY <5>1, <5>2
      <4> QED  BY <1>2, <2>2, <2>6, <4>1
    <3> HIDE DEF t
    <3>4. Scanned(Cell, cells, eof, b, pre, t)
      BY <2>6, <3>2, <3>3 DEF Scanned
    <3> QED  BY <3>2, <3>4 DEF t
  <2>7. CASE byte \in Terminators /\ ~(byte = CR /\ i + 1 = Len(buffer) /\ ~eof)
    <3> DEFINE to == b + end
    <3>1. /\ end \in Nat /\ end > i /\ end <= Len(buffer) /\ end \in 0..(n - b)
          /\ to \in 1..n /\ (to = p \/ to = p + 1)
          /\ crlf <=> to = p + 1
      BY <1>1, <1>2, <1>3, <2>2
    <3>2. byte = CR \/ byte = LF
      BY <2>7 DEF Terminators
    <3>3. CR # LF
      BY DEF CR, LF
    <3>4. to \in stops /\ cells[to] = IF crlf THEN LF ELSE byte
      <4>1. CASE crlf
        <5>1. p + 1 \in 1..n /\ cells[p + 1] = LF /\ to = p + 1
          BY <1>3, <3>1, <4>1
        <5>2. p + 1 \in stops
          BY <5>1, StopsAt
        <5> QED  BY <4>1, <5>1, <5>2
      <4>2. CASE ~crlf
        <5>1. to = p /\ cells[p] = byte
          BY <1>1, <1>2, <3>1, <4>2
        <5>2. CASE byte = LF
          BY <2>3, <4>2, <5>1, <5>2
        <5>3. CASE byte = CR
          <6>1. CASE p = n
            <7>1. i + 1 = Len(buffer)
              BY <1>1, <1>2, <6>1
            <7> QED  BY <2>3, <2>7, <4>2, <5>1, <5>3, <6>1, <7>1
          <6>2. CASE p # n
            <7>1. i + 2 <= Len(buffer)
              BY <1>1, <1>2, <6>2
            <7>2. cells[p + 1] # LF
              BY <1>3, <4>2, <5>3, <7>1
            <7> QED  BY <2>3, <4>2, <5>1, <5>3, <6>2, <7>2
          <6> QED  BY <6>1, <6>2
        <5> QED  BY <3>2, <5>2, <5>3
      <4> QED  BY <4>1, <4>2
    \* A record ends here exactly if the line that ends here is empty.
    <3>5. to \in ends <=> i = s.line
      <4>1. CASE crlf
        <5>1. cells[p] = CR /\ cells[p + 1] = LF /\ to = p + 1 /\ p + 1 \in 1..n /\ p # n
          BY <1>1, <1>2, <1>3, <3>1, <4>1
        <5>2. p \notin stops
          BY <2>3, <3>3, <5>1
        <5>3. ~LineStart(cells, eof, p + 1)
          <6>1. p + 1 # 1 /\ (p + 1) - 1 = p
            BY <1>2
          <6> QED  BY <5>2, <6>1 DEF LineStart
        <5>4. (p + 1) - 1 = p /\ p + 1 > 1
          BY <1>2
        <5> QED  BY <2>4, <3>4, <5>1, <5>3, <5>4, EndsAt
      <4>2. CASE ~crlf
        <5>1. to = p /\ p \in stops
          BY <3>1, <3>4, <4>2
        <5>2. p > 1 /\ cells[p - 1] = CR => LineStart(cells, eof, p)
          <6>1. SUFFICES ASSUME p > 1, cells[p - 1] = CR  PROVE p - 1 \in stops
            BY DEF LineStart
          <6>2. p - 1 = b + s.scan /\ b + s.scan # 0
            BY <1>1, <1>2, <2>1, <6>1
          <6> QED  BY <6>1, <6>2 DEF Scanned
        <5>3. p \in ends <=> LineStart(cells, eof, p)
          BY <5>1, <5>2, EndsAt
        <5> QED  BY <2>4, <5>1, <5>3
      <4> QED  BY <4>1, <4>2
    <3>6. \A c \in (b + s.scan + 1)..to : c # to => c \notin ends
      <4> SUFFICES ASSUME NEW c \in (b + s.scan + 1)..to, c # to, c \in ends  PROVE FALSE
        OBVIOUS
      <4>1. c = p /\ to = p + 1
        BY <1>1, <1>2, <2>2, <3>1
      <4>2. cells[p] = CR /\ cells[p + 1] = LF /\ p # n
        BY <1>1, <1>2, <1>3, <3>1, <4>1
      <4>3. p \notin stops
        BY <2>3, <3>3, <4>2
      <4> QED  BY <2>3, <4>1, <4>3
    <3>7. end > s.scan
      BY <2>1, <3>1
    <3>8. CASE i = s.line
      <4> DEFINE record == SubSeq(buffer, s.start + 1, end)
      <4>1. t = Recorded(s, end, record)
        BY <1>5, <2>7, <3>8 DEF ScanByte, Recorded
      <4>2. record = Piece(cells, b + s.start, to)
        <5>1. b + s.start \in 0..(b + s.scan)
          BY DEF Scanned, IsLast
        <5>2. s.start \in 0..(n - b) /\ s.start < end
          BY <1>1, <2>1, <3>1, <5>1
        <5>3. Piece(buffer, s.start, end) = Piece(cells, b + s.start, b + end)
          BY <1>0, <3>1, <5>2
        <5> QED  BY <5>3 DEF Piece
      <4> HIDE DEF record, end
      <4>3. Scanned(Cell, cells, eof, b, pre, Recorded(s, end, record))
        BY <1>1, <2>1, <3>1, <3>5, <3>6, <3>7, <3>8, <4>2, RecordedScanned
      <4>4. Recorded(s, end, record).scan = end
        BY <1>1 DEF Recorded, ScanState
      <4> HIDE DEF t
      <4>5. t.scan >= i + 1
        BY <1>2, <3>1, <4>1, <4>4
      <4> QED  BY <4>1, <4>3, <4>5 DEF t
    <3>9. CASE i # s.line
      <4>1. t = Moved(s, end, end)
        BY <1>5, <2>7, <3>9 DEF ScanByte, Moved
      <4>2. IsLast(stops, to, to)
        BY <2>3, <3>4, CutReached
      <4>3. \A c \in (b + s.scan + 1)..to : c \notin ends
        BY <3>5, <3>6, <3>9
      <4>7. end \in Nat /\ b + end <= n /\ b + end \in stops /\ b \in Nat
        BY <1>1, <3>1, <3>4
      <4> HIDE DEF end
      <4>4. Scanned(Cell, cells, eof, b, pre, Moved(s, end, end))
        BY <2>1, <3>7, <4>2, <4>3, <4>7, MovedScanned
      <4>5. Moved(s, end, end).scan = end
        BY <1>1 DEF Moved, ScanState
      <4> HIDE DEF t
      <4>6. t.scan >= i + 1
        BY <1>2, <3>1, <4>1, <4>5
      <4> QED  BY <4>1, <4>4, <4>6 DEF t
    <3> QED  BY <3>8, <3>9
  <2> QED  BY <2>5, <2>6, <2>7
<1> QED  BY <1>4, <1>5

LEMMA SameLast ==
    ASSUME NEW old, NEW new, NEW k \in Nat, UpTo(old, k) = UpTo(new, k), NEW m, IsLast(old, k, m)
    PROVE  IsLast(new, k, m)
<1>1. m \in 0..k
  BY DEF IsLast
<1>2. m # 0 => m \in UpTo(old, k)
  BY <1>1 DEF IsLast, UpTo
<1>3. m # 0 => m \in new
  BY <1>2 DEF UpTo
<1> QED  BY <1>1, <1>3 DEF IsLast

\* All records are passed when all cells are, or all but a last CR.
LEMMA AllPassed ==
    ASSUME NEW Cell, NEW cells \in Seq(Cell), NEW eof \in BOOLEAN, NEW k \in Nat,
           k = Len(cells) \/ (~eof /\ k + 1 = Len(cells) /\ cells[Len(cells)] = CR)
    PROVE  UpTo(RecordEnds(cells, eof), k) = RecordEnds(cells, eof)
<1>1. ASSUME NEW c \in RecordEnds(cells, eof)  PROVE c <= k
  <2>1. c \in LineStops(cells, eof) /\ c \in 1..Len(cells) /\ Len(cells) \in Nat
    BY StopsAt, LenProperties
  <2>2. CASE k = Len(cells)
    BY <2>1, <2>2
  <2>3. CASE ~eof /\ k + 1 = Len(cells) /\ cells[Len(cells)] = CR
    <3>1. c # Len(cells)
      <4>1. CR # LF
        BY DEF CR, LF
      <4>2. SUFFICES ASSUME c = Len(cells)  PROVE FALSE
        OBVIOUS
      <4>3. cells[c] = LF \/ (cells[c] = CR /\ (IF c = Len(cells) THEN eof ELSE cells[c + 1] # LF))
        BY <2>1, StopsAt
      <4> QED  BY <2>3, <4>1, <4>2, <4>3
    <3> QED  BY <2>1, <2>3, <3>1
  <2> QED  BY <2>2, <2>3
<1> QED  BY <1>1 DEF UpTo

\* What a decoder holds between two calls: the rest of the bytes so far
\* behind the last whole record, scanned but for a last CR.
Ready(Cell, d, cells, records) ==
    /\ d \in [pending : Seq(Cell), scan : Nat, line : Nat]
    /\ records \in Seq(Seq(Cell))
    /\ records = PiecesOf(cells, RecordEnds(cells, FALSE))
    /\ \E b \in 0..Len(cells) :
          /\ IsRest(d.pending, cells, b)
          /\ \/ b + d.scan = Len(cells)
             \/ b + d.scan + 1 = Len(cells) /\ cells[Len(cells)] = CR
          /\ IsLast(LineStops(cells, FALSE), b + d.scan, b + d.line)
          /\ IsLast(RecordEnds(cells, FALSE), b + d.scan, b)
          /\ b + d.scan # 0 /\ cells[b + d.scan] = CR => b + d.scan \in LineStops(cells, FALSE)

LEMMA RestJoined ==
    ASSUME NEW Cell, NEW cells \in Seq(Cell), NEW more \in Seq(Cell),
           NEW b \in 0..Len(cells), NEW rest, IsRest(rest, cells, b)
    PROVE  IsRest(Joined(rest, more), Joined(cells, more), b)
<1> DEFINE all == Joined(cells, more)
           left == Joined(rest, more)
           right == Piece(all, b, Len(all))
           n == Len(cells)
<1>1. /\ rest \in Seq(Cell) /\ Len(rest) = n - b /\ \A i \in 1..(n - b) : rest[i] = cells[b + i]
      /\ n \in Nat /\ Len(more) \in Nat
  BY RestOf, LenProperties
<1>2. /\ all \in Seq(Cell) /\ Len(all) = n + Len(more)
      /\ \A i \in 1..(n + Len(more)) : all[i] = IF i <= n THEN cells[i] ELSE more[i - n]
  BY ConcatProperties DEF Joined
<1>3. /\ left \in Seq(Cell) /\ Len(left) = (n - b) + Len(more)
      /\ \A i \in 1..((n - b) + Len(more)) :
            left[i] = IF i <= n - b THEN rest[i] ELSE more[i - (n - b)]
  <2>1. /\ left \in Seq(Cell) /\ Len(left) = Len(rest) + Len(more)
        /\ \A i \in 1..(Len(rest) + Len(more)) :
              left[i] = IF i <= Len(rest) THEN rest[i] ELSE more[i - Len(rest)]
    BY <1>1, ConcatProperties DEF Joined
  <2> HIDE DEF left
  <2>2. Len(rest) = n - b
    BY <1>1
  <2> QED  BY <2>1, <2>2
<1> HIDE DEF all, left
<1>4. b \in 0..Len(all)
  BY <1>1, <1>2
<1>5. IsRest(right, all, b)
  BY DEF IsRest
<1> HIDE DEF right
<1>6. /\ right \in Seq(Cell) /\ Len(right) = Len(all) - b
      /\ \A i \in 1..(Len(all) - b) : right[i] = all[b + i]
  <2>1. all \in Seq(Cell)
    BY <1>2
  <2> QED  BY <1>4, <1>5, <2>1, RestOf
<1>7. Len(left) = Len(right)
  BY <1>1, <1>2, <1>3, <1>6
<1>8. ASSUME NEW i \in 1..Len(left)  PROVE left[i] = right[i]
  <2>1. i \in 1..((n - b) + Len(more)) /\ i \in 1..(Len(all) - b) /\ b + i \in 1..(n + Len(more))
    BY <1>1, <1>2, <1>3
  <2>2. left[i] = IF i <= n - b THEN rest[i] ELSE more[i - (n - b)]
    BY <1>3, <2>1
  <2>3. right[i] = IF b + i <= n THEN cells[b + i] ELSE more[(b + i) - n]
    BY <1>2, <1>6, <2>1
  <2>4. CASE i <= n - b
    <3>1. i \in 1..(n - b) /\ b + i <= n
      BY <1>1, <2>1, <2>4
    <3> QED  BY <1>1, <2>2, <2>3, <2>4, <3>1
  <2>5. CASE ~(i <= n - b)
    <3>1. ~(b + i <= n) /\ i - (n - b) = (b + i) - n
      BY <1>1, <2>1, <2>5
    <3> QED  BY <2>2, <2>3, <2>5, <3>1
  <2> QED  BY <2>4, <2>5
<1>9. left = right
  BY <1>3, <1>6, <1>7, <1>8, SeqEqual
<1> QED  BY <1>9 DEF left, right, all, IsRest

\* More bytes, or the end: the loop starts where the last one stopped ...
Fuller(d, more) == [d EXCEPT !.pending = Joined(@, more)]

LEMMA ScanStarts ==
    ASSUME NEW Cell, NEW cells \in Seq(Cell), NEW more \in Seq(Cell), NEW eof \in BOOLEAN,
           NEW d, NEW records, Ready(Cell, d, cells, records)
    PROVE  \E b \in 0..Len(Joined(cells, more)) :
               /\ IsRest(Fuller(d, more).pending, Joined(cells, more), b)
               /\ Scanned(Cell, Joined(cells, more), eof, b, records, ScanFrom(Fuller(d, more)))
<1> DEFINE all == Joined(cells, more)
           stops == LineStops(cells, FALSE)
           ends == RecordEnds(cells, FALSE)
           n == Len(cells)
<1>1. PICK b \in 0..n :
          /\ IsRest(d.pending, cells, b)
          /\ b + d.scan = n \/ (b + d.scan + 1 = n /\ cells[n] = CR)
          /\ IsLast(stops, b + d.scan, b + d.line)
          /\ IsLast(ends, b + d.scan, b)
          /\ b + d.scan # 0 /\ cells[b + d.scan] = CR => b + d.scan \in stops
  BY DEF Ready
<1> DEFINE k == b + d.scan
           s == ScanFrom(Fuller(d, more))
<1>2. /\ d.pending \in Seq(Cell) /\ d.scan \in Nat /\ d.line \in Nat
      /\ n \in Nat /\ Len(more) \in Nat /\ k \in 0..n
  <2>1. d.pending \in Seq(Cell) /\ d.scan \in Nat /\ d.line \in Nat
    BY DEF Ready
  <2>2. n \in Nat /\ Len(more) \in Nat
    BY LenProperties
  <2> QED  BY <1>1, <2>1, <2>2
<1>3. /\ all \in Seq(Cell) /\ Len(all) = n + Len(more)
      /\ \A i \in 1..n : all[i] = cells[i]
  <2>1. /\ all \in Seq(Cell) /\ Len(all) = n + Len(more)
        /\ \A i \in 1..(n + Len(more)) : all[i] = IF i <= n THEN cells[i] ELSE more[i - n]
    BY ConcatProperties DEF Joined
  <2>2. ASSUME NEW i \in 1..n  PROVE all[i] = cells[i]
    <3>1. i \in 1..(n + Len(more)) /\ i <= n
      BY <1>2
    <3> HIDE DEF all
    <3> QED  BY <2>1, <3>1
  <2> QED  BY <2>1, <2>2
<1>4. k = n /\ k # 0 => cells[k] # CR
  <2>1. SUFFICES ASSUME k = n, k # 0, cells[k] = CR  PROVE FALSE
    OBVIOUS
  <2>2. k \in 1..n /\ k \in stops
    <3>1. k \in 1..n
      BY <1>2, <2>1
    <3>2. k \in stops
      BY <1>1, <2>1
    <3> QED  BY <3>1, <3>2
  <2>3. cells[k] = LF \/ (cells[k] = CR /\ (IF k = n THEN FALSE ELSE cells[k + 1] # LF))
    BY <2>2, StopsAt
  <2> QED  BY <2>1, <2>3 DEF CR, LF
<1>5. /\ UpTo(LineStops(all, eof), k) = UpTo(stops, k)
      /\ UpTo(RecordEnds(all, eof), k) = UpTo(ends, k)
  BY <1>2, <1>4, StopsStay DEF Joined
<1>6. /\ Fuller(d, more).pending = Joined(d.pending, more)
      /\ s = [scan |-> d.scan, line |-> d.line, start |-> 0, held |-> FALSE, records |-> <<>>]
  BY DEF Ready, Fuller, ScanFrom
<1>7. IsRest(Fuller(d, more).pending, all, b) /\ b \in 0..Len(all)
  <2>1. IsRest(Joined(d.pending, more), all, b)
    BY <1>1, RestJoined
  <2> QED  BY <1>2, <1>3, <1>6, <2>1
<1>8. s \in ScanState(Cell)
  <2>1. <<>> \in Seq(Seq(Cell))
    BY EmptySeq
  <2> QED  BY <1>2, <1>6, <2>1 DEF ScanState
<1>9. IsLast(LineStops(all, eof), k, b + d.line) /\ IsLast(RecordEnds(all, eof), k, b + 0)
  <2>1. k \in Nat /\ b + 0 = b
    BY <1>2
  <2>2. IsLast(LineStops(all, eof), k, b + d.line)
    BY <1>1, <1>5, <2>1, SameLast
  <2>3. IsLast(RecordEnds(all, eof), k, b)
    BY <1>1, <1>5, <2>1, SameLast
  <2> QED  BY <2>1, <2>2, <2>3
<1>10. k # 0 /\ all[k] = CR => k \in LineStops(all, eof)
  <2>1. SUFFICES ASSUME k # 0, all[k] = CR  PROVE k \in LineStops(all, eof)
    OBVIOUS
  <2>2. cells[k] = CR
    BY <1>2, <1>3, <2>1
  <2>3. k \in UpTo(stops, k)
    <3>1. k \in stops
      BY <1>1, <2>1, <2>2
    <3>2. k <= k
      BY <1>2
    <3> QED  BY <3>1, <3>2 DEF UpTo
  <2> QED  BY <1>5, <2>3 DEF UpTo
<1>11. Joined(records, <<>>) = PiecesOf(all, UpTo(RecordEnds(all, eof), k))
  <2>1. records \in Seq(Seq(Cell)) /\ records = PiecesOf(cells, ends)
    BY DEF Ready
  <2>2. Joined(records, <<>>) = records
    BY <2>1, ConcatEmptySeq DEF Joined
  <2>3. UpTo(ends, k) = ends
    <3>1. k \in Nat /\ (k = n \/ (k + 1 = n /\ cells[n] = CR))
      BY <1>1, <1>2
    <3> HIDE DEF k
    <3> QED  BY <3>1, AllPassed
  <2>4. PiecesOf(all, UpTo(ends, k)) = PiecesOf(cells, UpTo(ends, k))
    <3>1. ends \in SUBSET (Nat \ {0})
      BY StopsAt
    <3>2. k \in 0..n
      BY <1>2
    <3> HIDE DEF k, ends
    <3>3. PiecesOf(cells \o more, UpTo(ends, k)) = PiecesOf(cells, UpTo(ends, k))
      BY <3>1, <3>2, PiecesStay
    <3> QED  BY <3>3 DEF Joined
  <2> QED  BY <1>5, <2>1, <2>2, <2>3, <2>4
<1>12. b + d.scan <= Len(all)
  BY <1>2, <1>3
<1> HIDE DEF all
<1>13. Scanned(Cell, all, eof, b, records, s)
  BY <1>6, <1>8, <1>9, <1>10, <1>11, <1>12 DEF Scanned
<1> QED  BY <1>7, <1>13 DEF all

\* ... and ends with all that can be told of these bytes.
LEMMA ScanEnds ==
    ASSUME NEW Cell, NEW cells \in Seq(Cell), NEW eof \in BOOLEAN, NEW b \in 0..Len(cells),
           NEW pre \in Seq(Seq(Cell)), NEW d, IsRest(d.pending, cells, b),
           Scanned(Cell, cells, eof, b, pre, ScanFrom(d))
    PROVE  \E s : /\ ScanRecords(d, eof) = ScanResult(d.pending, s)
                  /\ Scanned(Cell, cells, eof, b, pre, s)
                  /\ ~s.held => b + s.scan = Len(cells)
<1> DEFINE n == Len(d.pending)
<1>1. n \in Nat /\ n = Len(cells) - b
  BY RestOf, LenProperties
<1>2. PICK f : ScanTrace(f, d, eof, n)
  <2>1. n \in Nat
    BY <1>1
  <2> HIDE DEF n
  <2>2. Len(d.pending) = n
    BY DEF n
  <2> QED  BY <2>1, <2>2, ScanSteps
<1>0. /\ f[0] = ScanFrom(d)
      /\ \A k \in 0..(n - 1) : f[k + 1] = ScanByte(d.pending, eof, f[k], k)
      /\ ScanRecords(d, eof) = ScanResult(d.pending, f[n])
  BY <1>2 DEF ScanTrace
<1> DEFINE Loop(k) == Scanned(Cell, cells, eof, b, pre, f[k]) /\ (~f[k].held => f[k].scan >= k)
           T == {k \in Nat : Loop(k)}
<1>3. 0 \in T
  <2>1. f[0].scan \in Nat
    BY <1>0 DEF Scanned, ScanState
  <2>2. Loop(0)
    BY <1>0, <2>1
  <2> QED  BY <2>2
<1>4. ASSUME NEW k \in 0..(n - 1), k \in T  PROVE k + 1 \in T
  <2>1. Loop(k)
    BY <1>4
  <2>2. f[k + 1] = ScanByte(d.pending, eof, f[k], k)
    BY <1>0
  <2>3. Loop(k + 1)
    BY <2>1, <2>2, ByteScanned
  <2> QED  BY <1>1, <2>3
<1> HIDE DEF T
<1>5. n \in T
  <2>1. n \in 0..n
    BY <1>1
  <2> HIDE DEF n
  <2> QED  BY <1>1, <1>3, <1>4, <2>1, Induction
<1>6. Loop(n)
  BY <1>5 DEF T
<1>7. ~f[n].held => b + f[n].scan = Len(cells)
  <2>1. SUFFICES ASSUME ~f[n].held  PROVE b + f[n].scan = Len(cells)
    OBVIOUS
  <2>2. f[n].scan >= n /\ b + f[n].scan <= Len(cells) /\ f[n].scan \in Nat
    BY <1>6, <2>1 DEF Scanned, ScanState
  <2>3. Len(cells) \in Nat
    BY LenProperties
  <2> QED  BY <1>1, <2>2, <2>3
<1> QED  BY <1>0, <1>6, <1>7

LEMMA JoinedTyped ==
    ASSUME NEW S, NEW r \in Seq(S), NEW s \in Seq(S)
    PROVE  Joined(r, s) \in Seq(S)
BY ConcatProperties DEF Joined

LEMMA JoinedTwice ==
    ASSUME NEW S, NEW r \in Seq(S), NEW s \in Seq(S), NEW u \in Seq(S)
    PROVE  Joined(Joined(r, s), u) = Joined(r, Joined(s, u))
BY ConcatAssociative DEF Joined

\* At the end, the decoder is left with what follows the last record.
Remains(cells, rest, records) ==
    \E b \in 0..Len(cells) :
        /\ rest = Piece(cells, b, Len(cells))
        /\ IsLast(RecordEnds(cells, TRUE), Len(cells), b)
        /\ records = PiecesOf(cells, RecordEnds(cells, TRUE))

\* A part of a chunk, or nothing more, is scanned.
LEMMA ScanReady ==
    ASSUME NEW Cell, NEW cells \in Seq(Cell), NEW more \in Seq(Cell), NEW eof \in BOOLEAN,
           NEW d, NEW pre, Ready(Cell, d, cells, pre)
    PROVE  LET s == ScanRecords(Fuller(d, more), eof)
               all == Joined(cells, more)
           IN /\ s.records \in Seq(Seq(Cell))
              /\ ~eof => Ready(Cell, s.decoder, all, Joined(pre, s.records))
              /\ eof => Remains(all, s.decoder.pending, Joined(pre, s.records))
<1> DEFINE all == Joined(cells, more)
           buffer == Fuller(d, more).pending
           n == Len(all)
<1>1. all \in Seq(Cell) /\ n \in Nat /\ pre \in Seq(Seq(Cell))
  BY JoinedTyped, LenProperties DEF Ready
<1>2. PICK b \in 0..n :
          /\ IsRest(buffer, all, b)
          /\ Scanned(Cell, all, eof, b, pre, ScanFrom(Fuller(d, more)))
  BY ScanStarts
<1>3. PICK s : /\ ScanRecords(Fuller(d, more), eof) = ScanResult(buffer, s)
               /\ Scanned(Cell, all, eof, b, pre, s)
               /\ ~s.held => b + s.scan = n
  <2> HIDE DEF all
  <2> QED  BY <1>1, <1>2, ScanEnds
<1> DEFINE r == ScanResult(buffer, s)
           at == b + s.start
           rest == Piece(buffer, s.start, Len(buffer))
<1> HIDE DEF all
<1>4. /\ s.scan \in Nat /\ s.line \in Nat /\ s.start \in Nat /\ s.records \in Seq(Seq(Cell))
      /\ b + s.scan <= n /\ b \in Nat
      /\ IsLast(LineStops(all, eof), b + s.scan, b + s.line)
      /\ IsLast(RecordEnds(all, eof), b + s.scan, at)
      /\ Joined(pre, s.records) = PiecesOf(all, UpTo(RecordEnds(all, eof), b + s.scan))
      /\ s.held => ~eof /\ b + s.scan + 1 = n /\ all[n] = CR
  BY <1>1, <1>3 DEF Scanned, ScanState
\* A record ends with a line.
<1>5. s.start <= s.line /\ s.line <= s.scan
  <2>1. /\ at \in 0..(b + s.scan) /\ (at = 0 \/ at \in RecordEnds(all, eof))
        /\ b + s.line \in 0..(b + s.scan)
    BY <1>4 DEF IsLast
  <2>2. at <= b + s.line
    <3>1. CASE at = 0
      BY <1>4, <2>1, <3>1
    <3>2. CASE at \in RecordEnds(all, eof)
      <4>1. at \in LineStops(all, eof) /\ at <= b + s.scan
        <5>1. at <= b + s.scan
          BY <1>4, <2>1
        <5>2. RecordEnds(all, eof) \in SUBSET LineStops(all, eof)
          BY <1>1, StopsAt
        <5> HIDE DEF at
        <5> QED  BY <3>2, <5>1, <5>2
      <4>2. at \in UpTo(LineStops(all, eof), b + s.scan)
        BY <4>1 DEF UpTo
      <4> QED  BY <1>4, <4>2 DEF IsLast
    <3> QED  BY <2>1, <3>1, <3>2
  <2>3. /\ s.start \in Nat /\ s.line \in Nat /\ s.scan \in Nat /\ b \in Nat
        /\ b + s.start <= b + s.line /\ b + s.line <= b + s.scan
    BY <1>4, <2>1, <2>2
  <2> QED  BY ONLY <2>3
<1>6. /\ r.records = s.records /\ r.decoder.pending = rest
      /\ r.decoder = [pending |-> rest, scan |-> s.scan - s.start, line |-> s.line - s.start]
  BY DEF ScanResult, Piece
<1>7. at \in 0..n /\ rest = Piece(all, at, n) /\ rest \in Seq(Cell) /\ IsRest(rest, all, at)
  <2>1. s.start \in 0..(n - b) /\ at \in 0..n
    BY <1>4, <1>5
  <2>2. rest = Piece(all, at, n)
    BY <1>1, <1>2, <2>1, RestOf
  <2>3. IsRest(rest, all, at)
    BY <2>2 DEF IsRest
  <2> HIDE DEF rest, at
  <2>4. rest \in Seq(Cell)
    BY <1>1, <2>1, <2>3, RestOf
  <2> QED  BY <2>1, <2>2, <2>3, <2>4
<1>8. UpTo(RecordEnds(all, eof), b + s.scan) = RecordEnds(all, eof)
  <2>1. b + s.scan \in Nat /\ (b + s.scan = n \/ (~eof /\ b + s.scan + 1 = n /\ all[n] = CR))
    BY <1>3, <1>4
  <2> QED  BY <1>1, <2>1, AllPassed
<1>9. ASSUME ~eof  PROVE Ready(Cell, r.decoder, all, Joined(pre, s.records))
  <2> DEFINE e == r.decoder
  <2>0. eof = FALSE
    BY <1>9
  <2>1. e.pending = rest /\ e.scan = s.scan - s.start /\ e.line = s.line - s.start
    BY <1>6
  <2>2. /\ e.scan \in Nat /\ e.line \in Nat /\ at + e.scan = b + s.scan /\ at + e.line = b + s.line
    <3>1. s.scan - s.start \in Nat /\ s.line - s.start \in Nat
      BY <1>4, <1>5
    <3>2. at + (s.scan - s.start) = b + s.scan /\ at + (s.line - s.start) = b + s.line
      BY <1>4
    <3> QED  BY <2>1, <3>1, <3>2
  <2>3. e \in [pending : Seq(Cell), scan : Nat, line : Nat]
    BY <1>6, <1>7, <2>1, <2>2
  <2>4. Joined(pre, s.records) \in Seq(Seq(Cell))
    BY <1>1, <1>4, JoinedTyped
  <2>5. Joined(pre, s.records) = PiecesOf(all, RecordEnds(all, FALSE))
    BY <1>4, <1>8, <2>0
  <2>6. at + e.scan = n \/ (at + e.scan + 1 = n /\ all[n] = CR)
    BY <1>3, <1>4, <2>2
  <2>7. /\ IsLast(LineStops(all, FALSE), at + e.scan, at + e.line)
        /\ IsLast(RecordEnds(all, FALSE), at + e.scan, at)
    BY <1>4, <2>0, <2>2
  <2>8. at + e.scan # 0 /\ all[at + e.scan] = CR => at + e.scan \in LineStops(all, FALSE)
    BY <1>3, <2>0, <2>2 DEF Scanned
  <2> HIDE DEF e, at, rest
  <2>9. Ready(Cell, e, all, Joined(pre, s.records))
    BY <1>7, <2>1, <2>3, <2>4, <2>5, <2>6, <2>7, <2>8 DEF Ready
  <2> QED  BY <2>9 DEF e
<1>10. ASSUME eof  PROVE Remains(all, rest, Joined(pre, s.records))
  <2>1. eof = TRUE /\ b + s.scan = n
    BY <1>3, <1>4, <1>10
  <2>2. /\ IsLast(RecordEnds(all, TRUE), n, at)
        /\ Joined(pre, s.records) = PiecesOf(all, RecordEnds(all, TRUE))
    BY <1>4, <1>8, <2>1
  <2> HIDE DEF at, rest
  <2> QED  BY <1>7, <2>2 DEF Remains
<1> HIDE DEF at, rest
<1> QED  BY <1>3, <1>4, <1>6, <1>7, <1>9, <1>10 DEF all

\* After a part of a chunk.
LEMMA FedReady ==
    ASSUME NEW Cell, NEW cells \in Seq(Cell), NEW more \in Seq(Cell),
           NEW r, DOMAIN r = {"decoder", "records"}, NEW pre \in Seq(Seq(Cell)),
           r.records \in Seq(Seq(Cell)), Ready(Cell, r.decoder, cells, Joined(pre, r.records))
    PROVE  /\ DOMAIN Fed(r, more) = {"decoder", "records"}
           /\ Fed(r, more).records \in Seq(Seq(Cell))
           /\ Ready(Cell, Fed(r, more).decoder, Joined(cells, more), Joined(pre, Fed(r, more).records))
<1> DEFINE s == ScanRecords(Fuller(r.decoder, more), FALSE)
           after == Fed(r, more)
<1>1. /\ DOMAIN after = {"decoder", "records"}
      /\ after.decoder = s.decoder /\ after.records = Joined(r.records, s.records)
  <2>1. DOMAIN s = {"decoder", "records"}
    BY DEF ScanRecords
  <2>2. after = [s EXCEPT !.records = Joined(r.records, @)]
    BY DEF Fed, Fuller, Joined
  <2> HIDE DEF s, after
  <2> QED  BY <2>1, <2>2
<1>2. /\ s.records \in Seq(Seq(Cell))
      /\ Ready(Cell, s.decoder, Joined(cells, more), Joined(Joined(pre, r.records), s.records))
  BY ScanReady
<1> HIDE DEF s, after
<1>3. Joined(Joined(pre, r.records), s.records) = Joined(pre, after.records)
  BY <1>1, <1>2, JoinedTwice
<1>4. after.records \in Seq(Seq(Cell))
  BY <1>1, <1>2, JoinedTyped
<1> QED  BY <1>1, <1>2, <1>3, <1>4 DEF after

\* How many parts a chunk has, and what they have passed together.
LEMMA PartCount ==
    ASSUME NEW size \in Nat, NEW part \in Nat \ {0}, NEW n, n = (size + part - 1) \div part
    PROVE  /\ n \in Nat /\ n * part >= size
           /\ \A k \in 0..(n - 1) : k * part \in Nat /\ k * part < size /\ (k + 1) * part = k * part + part
<1>1. n \in Nat
  OBVIOUS
<1>2. n * part <= size + part - 1 /\ size + part - 1 < n * part + part
  OBVIOUS
<1>3. ASSUME NEW k \in 0..(n - 1)
      PROVE  k * part \in Nat /\ k * part < size /\ (k + 1) * part = k * part + part
  <2>1. k \in Nat /\ k + 1 <= n
    BY <1>1
  <2>2. k * part \in Nat /\ (k + 1) * part = k * part + part
    BY <2>1
  <2>3. (k + 1) * part <= n * part
    BY <1>1, <2>1
  <2> QED  BY <1>1, <1>2, <2>2, <2>3
<1>4. n * part \in Nat
  BY <1>1
<1>5. n * part >= size
  BY <1>2, <1>4
<1> QED  BY <1>1, <1>3, <1>5

\* A chunk in parts is the chunk.
LEMMA PartsJoin ==
    ASSUME NEW Cell, NEW cells \in Seq(Cell)
    PROVE  \E n \in Nat : \E cut :
               /\ Len(Parts(cells)) = n
               /\ cut[0] = 0 /\ cut[n] = Len(cells)
               /\ \A k \in 0..(n - 1) :
                     /\ cut[k] \in 0..Len(cells) /\ cut[k + 1] \in cut[k]..Len(cells)
                     /\ Parts(cells)[k + 1] = Piece(cells, cut[k], cut[k + 1])
<1> DEFINE size == Len(cells)
           n == (size + Part - 1) \div Part
           cut == [k \in 0..n |-> IF k * Part < size THEN k * Part ELSE size]
<1>1. size \in Nat /\ Part \in Nat \ {0}
  BY LenProperties, RustSseAssumption
<1> HIDE DEF size
<1>2. /\ n \in Nat /\ n * Part >= size
      /\ \A k \in 0..(n - 1) : k * Part \in Nat /\ k * Part < size /\ (k + 1) * Part = k * Part + Part
  BY <1>1, PartCount
<1>3. Parts(cells) = [k \in 1..n |-> SubSeq(cells, (k - 1) * Part + 1, cut[k])]
  <2>1. \A k \in 1..n : cut[k] = IF k * Part < size THEN k * Part ELSE size
    BY <1>2
  <2> QED  BY <2>1 DEF Parts, size
<1> HIDE DEF n
<1>4. Len(Parts(cells)) = n
  <2> DEFINE parts == Parts(cells)
  <2>1. parts \in [1..n -> {parts[k] : k \in 1..n}]
    BY <1>3
  <2>2. parts \in Seq({parts[k] : k \in 1..n})
    BY <1>2, <2>1, SeqDef
  <2>3. DOMAIN parts = 1..n
    BY <1>3
  <2> HIDE DEF parts
  <2>4. Len(parts) = n
    BY <1>2, <2>2, <2>3, LenProperties
  <2> QED  BY <2>4 DEF parts
<1>5. cut[0] = 0 /\ cut[n] = size
  <2>1. 0 \in 0..n /\ n \in 0..n /\ 0 * Part = 0
    BY <1>1, <1>2
  <2>2. cut[0] = 0
    BY <1>1, <2>1
  <2>3. ~(n * Part < size)
    <3>1. n * Part \in Nat
      BY <1>1, <1>2
    <3> QED  BY <1>1, <1>2, <3>1
  <2>4. cut[n] = size
    BY <2>1, <2>3
  <2> QED  BY <2>2, <2>4
<1>6. ASSUME NEW k \in 0..(n - 1)
      PROVE  /\ cut[k] \in 0..size /\ cut[k + 1] \in cut[k]..size
             /\ Parts(cells)[k + 1] = Piece(cells, cut[k], cut[k + 1])
  <2>1. k \in 0..n /\ k + 1 \in 1..n /\ k + 1 \in 0..n /\ (k + 1) - 1 = k
    BY <1>2
  <2>2. k * Part \in Nat /\ k * Part < size /\ (k + 1) * Part = k * Part + Part
    BY <1>2
  <2>3. cut[k] = k * Part
    BY <2>1, <2>2
  <2>4. cut[k + 1] = IF (k + 1) * Part < size THEN (k + 1) * Part ELSE size
    BY <2>1
  <2>5. Parts(cells)[k + 1] = SubSeq(cells, k * Part + 1, cut[k + 1])
    BY <1>3, <2>1
  <2> HIDE DEF cut
  <2>6. cut[k + 1] \in cut[k]..size
    BY <1>1, <2>2, <2>3, <2>4
  <2> QED  BY <1>1, <2>2, <2>3, <2>5, <2>6 DEF Piece
<1> HIDE DEF cut
<1> QED  BY <1>2, <1>4, <1>5, <1>6 DEF size

LEMMA PieceTyped ==
    ASSUME NEW Cell, NEW cells \in Seq(Cell), NEW m \in 0..Len(cells), NEW n \in 0..Len(cells)
    PROVE  Piece(cells, m, n) \in Seq(Cell)
<1>1. \A i \in (m + 1)..n : cells[i] \in Cell
  BY ElementOfSeq, LenProperties
<1>2. m + 1 \in Int /\ n \in Int
  OBVIOUS
<1> QED  BY <1>1, <1>2, SubSeqProperties DEF Piece

\* After a chunk.
LEMMA PushReady ==
    ASSUME NEW Cell, NEW wired \in Seq(Cell), NEW cells \in Seq(Cell),
           NEW d, NEW pre, Ready(Cell, d, wired, pre)
    PROVE  /\ Push(d, cells).records \in Seq(Seq(Cell))
           /\ Ready(Cell, Push(d, cells).decoder, Joined(wired, cells), Joined(pre, Push(d, cells).records))
<1>10. PICK n \in Nat : \E cut :
          /\ Len(Parts(cells)) = n
          /\ cut[0] = 0 /\ cut[n] = Len(cells)
          /\ \A k \in 0..(n - 1) :
                /\ cut[k] \in 0..Len(cells) /\ cut[k + 1] \in cut[k]..Len(cells)
                /\ Parts(cells)[k + 1] = Piece(cells, cut[k], cut[k + 1])
  BY PartsJoin
<1>1. PICK cut :
          /\ Len(Parts(cells)) = n
          /\ cut[0] = 0 /\ cut[n] = Len(cells)
          /\ \A k \in 0..(n - 1) :
                /\ cut[k] \in 0..Len(cells) /\ cut[k + 1] \in cut[k]..Len(cells)
                /\ Parts(cells)[k + 1] = Piece(cells, cut[k], cut[k + 1])
  BY <1>10
<1>0. PICK f : PushTrace(f, d, cells, n)
  <2>1. Len(Parts(cells)) = n
    BY <1>1
  <2> QED  BY <2>1, PushSteps
<1>2. /\ f[0] = [decoder |-> d, records |-> <<>>]
      /\ \A k \in 0..(n - 1) : f[k + 1] = Fed(f[k], Parts(cells)[k + 1])
      /\ Push(d, cells) = f[n]
  BY <1>0 DEF PushTrace
<1>3. pre \in Seq(Seq(Cell)) /\ Len(cells) \in Nat
  BY LenProperties DEF Ready
<1> DEFINE Loop(k) ==
               /\ DOMAIN f[k] = {"decoder", "records"} /\ f[k].records \in Seq(Seq(Cell))
               /\ cut[k] \in 0..Len(cells)
               /\ Ready(Cell, f[k].decoder, Joined(wired, Piece(cells, 0, cut[k])), Joined(pre, f[k].records))
           T == {k \in Nat : Loop(k)}
<1>4. 0 \in T
  <2>1. DOMAIN f[0] = {"decoder", "records"} /\ f[0].records = <<>> /\ f[0].decoder = d
    BY <1>2
  <2>2. <<>> \in Seq(Seq(Cell)) /\ Joined(pre, <<>>) = pre
    BY <1>3, EmptySeq, ConcatEmptySeq DEF Joined
  <2>3. Piece(cells, 0, 0) = <<>>
    BY SubSeqEmpty DEF Piece
  <2>4. Joined(wired, <<>>) = wired
    BY ConcatEmptySeq DEF Joined
  <2>5. cut[0] = 0
    BY <1>1
  <2>6. Loop(0)
    BY <1>3, <2>1, <2>2, <2>3, <2>4, <2>5
  <2> QED  BY <2>6
<1>5. ASSUME NEW k \in 0..(n - 1), k \in T  PROVE k + 1 \in T
  <2>1. Loop(k)
    BY <1>5
  <2> DEFINE first == Piece(cells, 0, cut[k])
             more == Piece(cells, cut[k], cut[k + 1])
  <2>2. /\ f[k + 1] = Fed(f[k], more) /\ cut[k] \in 0..Len(cells) /\ cut[k + 1] \in cut[k]..Len(cells)
        /\ cut[k + 1] \in 0..Len(cells) /\ 0 \in 0..Len(cells)
    BY <1>1, <1>2, <1>3
  <2>3. first \in Seq(Cell) /\ more \in Seq(Cell)
    BY <2>2, PieceTyped
  <2>4. Joined(first, more) = Piece(cells, 0, cut[k + 1])
    <3>1. 0 + 1 \in 1..(Len(cells) + 1) /\ cut[k] \in ((0 + 1) - 1)..Len(cells)
      BY <1>3, <2>2
    <3> QED  BY <2>2, <3>1, ConcatAdjacentSubSeq DEF Joined, Piece
  <2> HIDE DEF first, more
  <2>5. Joined(Joined(wired, first), more) = Joined(wired, Piece(cells, 0, cut[k + 1]))
    BY <2>3, <2>4, JoinedTwice
  <2>6. Joined(wired, first) \in Seq(Cell)
    BY <2>3, JoinedTyped
  <2>7. Ready(Cell, f[k].decoder, Joined(wired, first), Joined(pre, f[k].records))
    BY <2>1 DEF first
  <2>8. /\ DOMAIN Fed(f[k], more) = {"decoder", "records"}
        /\ Fed(f[k], more).records \in Seq(Seq(Cell))
        /\ Ready(Cell, Fed(f[k], more).decoder, Joined(Joined(wired, first), more),
                 Joined(pre, Fed(f[k], more).records))
    <3>1. DOMAIN f[k] = {"decoder", "records"} /\ f[k].records \in Seq(Seq(Cell))
      BY <2>1
    <3> QED  BY <1>3, <2>3, <2>6, <2>7, <3>1, FedReady
  <2>9. Loop(k + 1)
    BY <2>2, <2>5, <2>8
  <2> QED  BY <2>9
<1> HIDE DEF T
<1>6. n \in T
  <2>1. n \in 0..n
    OBVIOUS
  <2> QED  BY <1>4, <1>5, <2>1, Induction
<1>7. Loop(n)
  BY <1>6 DEF T
<1>8. Piece(cells, 0, Len(cells)) = cells
  BY SubSeqFull DEF Piece
<1> QED  BY <1>1, <1>2, <1>7, <1>8

\* At the end of the stream.
LEMMA PushEofWhole ==
    ASSUME NEW Cell, NEW cells \in Seq(Cell), NEW d, NEW pre, Ready(Cell, d, cells, pre)
    PROVE  /\ PushEof(d).records \in Seq(Seq(Cell))
           /\ Joined(pre, PushEof(d).records) = RecordsOf(cells, TRUE)
<1> DEFINE s == ScanRecords(d, TRUE)
           ends == RecordEnds(cells, TRUE)
           n == Len(cells)
           cuts == ends \cup ({n} \ {0})
<1>1. pre \in Seq(Seq(Cell)) /\ n \in Nat /\ <<>> \in Seq(Cell)
  BY LenProperties, EmptySeq DEF Ready
<1>2. Fuller(d, <<>>) = d /\ Joined(cells, <<>>) = cells
  <2>1. Joined(d.pending, <<>>) = d.pending
    BY ConcatEmptySeq DEF Ready, Joined
  <2>2. d \in [pending : Seq(Cell), scan : Nat, line : Nat]
    BY DEF Ready
  <2>3. Joined(cells, <<>>) = cells
    BY ConcatEmptySeq DEF Joined
  <2> QED  BY <2>1, <2>2, <2>3 DEF Fuller
<1>3. /\ s.records \in Seq(Seq(Cell))
      /\ \E b \in 0..n :
            /\ s.decoder.pending = Piece(cells, b, n)
            /\ IsLast(ends, n, b)
            /\ Joined(pre, s.records) = PiecesOf(cells, ends)
  <2>1. /\ ScanRecords(Fuller(d, <<>>), TRUE).records \in Seq(Seq(Cell))
        /\ Remains(Joined(cells, <<>>), ScanRecords(Fuller(d, <<>>), TRUE).decoder.pending,
                   Joined(pre, ScanRecords(Fuller(d, <<>>), TRUE).records))
    BY <1>1, ScanReady
  <2> QED  BY <1>2, <2>1 DEF Remains
<1>4. PICK b \in 0..n :
          /\ s.decoder.pending = Piece(cells, b, n)
          /\ IsLast(ends, n, b)
          /\ Joined(pre, s.records) = PiecesOf(cells, ends)
  BY <1>3
<1>5. PushEof(d).records =
          IF s.decoder.pending = <<>> THEN s.records ELSE Append(s.records, s.decoder.pending)
  BY DEF PushEof
<1>6. RecordsOf(cells, TRUE) = PiecesOf(cells, cuts)
  BY DEF RecordsOf
<1>7. ends \in SUBSET (1..n) /\ ends \in SUBSET (Nat \ {0})
  BY StopsAt
<1> HIDE DEF s, ends
<1>8. CASE b = n
  <2>1. Piece(cells, b, n) = <<>>
    BY <1>1, <1>8, SubSeqEmpty DEF Piece
  <2>2. cuts = ends
    <3>1. n = 0 \/ n \in ends
      BY <1>4, <1>8 DEF IsLast
    <3> QED  BY <3>1
  <2> QED  BY <1>3, <1>4, <1>5, <1>6, <2>1, <2>2
<1>9. CASE b # n
  <2> DEFINE rest == Piece(cells, b, n)
  <2>1. b < n /\ n # 0 /\ n \in cuts /\ cuts = ends \cup {n}
    BY <1>1, <1>9
  <2>2. n \notin ends
    <3>1. n \in ends => n \in UpTo(ends, n)
      BY <1>1 DEF UpTo
    <3> QED  BY <1>1, <1>4, <2>1, <3>1 DEF IsLast
  <2>3. rest # <<>> /\ rest \in Seq(Cell)
    <3>1. IsRest(rest, cells, b)
      BY DEF IsRest
    <3>2. rest \in Seq(Cell) /\ Len(rest) = n - b
      BY <3>1, RestOf
    <3> HIDE DEF rest
    <3>3. Len(rest) # 0
      BY <1>1, <2>1, <3>2
    <3> QED  BY <3>2, <3>3, EmptySeq
  \* The last cut is behind all others.
  <2>4. UpTo(cuts, n - 1) = ends /\ UpTo(cuts, n) = cuts
    <3>1. \A c \in ends : c <= n - 1
      <4> SUFFICES ASSUME NEW c \in ends PROVE c <= n - 1
        OBVIOUS
      <4>1. c \in 1..n /\ c # n
        BY <1>7, <2>2
      <4> QED  BY <1>1, <4>1
    <3>2. ~(n <= n - 1) /\ n <= n /\ \A c \in ends : c <= n
      BY <1>1, <1>7, <3>1
    <3> HIDE DEF n
    <3> QED  BY <2>1, <3>1, <3>2 DEF UpTo
  <2>5. NextCut(cuts, n - 1, b, n)
    <3>1. b \in 0..(n - 1) /\ n > n - 1
      BY <1>1, <2>1
    <3>2. b = 0 \/ b \in cuts
      BY <1>4 DEF IsLast
    <3>3. \A c \in UpTo(cuts, n - 1) : c <= b
      <4>1. ends = UpTo(ends, n)
        <5>1. \A c \in ends : c <= n
          BY <1>1, <1>7
        <5> HIDE DEF n
        <5> QED  BY <5>1 DEF UpTo
      <4> QED  BY <1>4, <2>4, <4>1 DEF IsLast
    <3>4. \A c \in cuts : c <= n - 1 \/ c = n
      <4>1. \A c \in ends : c <= n - 1
        BY <2>4 DEF UpTo
      <4> QED  BY <2>1, <4>1
    <3> HIDE DEF cuts
    <3> QED  BY <2>1, <3>1, <3>2, <3>3, <3>4 DEF NextCut, IsLast
  <2>6. Joined(pre, s.records) \in Seq(Seq(Cell))
    BY <1>1, <1>3, JoinedTyped
  <2>7. cuts \in SUBSET (Nat \ {0}) /\ n - 1 \in Nat
    <3>1. n \in Nat \ {0} /\ n - 1 \in Nat
      BY <1>1, <2>1
    <3> HIDE DEF n
    <3> QED  BY <1>7, <2>1, <3>1
  <2> HIDE DEF rest, cuts
  <2>8. PiecesOf(cells, UpTo(cuts, n)) = Longer(PiecesOf(cells, UpTo(cuts, n - 1)), rest)
    <3>1. rest = Piece(cells, b, n)
      BY DEF rest
    <3>2. PiecesOf(cells, UpTo(cuts, n - 1)) \in Seq(Seq(Cell))
      BY <1>4, <2>4, <2>6
    <3> QED  BY <2>3, <2>5, <2>7, <3>1, <3>2, OneMorePiece
  <2>9. Joined(pre, Append(s.records, rest)) = Longer(Joined(pre, s.records), rest)
    BY <1>1, <1>3, <2>3, JoinedLonger
  <2>10. PushEof(d).records = Append(s.records, rest)
    BY <1>4, <1>5, <2>3 DEF rest
  <2>11. Append(s.records, rest) \in Seq(Seq(Cell))
    BY <1>3, <2>3, AppendProperties
  <2> QED  BY <1>4, <1>6, <2>4, <2>8, <2>9, <2>10, <2>11
<1> QED  BY <1>8, <1>9

-----------------------------------------------------------------------------
(* The consumer. *)

\* The IDs that some records name: those without an error event.
IdsIn(route, bodies) == {ReceiptId(body, route) : body \in bodies} \ {"none"}
BodiesAt(k, record) ==
    IF EventName(LinesOf(k, record)) = "error" THEN {} ELSE Json(DataOf(k, record))
IdsOf(route, records) == UNION {IdsIn(route, BodiesAt(k, records[k])) : k \in DOMAIN records}

LEMMA NoDataNoBody ==
    ASSUME NEW data, NoData(data) \/ Is(data, "done")
    PROVE  Json(data) = {}
<1>1. CASE DOMAIN data = {}
  BY <1>1 DEF Json
<1>2. CASE Is(data, "empty") \/ Is(data, "done")
  <2>1. PICK k \in DOMAIN data : DOMAIN data = {k} /\ data[k].value # "json"
    BY <1>2 DEF Is
  <2>2. \A j \in DOMAIN data : data[j].value # "json"
    BY <2>1
  <2> QED  BY <2>2 DEF Json
<1> QED  BY <1>1, <1>2 DEF NoData

LEMMA OneBody ==
    ASSUME NEW data, NEW b \in Json(data)
    PROVE  Json(data) = {b}
<1> DEFINE solid == {k \in DOMAIN data : data[k].value # "empty"}
           those == {j \in solid : solid = {j} /\ data[j].value = "json"}
<1>1. Json(data) = {data[k].body : k \in those}
  BY DEF Json
<1> HIDE DEF solid
<1>2. PICK k \in those : b = data[k].body
  BY <1>1
<1>3. those = {k}
  BY <1>2
<1> HIDE DEF those
<1> QED  BY <1>1, <1>2, <1>3

\* transform: what is passed on names the ID of before or is the first to
\* name one.
LEMMA TransformNames ==
    ASSUME NEW record, NEW lines, NEW data, NEW key, NEW id, NEW route,
           Transform(record, lines, data, key, id, route).ok
    PROVE  {Transform(record, lines, data, key, id, route).id} \ {"none"} =
               ({id} \ {"none"})
                   \cup IdsIn(route, IF EventName(lines) = "error" THEN {} ELSE Json(data))
<1> DEFINE t == Transform(record, lines, data, key, id, route)
           bodies == IF EventName(lines) = "error" THEN {} ELSE Json(data)
<1>0. Utf8(record)
  BY DEF Transform, Refused
<1>1. CASE NoData(data) \/ Is(data, "done") \/ EventName(lines) = "error"
  <2>1. t.id = id
    BY <1>0, <1>1 DEF Transform, Passed
  <2>2. bodies = {}
    BY <1>1, NoDataNoBody
  <2> HIDE DEF t, bodies
  <2>3. {t.id} \ {"none"} = ({id} \ {"none"}) \cup IdsIn(route, bodies)
    BY <2>1, <2>2 DEF IdsIn
  <2> QED  BY <2>3 DEF t, bodies
<1>2. CASE ~(NoData(data) \/ Is(data, "done") \/ EventName(lines) = "error")
  <2>1. t = Parsed(record, Json(data), key, id, route) /\ bodies = Json(data)
    BY <1>0, <1>2 DEF Transform
  <2>2. CASE Json(data) = {}
    <3>1. t.id = id
      BY <2>1, <2>2 DEF Parsed, Passed, Refused
    <3>2. bodies = {}
      BY <2>1, <2>2
    <3> HIDE DEF t, bodies
    <3>3. {t.id} \ {"none"} = ({id} \ {"none"}) \cup IdsIn(route, bodies)
      BY <3>1, <3>2 DEF IdsIn
    <3> QED  BY <3>3 DEF t, bodies
  <2>3. CASE Json(data) # {}
    <3> DEFINE body == CHOOSE b \in Json(data) : TRUE
               found == ReceiptId(body, route)
    <3>1. body \in Json(data)
      BY <2>3
    <3>2. t = Identified(record, body, found, key, id)
      BY <2>1, <2>3 DEF Parsed
    <3> HIDE DEF body
    <3>3. bodies = {body}
      BY <2>1, <3>1, OneBody
    <3> HIDE DEF found, bodies
    <3>4. ~(found # "none" /\ id \notin {"none", found})
      <4>1. Identified(record, body, found, key, id).ok
        BY <3>2
      <4> HIDE DEF t
      <4> QED  BY <4>1 DEF Identified, Refused
    <3>5. t.id = IF found = "none" THEN id ELSE found
      <4> DEFINE kept == IF found = "none" THEN id ELSE found
      <4> HIDE DEF kept
      <4>1. \A opened : Decrypted(record, body, opened, kept).id = kept
        BY DEF Decrypted, Passed, Refused
      <4>2. Identified(record, body, found, key, id).id = kept
        BY <3>4, <4>1 DEF Identified, Passed, Refused, kept
      <4> QED  BY <3>2, <4>2 DEF kept
    <3>6. IdsIn(route, bodies) = {found} \ {"none"}
      BY <3>3 DEF IdsIn, found
    <3> HIDE DEF t
    <3>7. {t.id} \ {"none"} = ({id} \ {"none"}) \cup ({found} \ {"none"})
      BY <3>4, <3>5
    <3> QED  BY <3>6, <3>7 DEF t, bodies
  <2> QED  BY <2>2, <2>3
<1> QED  BY <1>1, <1>2

\* A Messages stream so far: what each record is, and what its lifecycle has
\* noticed of them.
IsEvent(k, record) == ~NoData(DataOf(k, record))
EventBody(k, record) == CHOOSE body \in Json(DataOf(k, record)) : TRUE
IsOf(k, record, type) == IsEvent(k, record) /\ EventBody(k, record).type = type
WellFormed(k, record) ==
    /\ Last(LinesOf(k, record)) = <<>>
    /\ IsEvent(k, record) =>
          /\ Json(DataOf(k, record)) # {}
          /\ EventBody(k, record).type \notin {"none", "error"}
          /\ EventName(LinesOf(k, record)) \in {"none", EventBody(k, record).type}
MessageOK(state, records) ==
    /\ state \in [started : BOOLEAN, stopped : BOOLEAN]
    /\ \A k \in DOMAIN records : WellFormed(k, records[k])
    /\ state.started <=> \E k \in DOMAIN records : IsOf(k, records[k], "message_start")
    /\ \A j, k \in DOMAIN records :
          IsOf(j, records[j], "message_start") /\ IsOf(k, records[k], "message_start") => j = k
    /\ state.stopped <=> \E k \in DOMAIN records : IsOf(k, records[k], "message_stop")
    /\ \A j, k \in DOMAIN records :
          IsOf(k, records[k], "message_stop") /\ IsEvent(j, records[j]) => j <= k

LEMMA ObserveHolds ==
    ASSUME NEW state \in [started : BOOLEAN, stopped : BOOLEAN], NEW k, NEW record,
           Observe(state, LinesOf(k, record), DataOf(k, record)).ok
    PROVE  LET after == Observe(state, LinesOf(k, record), DataOf(k, record)).state
           IN /\ after \in [started : BOOLEAN, stopped : BOOLEAN]
              /\ WellFormed(k, record)
              /\ ~IsEvent(k, record) => after = state
              /\ IsEvent(k, record) =>
                    /\ ~state.stopped
                    /\ after.started <=> state.started \/ IsOf(k, record, "message_start")
                    /\ ~(state.started /\ IsOf(k, record, "message_start"))
                    /\ after.stopped <=> IsOf(k, record, "message_stop")
<1> DEFINE lines == LinesOf(k, record)
           data == DataOf(k, record)
           name == EventName(lines)
           body == EventBody(k, record)
           o == Observe(state, lines, data)
<1>1. ~(lines = <<>> \/ Last(lines) # <<>> \/ EventName(lines) = "error")
  BY DEF Observe
<1>2. CASE NoData(data)
  <2>1. o.state = state
    BY <1>1, <1>2 DEF Observe
  <2> QED  BY <1>1, <1>2, <2>1 DEF WellFormed, IsEvent
<1>3. CASE ~NoData(data)
  <2>1. Json(data) # {} /\ o = Observed(state, body, name)
    BY <1>1, <1>3 DEF Observe, EventBody
  <2>7. Observed(state, body, name).ok
    BY <2>1
  <2> HIDE DEF lines, data, name, body
  <2>2. ~IllFormed(state, body, name)
    BY <2>7 DEF Observed
  <2>3. o.state = [started |-> state.started \/ body.type = "message_start",
                   stopped |-> body.type = "message_stop"]
    BY <2>1 DEF Observed
  <2> HIDE DEF o
  <2>4. /\ o.state \in [started : BOOLEAN, stopped : BOOLEAN]
        /\ o.state.started <=> state.started \/ body.type = "message_start"
        /\ o.state.stopped <=> body.type = "message_stop"
    <3>1. /\ o.state.started = (state.started \/ body.type = "message_start")
          /\ o.state.stopped = (body.type = "message_stop")
      BY <2>3
    <3>2. (state.started \/ body.type = "message_start") \in BOOLEAN
      OBVIOUS
    <3>3. (body.type = "message_stop") \in BOOLEAN
      OBVIOUS
    <3> DEFINE x == state.started \/ body.type = "message_start"
               y == body.type = "message_stop"
    <3>4. o.state = [started |-> x, stopped |-> y] /\ x \in BOOLEAN /\ y \in BOOLEAN
      BY <2>3
    <3> HIDE DEF x, y
    <3>5. o.state \in [started : BOOLEAN, stopped : BOOLEAN]
      BY <3>4
    <3> QED  BY <3>1, <3>5
  <2>5. /\ ~state.stopped /\ body.type \notin {"none", "error"} /\ name \in {"none", body.type}
        /\ ~(body.type = "message_start" /\ state.started)
    BY <2>2 DEF IllFormed
  <2>6. IsEvent(k, record) /\ WellFormed(k, record)
    BY <1>1, <1>3, <2>1, <2>5 DEF WellFormed, IsEvent, lines, data, name, body
  <2> QED  BY <2>4, <2>5, <2>6 DEF IsOf, o, lines, data, body
<1> QED  BY <1>2, <1>3

\* One sequence is another one and one more element.
Extends(all, rs, n, r) ==
    /\ DOMAIN all = DOMAIN rs \cup {n}
    /\ all[n] = r
    /\ \A k \in DOMAIN rs : all[k] = rs[k] /\ k \in Nat /\ k < n
    /\ n \in Nat

LEMMA LongerAt ==
    ASSUME NEW S, NEW rs \in Seq(S), NEW r \in S
    PROVE  Longer(rs, r) \in Seq(S) /\ Extends(Longer(rs, r), rs, Len(rs) + 1, r)
<1>1. /\ Longer(rs, r) \in Seq(S) /\ Len(rs) \in Nat
      /\ Len(Longer(rs, r)) = Len(rs) + 1
      /\ Longer(rs, r)[Len(rs) + 1] = r
      /\ \A k \in 1..Len(rs) : Longer(rs, r)[k] = rs[k]
  BY AppendProperties, LenProperties DEF Longer
<1>2. DOMAIN rs = 1..Len(rs) /\ DOMAIN Longer(rs, r) = 1..Len(Longer(rs, r))
  BY <1>1, LenProperties
<1>3. 1..(Len(rs) + 1) = (1..Len(rs)) \cup {Len(rs) + 1}
  BY <1>1
<1>4. \A k \in 1..Len(rs) : k \in Nat /\ k < Len(rs) + 1
  BY <1>1
<1> QED  BY <1>1, <1>2, <1>3, <1>4 DEF Extends

\* One more record names the IDs it names.
LEMMA IdsGrow ==
    ASSUME NEW S, NEW rs \in Seq(S), NEW r \in S, NEW route
    PROVE  IdsOf(route, Longer(rs, r)) =
               IdsOf(route, rs) \cup IdsIn(route, BodiesAt(Len(rs) + 1, r))
<1> DEFINE all == Longer(rs, r)
           n == Len(rs) + 1
           At(k, record) == IdsIn(route, BodiesAt(k, record))
           was == DOMAIN rs
<1>0. Extends(all, rs, n, r)
  BY LongerAt
<1> HIDE DEF all, n
<1>1. DOMAIN all = was \cup {n} /\ all[n] = r /\ \A k \in was : all[k] = rs[k]
  BY <1>0 DEF Extends
<1> USE DEF all, n
<1>2. IdsOf(route, all) = UNION {At(k, all[k]) : k \in DOMAIN all}
  BY DEF IdsOf
<1>3. IdsOf(route, rs) = UNION {At(k, rs[k]) : k \in was}
  BY DEF IdsOf
<1> HIDE DEF all, n, At, was
<1>4. UNION {At(k, all[k]) : k \in was \cup {n}} = (UNION {At(k, rs[k]) : k \in was}) \cup At(n, r)
  <2>1. \A x : (\E k \in was \cup {n} : x \in At(k, all[k])) <=> (\E k \in was : x \in At(k, rs[k])) \/ x \in At(n, r)
    BY <1>1
  <2>2. \A x : x \in UNION {At(k, all[k]) : k \in was \cup {n}} <=> \E k \in was \cup {n} : x \in At(k, all[k])
    OBVIOUS
  <2>3. \A x : x \in UNION {At(k, rs[k]) : k \in was} <=> \E k \in was : x \in At(k, rs[k])
    OBVIOUS
  <2> QED  BY <2>1, <2>2, <2>3
<1>5. IdsOf(route, all) = IdsOf(route, rs) \cup At(n, r)
  BY <1>1, <1>2, <1>3, <1>4
<1> QED  BY <1>5 DEF all, n, At

\* observe: what it takes keeps a Messages stream in order.
LEMMA MessageGrows ==
    ASSUME NEW S, NEW rs \in Seq(S), NEW r \in S, NEW state, MessageOK(state, rs),
           Observe(state, LinesOf(Len(rs) + 1, r), DataOf(Len(rs) + 1, r)).ok
    PROVE  MessageOK(Observe(state, LinesOf(Len(rs) + 1, r), DataOf(Len(rs) + 1, r)).state, Longer(rs, r))
<1> DEFINE n == Len(rs) + 1
           after == Observe(state, LinesOf(n, r), DataOf(n, r)).state
           all == Longer(rs, r)
           was == DOMAIN rs
           Starting(k, record) == IsOf(k, record, "message_start")
           Stopped(k, record) == IsOf(k, record, "message_stop")
<1>0. Extends(all, rs, n, r)
  BY LongerAt
<1> HIDE DEF all, n
<1>1. DOMAIN all = was \cup {n} /\ all[n] = r /\ \A k \in was : all[k] = rs[k]
  BY <1>0 DEF Extends
<1> USE DEF all, n
<1>2. n \in Nat /\ \A k \in was : k \in Nat /\ k < n
  <2> HIDE DEF n, all
  <2> QED  BY <1>0 DEF Extends
<1>3. /\ after \in [started : BOOLEAN, stopped : BOOLEAN]
      /\ WellFormed(n, r)
      /\ ~IsEvent(n, r) => after = state
      /\ IsEvent(n, r) =>
            /\ ~state.stopped
            /\ after.started <=> state.started \/ Starting(n, r)
            /\ ~(state.started /\ Starting(n, r))
            /\ after.stopped <=> Stopped(n, r)
  <2>1. state \in [started : BOOLEAN, stopped : BOOLEAN]
    BY DEF MessageOK
  <2> HIDE DEF n
  <2>2. Observe(state, LinesOf(n, r), DataOf(n, r)).ok
    BY DEF n
  <2> QED  BY <2>1, <2>2, ObserveHolds
<1>4. /\ \A k \in was : WellFormed(k, rs[k])
      /\ state.started <=> \E k \in was : Starting(k, rs[k])
      /\ \A j, k \in was : Starting(j, rs[j]) /\ Starting(k, rs[k]) => j = k
      /\ state.stopped <=> \E k \in was : Stopped(k, rs[k])
      /\ \A j, k \in was : Stopped(k, rs[k]) /\ IsEvent(j, rs[j]) => j <= k
  BY DEF MessageOK
<1>5. /\ Starting(n, r) => IsEvent(n, r)
      /\ Stopped(n, r) => IsEvent(n, r)
      /\ \A k \in was : Stopped(k, rs[k]) => IsEvent(k, rs[k])
  BY DEF IsOf
<1> HIDE DEF n, after, all, was, Starting, Stopped
<1>6. \A k \in DOMAIN all : WellFormed(k, all[k])
  BY <1>1, <1>3, <1>4
<1>7. after.started <=> \E k \in DOMAIN all : Starting(k, all[k])
  BY <1>1, <1>3, <1>4, <1>5
<1>8. \A j, k \in DOMAIN all : Starting(j, all[j]) /\ Starting(k, all[k]) => j = k
  BY <1>1, <1>3, <1>4, <1>5
<1>9. after.stopped <=> \E k \in DOMAIN all : Stopped(k, all[k])
  BY <1>1, <1>3, <1>4, <1>5
<1>10. \A j, k \in DOMAIN all : Stopped(k, all[k]) /\ IsEvent(j, all[j]) => j <= k
  <2> SUFFICES ASSUME NEW j \in DOMAIN all, NEW k \in DOMAIN all,
                      Stopped(k, all[k]), IsEvent(j, all[j])
               PROVE  j <= k
    OBVIOUS
  <2>1. CASE j \in was /\ k \in was
    BY <1>1, <1>4, <2>1
  <2>2. CASE j = n /\ k \in was
    <3>1. state.stopped
      BY <1>1, <1>4, <2>2
    <3> QED  BY <1>1, <1>3, <2>2, <3>1
  <2>3. CASE k = n
    BY <1>1, <1>2, <2>3
  <2> QED  BY <1>1, <2>1, <2>2, <2>3
<1>11. MessageOK(after, all)
  BY <1>3, <1>6, <1>7, <1>8, <1>9, <1>10 DEF MessageOK, Starting, Stopped
<1> QED  BY <1>11 DEF after, all, n

\* What the generator of a body keeps, and what it was given so far.
HasStream(s) == DOMAIN s = {"ok", "id", "lifecycle", "first", "yielded"}
DeliveredOK(c, s, records) ==
    /\ HasStream(s)
    /\ s.ok =>
          /\ \E S : s.yielded \in Seq(S)
          /\ records # <<>> => s.yielded # <<>>
          /\ ~c.e2ee => s.yielded = records
          /\ s.first <=> ~c.helper /\ records = <<>>
          /\ ~c.helper => {s.id} \ {"none"} = IdsOf(c.route, records)
          /\ ~c.helper /\ c.route = "messages" => MessageOK(s.lifecycle, records)

\* What the handling of a record makes of it.
SeenOf(c, s, lines, data) ==
    IF c.route = "messages" THEN Observe(s.lifecycle, lines, data)
    ELSE [ok |-> TRUE, state |-> s.lifecycle]
TransformOf(c, s, parsed, lines, data) == Transform(parsed, lines, data, ReplyKey(c), s.id, c.route)
ParsedOf(s, record) == IF s.first /\ record[1] = BOM THEN Tail(record) ELSE record

YieldedOK(c, s, record, next) ==
    LET parsed == ParsedOf(s, record)
        seen == SeenOf(c, s, Lines(parsed), Data(Lines(parsed)))
        t == TransformOf(c, s, parsed, Lines(parsed), Data(Lines(parsed)))
    IN /\ HasStream(next)
       /\ next.ok =>
             /\ seen.ok /\ t.ok
             /\ next.id = t.id
             /\ next.lifecycle = seen.state
             /\ next.first = FALSE
             /\ next.yielded = Longer(s.yielded, IF c.e2ee THEN t.out ELSE record)

LEMMA RecordYields ==
    ASSUME NEW c, NEW s, NEW record, s.ok, HasStream(s)
    PROVE  YieldedOK(c, s, record, DeliverRecord(c, s, record))
<1> DEFINE parsed == ParsedOf(s, record)
           lines == Lines(parsed)
           data == Data(lines)
           seen == SeenOf(c, s, lines, data)
           t == TransformOf(c, s, parsed, lines, data)
<1>1. DeliverRecord(c, s, record) = Yield(c, s, record, seen, t)
  BY DEF DeliverRecord, DeliverParsed, Deliver, ParsedOf, SeenOf, TransformOf
<1> HIDE DEF seen, t
<1>2. CASE seen.ok /\ t.ok
  <2> DEFINE out == Longer(s.yielded, IF c.e2ee THEN t.out ELSE record)
  <2>1. Yield(c, s, record, seen, t) =
            [ok |-> TRUE, id |-> t.id, lifecycle |-> seen.state, first |-> FALSE, yielded |-> out]
    BY <1>2 DEF Yield, Longer
  <2> DEFINE next == Yield(c, s, record, seen, t)
  <2> HIDE DEF out, next
  <2>2. /\ HasStream(next) /\ next.id = t.id /\ next.lifecycle = seen.state
        /\ next.first = FALSE /\ next.yielded = out
    BY <2>1 DEF HasStream, next
  <2>3. YieldedOK(c, s, record, next)
    BY <1>2, <2>2 DEF YieldedOK, seen, t, out
  <2> QED  BY <1>1, <2>3 DEF next
<1>3. CASE ~(seen.ok /\ t.ok)
  <2>1. Yield(c, s, record, seen, t) = [s EXCEPT !.ok = FALSE]
    BY <1>3 DEF Yield
  <2> DEFINE next == [s EXCEPT !.ok = FALSE]
  <2>2. ~next.ok /\ HasStream(next)
    BY DEF HasStream
  <2> HIDE DEF next
  <2>3. YieldedOK(c, s, record, next)
    BY <2>2 DEF YieldedOK
  <2> QED  BY <1>1, <2>1, <2>3 DEF next
<1> QED  BY <1>2, <1>3

AlsoNames(route, id, bodies, names) == {names} \ {"none"} = ({id} \ {"none"}) \cup IdsIn(route, bodies)
LEMMA TransformAlsoNames ==
    ASSUME NEW record, NEW lines, NEW data, NEW key, NEW id, NEW route,
           Transform(record, lines, data, key, id, route).ok
    PROVE  AlsoNames(route, id, IF EventName(lines) = "error" THEN {} ELSE Json(data),
                     Transform(record, lines, data, key, id, route).id)
BY TransformNames DEF AlsoNames

\* One record keeps what is said of the generator, of one more record.
LEMMA RecordDelivered ==
    ASSUME NEW Cell, NEW c, NEW s, NEW rs \in Seq(Seq(Cell)), NEW r \in Seq(Cell), DeliveredOK(c, s, rs)
    PROVE  DeliveredOK(c, DeliverRecord(c, s, r), Longer(rs, r))
<1> DEFINE next == DeliverRecord(c, s, r)
           all == Longer(rs, r)
           n == Len(rs) + 1
           parsed == ParsedOf(s, r)
           lines == Lines(parsed)
           data == Data(lines)
           seen == SeenOf(c, s, lines, data)
           t == TransformOf(c, s, parsed, lines, data)
           out == IF c.e2ee THEN t.out ELSE r
<1>1. CASE ~s.ok
  <2>1. next = s
    BY <1>1 DEF DeliverRecord
  <2> HIDE DEF next
  <2> QED  BY <1>1, <2>1 DEF DeliveredOK, next
<1>2. CASE s.ok
  <2>1. /\ HasStream(next)
        /\ next.ok =>
              /\ seen.ok /\ t.ok
              /\ next.id = t.id
              /\ next.lifecycle = seen.state
              /\ next.first = FALSE
              /\ next.yielded = Longer(s.yielded, out)
    <3>1. HasStream(s)
      BY DEF DeliveredOK
    <3>2. YieldedOK(c, s, r, next)
      BY <1>2, <3>1, RecordYields
    <3> HIDE DEF next
    <3> QED  BY <3>2 DEF YieldedOK
  <2>2. /\ \E S : s.yielded \in Seq(S)
        /\ ~c.e2ee => s.yielded = rs
        /\ s.first <=> ~c.helper /\ rs = <<>>
        /\ ~c.helper => {s.id} \ {"none"} = IdsOf(c.route, rs)
        /\ ~c.helper /\ c.route = "messages" => MessageOK(s.lifecycle, rs)
    BY <1>2 DEF DeliveredOK
  <2>3. all # <<>> /\ n \in Nat /\ (n = 1 <=> rs = <<>>)
    <3>1. Extends(all, rs, n, r)
      BY LongerAt
    <3>2. DOMAIN all # {}
      BY <3>1 DEF Extends
    <3>3. n \in Nat /\ (Len(rs) = 0 <=> rs = <<>>) /\ Len(rs) \in Nat
      BY <3>1, EmptySeq, LenProperties DEF Extends
    <3> HIDE DEF all
    <3> QED  BY <3>2, <3>3
  <2> SUFFICES ASSUME next.ok
               PROVE  DeliveredOK(c, next, all)
    BY <2>1 DEF DeliveredOK
  <2>4. (\E S : next.yielded \in Seq(S)) /\ next.yielded # <<>>
    <3>1. PICK S : s.yielded \in Seq(S)
      BY <2>2
    <3> DEFINE More == S \cup {out}
    <3>2. s.yielded \in Seq(More) /\ out \in More
      BY <3>1
    <3> HIDE DEF More, out
    <3>3. /\ Longer(s.yielded, out) \in Seq(More)
          /\ Extends(Longer(s.yielded, out), s.yielded, Len(s.yielded) + 1, out)
      BY <3>2, LongerAt
    <3>4. Longer(s.yielded, out) # <<>>
      BY <3>3 DEF Extends
    <3> QED  BY <2>1, <3>3, <3>4
  <2>5. ~c.e2ee => next.yielded = all
    BY <2>1, <2>2
  <2>6. ~c.helper => lines = LinesOf(n, r) /\ data = DataOf(n, r)
    <3>1. ~c.helper => parsed = Unmarked(n, r)
      BY <2>2, <2>3 DEF ParsedOf, Unmarked
    <3> HIDE DEF parsed
    <3> QED  BY <3>1 DEF LinesOf, DataOf
  <2>7. ~c.helper => {next.id} \ {"none"} = IdsOf(c.route, all)
    <3> SUFFICES ASSUME ~c.helper  PROVE {next.id} \ {"none"} = IdsOf(c.route, all)
      OBVIOUS
    <3> DEFINE new == IdsIn(c.route, IF EventName(lines) = "error" THEN {} ELSE Json(data))
    <3>1. {t.id} \ {"none"} = ({s.id} \ {"none"}) \cup new
      <4>1. t = Transform(parsed, lines, data, ReplyKey(c), s.id, c.route)
        BY DEF TransformOf
      <4>2. Transform(parsed, lines, data, ReplyKey(c), s.id, c.route).ok
        BY <2>1, <4>1
      <4> DEFINE key == ReplyKey(c)
                 bodies == IF EventName(lines) = "error" THEN {} ELSE Json(data)
      <4>3. AlsoNames(c.route, s.id, bodies, Transform(parsed, lines, data, key, s.id, c.route).id)
        <5> HIDE DEF t, lines, data, parsed, key
        <5> QED  BY <4>2, TransformAlsoNames DEF key
      <4>4. AlsoNames(c.route, s.id, bodies, t.id)
        BY <4>1, <4>3
      <4> HIDE DEF t, bodies
      <4>5. {t.id} \ {"none"} = ({s.id} \ {"none"}) \cup IdsIn(c.route, bodies)
        BY <4>4 DEF AlsoNames
      <4> QED  BY <4>5 DEF bodies
    <3>2. new = IdsIn(c.route, BodiesAt(n, r))
      BY <2>6 DEF BodiesAt
    <3>3. IdsOf(c.route, all) = IdsOf(c.route, rs) \cup IdsIn(c.route, BodiesAt(n, r))
      BY IdsGrow
    <3> HIDE DEF new, t, next, all, n
    <3> QED  BY <2>1, <2>2, <3>1, <3>2, <3>3
  <2>8. ~c.helper /\ c.route = "messages" => MessageOK(next.lifecycle, all)
    <3> SUFFICES ASSUME ~c.helper, c.route = "messages"  PROVE MessageOK(next.lifecycle, all)
      OBVIOUS
    <3>1. seen = Observe(s.lifecycle, LinesOf(n, r), DataOf(n, r))
      BY <2>6 DEF SeenOf
    <3>2. next.lifecycle = seen.state /\ seen.ok
      BY <2>1
    <3> HIDE DEF seen, next
    <3> QED  BY <2>2, <3>1, <3>2, MessageGrows
  <2>9. next.first <=> ~c.helper /\ all = <<>>
    BY <2>1, <2>3
  <2> HIDE DEF next, all, t, seen, n
  <2> QED  BY <2>1, <2>4, <2>5, <2>7, <2>8, <2>9 DEF DeliveredOK
<1> QED  BY <1>1, <1>2

\* So do all the records of a chunk.
LEMMA AllDelivered ==
    ASSUME NEW Cell, NEW pre \in Seq(Seq(Cell)), NEW records \in Seq(Seq(Cell)),
           DeliveredOK(call, stream, pre)
    PROVE  DeliveredOK(call, Delivered(records), Joined(pre, records))
<1> DEFINE n == Len(records)
<1>1. n \in Nat
  BY LenProperties
<1>2. PICK f : DeliveryTrace(f, records, n)
  <2> HIDE DEF n
  <2>1. Len(records) = n
    BY DEF n
  <2> QED  BY <1>1, <2>1, DeliverySteps
<1>3. /\ f[0] = stream
      /\ \A k \in 0..(n - 1) : f[k + 1] = DeliverRecord(call, f[k], records[k + 1])
      /\ Delivered(records) = f[n]
  BY <1>2 DEF DeliveryTrace
<1> DEFINE Loop(k) == DeliveredOK(call, f[k], Joined(pre, Piece(records, 0, k)))
           T == {k \in Nat : Loop(k)}
<1>4. 0 \in T
  <2>1. Piece(records, 0, 0) = <<>>
    BY SubSeqEmpty DEF Piece
  <2>2. Joined(pre, <<>>) = pre
    BY ConcatEmptySeq DEF Joined
  <2> QED  BY <1>3, <2>1, <2>2
<1>5. ASSUME NEW k \in 0..(n - 1), k \in T  PROVE k + 1 \in T
  <2> DEFINE done == Piece(records, 0, k)
             r == records[k + 1]
  <2>1. Loop(k) /\ k + 1 \in 1..n
    BY <1>1, <1>5
  <2>2. r \in Seq(Cell)
    BY <2>1, ElementOfSeq
  <2>3. done \in Seq(Seq(Cell)) /\ Piece(records, 0, k + 1) = Append(done, r)
    <3>1. 0 \in 0..n /\ k \in 0..n /\ 1 \in 1..n /\ k + 1 \in 1..n /\ (k + 1) - 1 = k
      BY <1>1, <2>1
    <3>2. done \in Seq(Seq(Cell))
      BY <3>1, PieceTyped
    <3>3. SubSeq(records, 1, k + 1) = SubSeq(records, 1, (k + 1) - 1) \o <<records[k + 1]>>
      BY <3>1, SubSeqRecursiveSecond
    <3>4. done = SubSeq(records, 1, k) /\ Piece(records, 0, k + 1) = SubSeq(records, 1, k + 1)
      BY DEF Piece
    <3>5. SubSeq(records, 1, k + 1) = done \o <<r>>
      BY <3>1, <3>3, <3>4
    <3>6. Append(done, r) = done \o <<r>>
      BY <2>2, <3>2, AppendIsConcat
    <3> QED  BY <3>2, <3>4, <3>5, <3>6
  <2> HIDE DEF done, r
  <2>4. Joined(pre, Append(done, r)) = Longer(Joined(pre, done), r)
    BY <2>2, <2>3, JoinedLonger
  <2>5. Joined(pre, done) \in Seq(Seq(Cell))
    BY <2>3, JoinedTyped
  <2>6. DeliveredOK(call, DeliverRecord(call, f[k], r), Longer(Joined(pre, done), r))
    <3>1. DeliveredOK(call, f[k], Joined(pre, done))
      BY <2>1 DEF done
    <3> QED  BY <2>2, <2>5, <3>1, RecordDelivered
  <2>7. f[k + 1] = DeliverRecord(call, f[k], r)
    BY <1>3 DEF r
  <2>8. Loop(k + 1)
    BY <2>3, <2>4, <2>6, <2>7
  <2> QED  BY <2>8
<1> HIDE DEF T
<1>6. n \in T
  <2>1. n \in 0..n
    BY <1>1
  <2> HIDE DEF n
  <2> QED  BY <1>1, <1>4, <1>5, <2>1, Induction
<1>7. Loop(n)
  BY <1>6 DEF T
<1>8. Piece(records, 0, n) = records
  BY SubSeqFull DEF Piece
<1> QED  BY <1>3, <1>7, <1>8

\* The invariant of a stream: what its decoder holds and what its consumer
\* has been given are functions of the bytes so far.
StreamInv(Cell) ==
    /\ wire \in Seq(Cell)
    /\ pc \in {"ready", "sent"} => wire = <<>> /\ decoder = NewDecoder /\ stream = NewStream(call)
    /\ pc = "streaming" =>
          /\ Ready(Cell, decoder, wire, RecordsOf(wire, FALSE))
          /\ DeliveredOK(call, stream, RecordsOf(wire, FALSE))

LEMMA NoRecords ==
    ASSUME NEW Cell
    PROVE  RecordsOf(<<>>, FALSE) = <<>> /\ Ready(Cell, NewDecoder, <<>>, RecordsOf(<<>>, FALSE))
<1>1. <<>> \in Seq(Cell) /\ Len(<<>>) = 0 /\ <<>> \in Seq(Seq(Cell))
  BY EmptySeq
<1>2. LineStops(<<>>, FALSE) = {} /\ RecordEnds(<<>>, FALSE) = {}
  <2>1. /\ LineStops(<<>>, FALSE) \in SUBSET (1..Len(<<>>))
        /\ RecordEnds(<<>>, FALSE) \in SUBSET LineStops(<<>>, FALSE)
    BY <1>1, StopsAt
  <2>2. 1..Len(<<>>) = {}
    BY <1>1
  <2> QED  BY <2>1, <2>2
<1>3. PiecesOf(<<>>, {}) = <<>>
  BY NoPieces
<1>4. RecordsOf(<<>>, FALSE) = <<>>
  <2>1. RecordsOf(<<>>, FALSE) = PiecesOf(<<>>, RecordEnds(<<>>, FALSE) \cup {})
    BY DEF RecordsOf
  <2>2. RecordEnds(<<>>, FALSE) \cup {} = {}
    BY <1>2
  <2> QED  BY <1>3, <2>1, <2>2
<1>5. NewDecoder \in [pending : Seq(Cell), scan : Nat, line : Nat] /\ NewDecoder.pending = <<>>
      /\ NewDecoder.scan = 0 /\ NewDecoder.line = 0
  BY <1>1 DEF NewDecoder
<1>6. IsLast({}, 0, 0)
  BY DEF IsLast, UpTo
<1>7. IsRest(<<>>, <<>>, 0)
  <2>1. Piece(<<>>, 0, 0) = <<>>
    BY SubSeqEmpty DEF Piece
  <2> QED  BY <1>1, <2>1 DEF IsRest
<1>8. \E b \in 0..Len(<<>>) :
          /\ IsRest(NewDecoder.pending, <<>>, b)
          /\ b + NewDecoder.scan = Len(<<>>)
          /\ IsLast(LineStops(<<>>, FALSE), b + NewDecoder.scan, b + NewDecoder.line)
          /\ IsLast(RecordEnds(<<>>, FALSE), b + NewDecoder.scan, b)
          /\ b + NewDecoder.scan = 0
  <2>1. 0 \in 0..0 /\ 0 + 0 = 0
    OBVIOUS
  <2> QED  BY <1>1, <1>2, <1>5, <1>6, <1>7, <2>1
<1>9. <<>> = PiecesOf(<<>>, RecordEnds(<<>>, FALSE))
  BY <1>2, <1>3
<1>10. Ready(Cell, NewDecoder, <<>>, <<>>)
  BY <1>1, <1>5, <1>8, <1>9 DEF Ready
<1> QED  BY <1>4, <1>10

\* The records of a decoder that is ready are those of its bytes.
LEMMA ReadyRecords ==
    ASSUME NEW Cell, NEW d, NEW cells, NEW records, Ready(Cell, d, cells, records)
    PROVE  records = RecordsOf(cells, FALSE) /\ records \in Seq(Seq(Cell))
<1>1. RecordsOf(cells, FALSE) = PiecesOf(cells, RecordEnds(cells, FALSE) \cup {})
  BY DEF RecordsOf
<1> DEFINE ends == RecordEnds(cells, FALSE)
<1> HIDE DEF ends
<1>2. ends \cup {} = ends
  OBVIOUS
<1>3. records = PiecesOf(cells, ends) /\ records \in Seq(Seq(Cell))
  BY DEF Ready, ends
<1> QED  BY <1>1, <1>2, <1>3 DEF ends

\* A new generator has delivered nothing.
LEMMA NothingDelivered ==
    ASSUME NEW c
    PROVE  DeliveredOK(c, NewStream(c), <<>>)
<1> DEFINE s == NewStream(c)
<1>1. /\ HasStream(s) /\ s.id = "none" /\ s.lifecycle = NewLifecycle /\ s.first = ~c.helper
      /\ s.yielded = <<>>
  BY DEF NewStream, HasStream
<1> HIDE DEF s
<1>2. s.yielded \in Seq({})
  BY <1>1, EmptySeq
<1>3. DOMAIN <<>> = {}
  OBVIOUS
<1>4. IdsOf(c.route, <<>>) = {}
  BY <1>3 DEF IdsOf
<1>5. {s.id} \ {"none"} = {}
  BY <1>1
<1>6. MessageOK(NewLifecycle, <<>>)
  BY <1>3 DEF MessageOK, NewLifecycle
<1>7. s.first <=> ~c.helper
  BY <1>1
<1>8. DeliveredOK(c, s, <<>>)
  BY <1>1, <1>2, <1>4, <1>5, <1>6, <1>7 DEF DeliveredOK
<1> QED  BY <1>8 DEF s

\* A chunk.
LEMMA ChunkDelivered ==
    ASSUME NEW Cell, StreamInv(Cell), NEW cells \in Seq(Cell), Chunk(cells)
    PROVE  /\ wire' \in Seq(Cell)
           /\ Ready(Cell, decoder', wire', RecordsOf(wire', FALSE))
           /\ DeliveredOK(call, stream', RecordsOf(wire', FALSE))
<1> DEFINE before == RecordsOf(wire, FALSE)
           pushed == Push(decoder, cells)
<1>1. /\ wire \in Seq(Cell)
      /\ Ready(Cell, decoder, wire, before)
      /\ DeliveredOK(call, stream, before)
  BY DEF StreamInv, Chunk
<1>2. wire' = Joined(wire, cells) /\ decoder' = pushed.decoder /\ stream' = Delivered(pushed.records)
  BY DEF Chunk, Joined
<1> HIDE DEF before
<1>3. /\ pushed.records \in Seq(Seq(Cell))
      /\ Ready(Cell, pushed.decoder, Joined(wire, cells), Joined(before, pushed.records))
  BY <1>1, PushReady
<1>4. before \in Seq(Seq(Cell))
  BY <1>1, ReadyRecords
<1> HIDE DEF pushed
<1>5. Joined(before, pushed.records) = RecordsOf(Joined(wire, cells), FALSE)
  BY <1>3, ReadyRecords
<1>6. DeliveredOK(call, Delivered(pushed.records), Joined(before, pushed.records))
  BY <1>1, <1>3, <1>4, AllDelivered
<1>7. Joined(wire, cells) \in Seq(Cell)
  BY <1>1, JoinedTyped
<1> QED  BY <1>2, <1>3, <1>5, <1>6, <1>7

\* The end of a stream.
LEMMA EndDelivered ==
    ASSUME NEW Cell, StreamInv(Cell), EndStream
    PROVE  /\ wire' = wire /\ RecordsOf(wire, TRUE) \in Seq(Seq(Cell))
           /\ DeliveredOK(call, stream', RecordsOf(wire, TRUE))
           /\ receipt' = {} \/ /\ Register(stream'.id)
                               /\ ~call.helper /\ stream'.ok /\ stream'.id # "none"
                               /\ call.route = "messages" => Complete(stream'.lifecycle)
<1> DEFINE before == RecordsOf(wire, FALSE)
           records == PushEof(decoder).records
           after == Delivered(records)
<1>1. /\ wire \in Seq(Cell)
      /\ Ready(Cell, decoder, wire, before)
      /\ DeliveredOK(call, stream, before)
      /\ pc = "streaming" /\ StreamEnds(after)
  BY DEF StreamInv, EndStream
<1>2. records \in Seq(Seq(Cell)) /\ Joined(before, records) = RecordsOf(wire, TRUE)
  BY <1>1, PushEofWhole
<1>3. before \in Seq(Seq(Cell))
  BY <1>1, ReadyRecords
<1> HIDE DEF before, records
<1>4. DeliveredOK(call, after, Joined(before, records))
  BY <1>1, <1>2, <1>3, AllDelivered
<1>5. Joined(before, records) \in Seq(Seq(Cell))
  BY <1>2, <1>3, JoinedTyped
<1> HIDE DEF after
<1>6. stream' = after /\ wire' = wire
  BY <1>1 DEF StreamEnds, Finish
<1>7. receipt' = {} \/ /\ Register(after.id)
                       /\ ~call.helper /\ after.ok
                       /\ call.helper \/ after.id # "none"
                       /\ call.route = "messages" => Complete(after.lifecycle)
  BY <1>1 DEF StreamEnds, Finish
<1> QED  BY <1>2, <1>4, <1>5, <1>6, <1>7

LEMMA StreamInit ==
    ASSUME NEW Cell, Init
    PROVE  StreamInv(Cell)
BY EmptySeq DEF Init, StreamInv

LEMMA StreamStep ==
    ASSUME NEW Cell, \A c \in Calls : \A w \in Seq(Cell) : Arrivals(c, w) \subseteq Seq(Cell),
           CallInv, StreamInv(Cell), [Next]_vars
    PROVE  StreamInv(Cell)'
<1>1. ASSUME UNCHANGED <<call, wire, decoder, stream>>, pc' = pc \/ pc' \notin {"ready", "sent", "streaming"}
      PROVE  StreamInv(Cell)'
  BY <1>1 DEF StreamInv
<1>2. CASE Send \/ SystemoneCreate
  <2>1. /\ UNCHANGED <<call, wire, decoder, stream>> /\ pc' \in {"sent", "failed"} /\ pc = "ready"
    BY <1>2 DEF Send, SystemoneCreate, Leave, Give
  <2> QED  BY <2>1 DEF StreamInv
<1>3. ASSUME NEW head, Respond(head)  PROVE StreamInv(Cell)'
  <2>1. /\ call' = call /\ wire' = wire /\ decoder' = decoder /\ pc = "sent" /\ pc' \notin {"ready", "sent"}
        /\ pc' = "streaming" => stream' = stream
    BY <1>3 DEF Respond
  <2>2. wire = <<>> /\ decoder = NewDecoder /\ stream = NewStream(call) /\ wire \in Seq(Cell)
    BY <2>1 DEF StreamInv
  <2>3. RecordsOf(<<>>, FALSE) = <<>> /\ Ready(Cell, NewDecoder, <<>>, RecordsOf(<<>>, FALSE))
    BY NoRecords
  <2>4. DeliveredOK(call, NewStream(call), RecordsOf(<<>>, FALSE))
    BY <2>3, NothingDelivered
  <2> QED  BY <2>1, <2>2, <2>3, <2>4 DEF StreamInv
<1>4. ASSUME NEW cells \in Arrivals(call, wire), Chunk(cells) \/ Buffer(cells)  PROVE StreamInv(Cell)'
  <2>1. cells \in Seq(Cell) /\ wire \in Seq(Cell)
    BY DEF CallInv, StreamInv
  <2>2. CASE Chunk(cells)
    <3>1. call' = call /\ pc' \notin {"ready", "sent"}
      BY <2>2 DEF Chunk
    <3> QED  BY <2>1, <2>2, <3>1, ChunkDelivered DEF StreamInv
  <2>3. CASE Buffer(cells)
    <3>1. wire' = Joined(wire, cells) /\ pc' = "buffering"
      BY <2>3 DEF Buffer, Joined
    <3>2. wire' \in Seq(Cell)
      BY <2>1, <3>1, JoinedTyped
    <3> QED  BY <3>1, <3>2 DEF StreamInv
  <2> QED  BY <1>4, <2>2, <2>3
<1>5. CASE Cut
  BY <1>1, <1>5 DEF Cut, Give
<1>6. ASSUME Give("failed")  PROVE StreamInv(Cell)'
  BY <1>1, <1>6 DEF Give
<1>7. ASSUME NEW after, NEW id, NEW ok, Finish(after, id, ok)  PROVE StreamInv(Cell)'
  <2>1. wire' = wire /\ pc' \in {"done", "failed"}
    BY <1>7 DEF Finish
  <2> QED  BY <2>1 DEF StreamInv
<1>8. CASE EndStream \/ EndBuffered
  BY <1>6, <1>7, <1>8 DEF EndStream, StreamEnds, EndBuffered, BodyEnds
<1>9. ASSUME NEW w, VerifyResponse(w) \/ VerifyByHand(w)  PROVE StreamInv(Cell)'
  BY <1>1, <1>9 DEF VerifyResponse, VerifyByHand
<1>10. CASE UNCHANGED vars
  BY <1>1, <1>10 DEF vars
<1> QED  BY <1>2, <1>3, <1>4, <1>5, <1>8, <1>9, <1>10 DEF Next

LEMMA StreamInvariance ==
    ASSUME NEW Cell, \A c \in Calls : \A w \in Seq(Cell) : Arrivals(c, w) \subseteq Seq(Cell)
    PROVE  Spec => [](CallInv /\ StreamInv(Cell))
<1>1. Init => StreamInv(Cell)
  BY StreamInit
<1>2. CallInv /\ StreamInv(Cell) /\ [Next]_vars => StreamInv(Cell)'
  BY StreamStep
<1> QED  BY <1>1, <1>2, CallInvariance, PTL DEF Spec

\* A step of a stream is a chunk, its end, or a failure.
LEMMA StreamSteps ==
    ASSUME CallInv, Next, pc = "streaming"
    PROVE  /\ receipt = {}
           /\ \/ \E cells \in Arrivals(call, wire) : Chunk(cells)
              \/ EndStream
              \/ pc' = "failed" /\ receipt' = {}
<1>1. receipt = {}
  BY DEF CallInv, ReceiptOK
<1>2. Cut => pc' = "failed" /\ receipt' = {}
  BY <1>1 DEF Cut, Give
<1> QED  BY <1>1, <1>2 DEF Next, Send, SystemoneCreate, Respond, Buffer, EndBuffered

-----------------------------------------------------------------------------
(* The theorems. *)

\* Whatever the cells of the bodies and however the network and Part cut
\* them, the consumer of a clear stream is given exactly the records of the
\* bytes so far, and at the end the rest: SseDecoder::push, scan_records and
\* push_eof against the definition of a record.
THEOREM WholeRecords ==
    ASSUME NEW Cell, \A c \in Calls : \A w \in Seq(Cell) : Arrivals(c, w) \subseteq Seq(Cell)
    PROVE  Spec => SplitWhole
<1>1. ASSUME CallInv, StreamInv(Cell), [Next]_vars
      PROVE  [pc = "streaming" /\ pc' # "failed" /\ ~call.e2ee /\ stream'.ok
                => stream'.yielded = RecordsOf(wire', pc' = "done")]_vars
  <2> SUFFICES ASSUME Next, pc = "streaming", pc' # "failed", ~call.e2ee, stream'.ok
               PROVE  stream'.yielded = RecordsOf(wire', pc' = "done")
    BY <1>1
  <2>1. ASSUME NEW cells \in Arrivals(call, wire), Chunk(cells)
        PROVE  stream'.yielded = RecordsOf(wire', pc' = "done")
    <3>1. cells \in Seq(Cell)
      BY <1>1 DEF CallInv, StreamInv
    <3>2. DeliveredOK(call, stream', RecordsOf(wire', FALSE))
      BY <1>1, <2>1, <3>1, ChunkDelivered
    <3>3. pc' = "streaming"
      BY <2>1 DEF Chunk
    <3>4. (pc' = "done") = FALSE
      BY <3>3
    <3>5. stream'.yielded = RecordsOf(wire', FALSE)
      BY <3>2 DEF DeliveredOK
    <3> QED  BY <3>4, <3>5
  <2>2. CASE EndStream
    <3>1. wire' = wire /\ DeliveredOK(call, stream', RecordsOf(wire, TRUE))
      BY <1>1, <2>2, EndDelivered
    <3>2. pc' = "done"
      BY <2>2 DEF EndStream, StreamEnds, Finish
    <3>3. (pc' = "done") = TRUE
      BY <3>2
    <3>4. stream'.yielded = RecordsOf(wire, TRUE)
      BY <3>1 DEF DeliveredOK
    <3> QED  BY <3>1, <3>3, <3>4
  <2> QED  BY <1>1, <2>1, <2>2, StreamSteps
<1> QED  BY <1>1, StreamInvariance, PTL DEF Spec, SplitWhole

\* A receipt of a stream: what EndStream registers.
LEMMA StreamReceipt ==
    ASSUME NEW Cell, CallInv, StreamInv(Cell), Next, pc = "streaming", NEW r \in receipt'
    PROVE  /\ r.response = wire /\ r.id = stream'.id /\ stream'.id # "none" /\ stream'.ok
           /\ ~call.helper /\ RecordsOf(wire, TRUE) \in Seq(Seq(Cell))
           /\ DeliveredOK(call, stream', RecordsOf(wire, TRUE))
           /\ call.route = "messages" => Complete(stream'.lifecycle)
<1>1. EndStream
  <2>1. \A cells : Chunk(cells) => receipt' = receipt
    BY DEF Chunk
  <2> QED  BY <2>1, StreamSteps
<1>2. /\ RecordsOf(wire, TRUE) \in Seq(Seq(Cell))
      /\ DeliveredOK(call, stream', RecordsOf(wire, TRUE))
      /\ receipt' = {} \/ /\ Register(stream'.id)
                          /\ ~call.helper /\ stream'.ok /\ stream'.id # "none"
                          /\ call.route = "messages" => Complete(stream'.lifecycle)
  BY <1>1, EndDelivered
<1>3. Register(stream'.id)
  BY <1>2
<1>4. r.response = wire /\ r.id = stream'.id
  BY <1>3 DEF Register
<1> QED  BY <1>2, <1>4

\* However a stream is cut, all its records that were captured with a
\* receipt name the ID of the receipt, or none, and one of them does:
\* transform and the registration at the end.
THEOREM OneIdPerReceipt ==
    ASSUME NEW Cell, \A c \in Calls : \A w \in Seq(Cell) : Arrivals(c, w) \subseteq Seq(Cell)
    PROVE  Spec => OneReceiptId
<1>1. ASSUME CallInv, StreamInv(Cell), [Next]_vars
      PROVE  [pc = "streaming" => \A r \in receipt' :
                LET records == RecordsOf(r.response, TRUE)
                    quiet == {k \in DOMAIN records : EventName(LinesOf(k, records[k])) # "error"}
                    bodies == UNION {Json(DataOf(k, records[k])) : k \in quiet}
                IN /\ stream'.yielded # <<>>
                   /\ {ReceiptId(body, call.route) : body \in bodies} \ {"none"} = {r.id}]_vars
  <2> SUFFICES ASSUME Next, pc = "streaming", NEW r \in receipt'
               PROVE  LET records == RecordsOf(r.response, TRUE)
                          quiet == {k \in DOMAIN records : EventName(LinesOf(k, records[k])) # "error"}
                          bodies == UNION {Json(DataOf(k, records[k])) : k \in quiet}
                      IN /\ stream'.yielded # <<>>
                         /\ {ReceiptId(body, call.route) : body \in bodies} \ {"none"} = {r.id}
    BY <1>1
  <2> DEFINE records == RecordsOf(r.response, TRUE)
             quiet == {k \in DOMAIN records : EventName(LinesOf(k, records[k])) # "error"}
             bodies == UNION {Json(DataOf(k, records[k])) : k \in quiet}
  <2>1. /\ r.id = stream'.id /\ stream'.id # "none" /\ stream'.ok /\ ~call.helper
        /\ DeliveredOK(call, stream', records)
    BY <1>1, StreamReceipt
  <2> HIDE DEF records
  <2>2. {stream'.id} \ {"none"} = IdsOf(call.route, records) /\ (records # <<>> => stream'.yielded # <<>>)
    BY <2>1 DEF DeliveredOK
  <2>3. IdsOf(call.route, records) = {r.id}
    BY <2>1, <2>2
  <2>4. records # <<>>
    <3>1. DOMAIN records # {}
      BY <2>3 DEF IdsOf
    <3> QED  BY <3>1
  <2>5. \A x : x \in IdsOf(call.route, records) <=>
              \E k \in quiet : \E body \in Json(DataOf(k, records[k])) :
                  x = ReceiptId(body, call.route) /\ x # "none"
    <3>1. \A x : x \in IdsOf(call.route, records) <=>
              \E k \in DOMAIN records : x \in IdsIn(call.route, BodiesAt(k, records[k]))
      BY DEF IdsOf
    <3>2. ASSUME NEW x, NEW k \in DOMAIN records
          PROVE  x \in IdsIn(call.route, BodiesAt(k, records[k])) <=>
                     k \in quiet /\ \E body \in Json(DataOf(k, records[k])) :
                                        x = ReceiptId(body, call.route) /\ x # "none"
      BY DEF IdsIn, BodiesAt
    <3> QED  BY <3>1, <3>2
  <2>6. \A x : x \in {ReceiptId(body, call.route) : body \in bodies} \ {"none"} <=>
              \E k \in quiet : \E body \in Json(DataOf(k, records[k])) :
                  x = ReceiptId(body, call.route) /\ x # "none"
    <3>1. \A body : body \in bodies <=> \E k \in quiet : body \in Json(DataOf(k, records[k]))
      OBVIOUS
    <3> HIDE DEF bodies, quiet
    <3> QED  BY <3>1
  <2> HIDE DEF bodies, quiet
  <2>7. {ReceiptId(body, call.route) : body \in bodies} \ {"none"} = {r.id}
    BY <2>3, <2>5, <2>6
  <2>8. stream'.yielded # <<>>
    BY <2>2, <2>4
  <2> QED  BY <2>7, <2>8 DEF bodies, quiet, records
<1> QED  BY <1>1, StreamInvariance, PTL DEF Spec, OneReceiptId

\* However a Messages stream is cut, one that gets a receipt is one whole
\* message: MessageStreamState::observe and finish.
THEOREM WholeMessage ==
    ASSUME NEW Cell, \A c \in Calls : \A w \in Seq(Cell) : Arrivals(c, w) \subseteq Seq(Cell)
    PROVE  Spec => CompleteMessage
<1>1. ASSUME CallInv, StreamInv(Cell), [Next]_vars
      PROVE  [pc = "streaming" /\ call.route = "messages" => \A r \in receipt' :
                LET records == RecordsOf(r.response, TRUE)
                    events == {k \in DOMAIN records : ~NoData(DataOf(k, records[k]))}
                    type == [k \in events |-> (CHOOSE body \in Json(DataOf(k, records[k])) : TRUE).type]
                IN /\ \A k \in DOMAIN records : Last(LinesOf(k, records[k])) = <<>>
                   /\ \A k \in events :
                         /\ Json(DataOf(k, records[k])) # {}
                         /\ type[k] \notin {"none", "error"}
                         /\ EventName(LinesOf(k, records[k])) \in {"none", type[k]}
                         /\ type[k] = "message_stop" <=> \A j \in events : j <= k
                   /\ \E first \in events : {k \in events : type[k] = "message_start"} = {first}]_vars
  <2> SUFFICES ASSUME Next, pc = "streaming", call.route = "messages", NEW r \in receipt'
               PROVE  LET records == RecordsOf(r.response, TRUE)
                          events == {k \in DOMAIN records : ~NoData(DataOf(k, records[k]))}
                          type == [k \in events |-> (CHOOSE body \in Json(DataOf(k, records[k])) : TRUE).type]
                      IN /\ \A k \in DOMAIN records : Last(LinesOf(k, records[k])) = <<>>
                         /\ \A k \in events :
                               /\ Json(DataOf(k, records[k])) # {}
                               /\ type[k] \notin {"none", "error"}
                               /\ EventName(LinesOf(k, records[k])) \in {"none", type[k]}
                               /\ type[k] = "message_stop" <=> \A j \in events : j <= k
                         /\ \E first \in events : {k \in events : type[k] = "message_start"} = {first}
    BY <1>1
  <2> DEFINE records == RecordsOf(r.response, TRUE)
             events == {k \in DOMAIN records : ~NoData(DataOf(k, records[k]))}
             type == [k \in events |-> (CHOOSE body \in Json(DataOf(k, records[k])) : TRUE).type]
             state == stream'.lifecycle
  <2>1. /\ stream'.ok /\ ~call.helper /\ Complete(state)
        /\ DeliveredOK(call, stream', records) /\ records \in Seq(Seq(Cell))
    BY <1>1, StreamReceipt
  <2> HIDE DEF records
  <2>2. DOMAIN records \in SUBSET Nat
    <3>1. DOMAIN records = 1..Len(records) /\ Len(records) \in Nat
      BY <2>1, LenProperties
    <3> QED  BY <3>1
  <2>3. MessageOK(state, records) /\ state.started /\ state.stopped
    BY <2>1 DEF DeliveredOK, Complete
  <2>4. \A k : k \in events <=> k \in DOMAIN records /\ IsEvent(k, records[k])
    BY DEF IsEvent
  <2>5. \A k \in events : type[k] = EventBody(k, records[k]).type
    BY DEF EventBody
  <2> HIDE DEF events, type
  <2>6. \A k \in events : \A name : IsOf(k, records[k], name) <=> type[k] = name
    BY <2>4, <2>5 DEF IsOf
  <2>7. \A k, name : k \in DOMAIN records /\ IsOf(k, records[k], name) => k \in events
    BY <2>4 DEF IsOf
  <2>8. /\ \A k \in DOMAIN records : WellFormed(k, records[k])
        /\ \E k \in DOMAIN records : IsOf(k, records[k], "message_start")
        /\ \A j, k \in DOMAIN records :
              IsOf(j, records[j], "message_start") /\ IsOf(k, records[k], "message_start") => j = k
        /\ \E k \in DOMAIN records : IsOf(k, records[k], "message_stop")
        /\ \A j, k \in DOMAIN records :
              IsOf(k, records[k], "message_stop") /\ IsEvent(j, records[j]) => j <= k
    BY <2>3 DEF MessageOK
  <2> HIDE DEF state
  <2>9. \A k \in DOMAIN records : Last(LinesOf(k, records[k])) = <<>>
    BY <2>8 DEF WellFormed
  <2>10. \A k \in events :
            /\ Json(DataOf(k, records[k])) # {}
            /\ type[k] \notin {"none", "error"}
            /\ EventName(LinesOf(k, records[k])) \in {"none", type[k]}
    BY <2>4, <2>5, <2>8 DEF WellFormed
  <2>11. \A k \in events : type[k] = "message_stop" <=> \A j \in events : j <= k
    <3>1. PICK m \in events : type[m] = "message_stop"
      BY <2>6, <2>7, <2>8
    <3>2. \A k \in events : type[k] = "message_stop" => \A j \in events : j <= k
      BY <2>4, <2>6, <2>8
    <3>3. \A j \in events : j \in Nat
      BY <2>2, <2>4
    <3>4. ASSUME NEW k \in events, \A j \in events : j <= k  PROVE type[k] = "message_stop"
      <4>1. k <= m /\ m <= k /\ k \in Nat /\ m \in Nat
        BY <3>1, <3>2, <3>3, <3>4
      <4> QED  BY <3>1, <4>1
    <3> QED  BY <3>2, <3>4
  <2>12. \E first \in events : {k \in events : type[k] = "message_start"} = {first}
    <3>1. PICK first \in events : type[first] = "message_start"
      BY <2>6, <2>7, <2>8
    <3>2. \A k \in events : type[k] = "message_start" => k = first
      BY <2>4, <2>6, <2>8, <3>1
    <3> QED  BY <3>1, <3>2
  <2> QED  BY <2>9, <2>10, <2>11, <2>12 DEF records, events, type
<1> QED  BY <1>1, StreamInvariance, PTL DEF Spec, CompleteMessage

-----------------------------------------------------------------------------
(* Sealed bodies: the places of a response that decrypt_response checks. *)

\* The containers of the protected fields: arrays where an element follows,
\* objects where a member does.
Container(streaming) == Append(Reply(streaming), "content")
Arrays(streaming) == ResponseArrays(streaming) \cup {Container(streaming)}
Objects(streaming) == ResponseObjects(streaming) \cup {Append(a, "[]") : a \in Arrays(streaming)}
Names ==
    {"choices", "[]", "delta", "message", "tool_calls", "function", "logprobs", "content", "refusal",
     "top_logprobs", "token", "bytes", "reasoning_content", "reasoning", "text", "audio", "data",
     "function_call", "name", "arguments", "nearai_tool_result", "output"}
Contained(streaming, p) ==
    /\ p \in Seq(Names) /\ Len(p) \in Nat \ {0}
    /\ \A n \in 1..(Len(p) - 1) :
          SubSeq(p, 1, n) \in IF p[n + 1] = "[]" THEN Arrays(streaming) ELSE Objects(streaming)

LEMMA ContainedLonger ==
    ASSUME NEW streaming, NEW p, NEW name \in Names, Contained(streaming, p),
           p \in IF name = "[]" THEN Arrays(streaming) ELSE Objects(streaming)
    PROVE  Contained(streaming, Longer(p, name))
<1> DEFINE q == Longer(p, name)
<1>1. p \in Seq(Names) /\ Len(p) \in Nat \ {0}
  BY DEF Contained
<1>2. q \in Seq(Names) /\ Len(q) = Len(p) + 1 /\ q[Len(p) + 1] = name
      /\ \A n \in 1..Len(p) : q[n] = p[n]
  BY <1>1, AppendProperties DEF Longer
<1>3. ASSUME NEW n \in 1..Len(p)  PROVE SubSeq(q, 1, n) = SubSeq(p, 1, n)
  BY <1>1, <1>2, <1>3
<1>4. SubSeq(p, 1, Len(p)) = p
  BY <1>1
<1> HIDE DEF q
<1>5. ASSUME NEW n \in 1..(Len(q) - 1)
      PROVE  SubSeq(q, 1, n) \in IF q[n + 1] = "[]" THEN Arrays(streaming) ELSE Objects(streaming)
  <2>1. CASE n = Len(p)
    <3>1. Len(p) \in 1..Len(p)
      BY <1>1
    <3>2. q[n + 1] = name /\ SubSeq(q, 1, n) = p
      BY <1>2, <1>3, <1>4, <2>1, <3>1
    <3>3. CASE name = "[]"
      BY <3>2, <3>3
    <3>4. CASE name # "[]"
      BY <3>2, <3>4
    <3> QED  BY <3>3, <3>4
  <2>2. CASE n # Len(p)
    <3>1. n \in 1..(Len(p) - 1) /\ n + 1 \in 1..Len(p) /\ n \in 1..Len(p)
      BY <1>1, <1>2, <2>2
    <3>2. q[n + 1] = p[n + 1] /\ SubSeq(q, 1, n) = SubSeq(p, 1, n)
      BY <1>2, <1>3, <3>1
    <3>3. SubSeq(p, 1, n) \in IF p[n + 1] = "[]" THEN Arrays(streaming) ELSE Objects(streaming)
      BY <3>1 DEF Contained
    <3> QED  BY <3>2, <3>3
  <2> QED  BY <2>1, <2>2
<1>6. Len(q) \in Nat \ {0}
  BY <1>1, <1>2
<1> QED  BY <1>2, <1>5, <1>6 DEF Contained, q

LEMMA TwoJoined ==
    ASSUME NEW a, NEW b, NEW c
    PROVE  <<a>> \o <<b>> = <<a, b>> /\ <<a>> \o <<b, c>> = <<a, b, c>>
<1> DEFINE S == {a, b, c}
<1>1. <<a>> \in Seq(S) /\ <<b>> \in Seq(S) /\ <<b, c>> \in Seq(S) /\ <<a, b>> \in Seq(S) /\ <<a, b, c>> \in Seq(S)
  OBVIOUS
<1>2. ASSUME NEW x \in Seq(S), NEW y \in Seq(S), Len(x) = Len(y), \A i \in 1..Len(x) : x[i] = y[i]
      PROVE  x = y
  BY <1>2, SeqEqual
<1>3. <<a>> \o <<b>> = <<a, b>>
  <2> DEFINE x == <<a>> \o <<b>>
  <2>1. x \in Seq(S) /\ Len(x) = 2 /\ x[1] = a /\ x[2] = b
    BY <1>1, ConcatProperties
  <2> HIDE DEF x, S
  <2>2. x = <<a, b>>
    BY <1>1, <1>2, <2>1
  <2> QED  BY <2>2 DEF x
<1>4. <<a>> \o <<b, c>> = <<a, b, c>>
  <2> DEFINE x == <<a>> \o <<b, c>>
  <2>1. x \in Seq(S) /\ Len(x) = 3 /\ x[1] = a /\ x[2] = b /\ x[3] = c
    BY <1>1, ConcatProperties
  <2> HIDE DEF x, S
  <2>2. x = <<a, b, c>>
    BY <1>1, <1>2, <2>1
  <2> QED  BY <2>2 DEF x
<1> QED  BY <1>3, <1>4

LEMMA TwoMore ==
    ASSUME NEW p \in Seq(Names), NEW a \in Names, NEW b \in Names
    PROVE  /\ p \o <<a>> = Longer(p, a)
           /\ p \o <<a, b>> = Longer(Longer(p, a), b)
<1> HIDE DEF Names
<1> DEFINE pa == Append(p, a)
<1>1. pa = p \o <<a>> /\ pa \in Seq(Names)
  BY AppendIsConcat, AppendProperties
<1>2. Append(pa, b) = pa \o <<b>>
  <2> HIDE DEF pa
  <2> QED  BY <1>1, AppendIsConcat
<1>3. <<a>> \in Seq(Names) /\ <<b>> \in Seq(Names)
  OBVIOUS
<1>4. (p \o <<a>>) \o <<b>> = p \o (<<a>> \o <<b>>)
  BY <1>3, ConcatAssociative
<1>5. <<a>> \o <<b>> = <<a, b>>
  BY TwoJoined
<1>6. Append(pa, b) = p \o <<a, b>>
  <2> HIDE DEF pa
  <2> QED  BY <1>1, <1>2, <1>4, <1>5
<1> QED  BY <1>1, <1>6 DEF Longer

Triple(path, a, b, c) == path \o <<a, b, c>>
LEMMA ThreeMore ==
    ASSUME NEW p \in Seq(Names), NEW a \in Names, NEW b \in Names, NEW c \in Names
    PROVE  Triple(p, a, b, c) = Longer(Longer(Longer(p, a), b), c)
<1> HIDE DEF Names
<1> DEFINE pa == Longer(p, a)
<1>1. p \o <<a>> = pa /\ pa \in Seq(Names)
  BY TwoMore, AppendProperties DEF Longer
<1>2. pa \o <<b, c>> = Longer(Longer(pa, b), c)
  <2> HIDE DEF pa
  <2> QED  BY <1>1, TwoMore
<1>3. <<a>> \in Seq(Names) /\ <<b, c>> \in Seq(Names)
  OBVIOUS
<1>4. (p \o <<a>>) \o <<b, c>> = p \o (<<a>> \o <<b, c>>)
  BY <1>3, ConcatAssociative
<1>5. <<a>> \o <<b, c>> = <<a, b, c>>
  BY TwoJoined
<1>6. Triple(p, a, b, c) = pa \o <<b, c>>
  <2> HIDE DEF pa
  <2> QED  BY <1>1, <1>4, <1>5 DEF Triple
<1> QED  BY <1>2, <1>6

\* What a protected field is made of, step by step.
LEMMA FieldPaths ==
    ASSUME NEW streaming \in BOOLEAN
    PROVE  LET m == Reply(streaming)
               outer == {Longer(Logprobs, "content"), Longer(Logprobs, "refusal")}
           IN /\ Choice = Longer(<<"choices">>, "[]")
              /\ m = Longer(Choice, IF streaming THEN "delta" ELSE "message")
              /\ Logprobs = Longer(Choice, "logprobs")
              /\ Container(streaming) = Longer(m, "content")
              /\ ReplyCall(streaming) = Triple(m, "tool_calls", "[]", "function")
              /\ Entries = outer \cup {p \o <<"[]", "top_logprobs">> : p \in outer}
<1>1. Choice = Longer(<<"choices">>, "[]")
  <2>1. <<"choices">> \in Seq(Names) /\ "[]" \in Names
    BY DEF Names
  <2>2. Append(<<"choices">>, "[]") = <<"choices">> \o <<"[]">>
    BY <2>1, AppendIsConcat
  <2> QED  BY <2>2, TwoJoined DEF Choice, Longer
<1> QED  BY <1>1 DEF Reply, Logprobs, Container, ReplyCall, Entries, Longer, Triple

LEMMA Containers ==
    ASSUME NEW streaming \in BOOLEAN
    PROVE  LET m == Reply(streaming)
               A == Arrays(streaming)
               O == Objects(streaming)
           IN /\ <<"choices">> \in A /\ Container(streaming) \in A /\ Longer(m, "tool_calls") \in A
              /\ Entries \subseteq A
              /\ m \in O /\ ReplyCall(streaming) \in O /\ Logprobs \in O
              /\ Longer(m, "audio") \in O /\ Longer(m, "function_call") \in O
              /\ streaming => Longer(m, "nearai_tool_result") \in O
              /\ \A q \in A : Longer(q, "[]") \in O
BY DEF Arrays, Objects, ResponseArrays, ResponseObjects, Under, Longer

LogFields == {q \o <<"[]", n>> : q \in Entries, n \in {"token", "bytes"}}
Members(path, names) == {Longer(path, name) : name \in names}
FieldOf(streaming, m, p) ==
    \/ p \in Members(m, {"reasoning_content", "reasoning", "refusal", "content"})
    \/ p \in Members(m \o <<"content", "[]">>, {"text"})
    \/ p \in Members(m \o <<"audio">>, {"data"})
    \/ p \in Members(ReplyCall(streaming), {"name", "arguments"})
    \/ p \in Members(m \o <<"function_call">>, {"name", "arguments"})
    \/ p \in LogFields
    \/ streaming /\ p \in Members(m \o <<"nearai_tool_result">>, {"output"})
LEMMA FieldKinds ==
    ASSUME NEW streaming \in BOOLEAN, NEW p \in ResponseFields(streaming)
    PROVE  FieldOf(streaming, Reply(streaming), p)
<1>1. \A path, names : Under(path, names) = Members(path, names)
  BY DEF Under, Members, Longer
<1> DEFINE m == Reply(streaming)
<1>2. \/ p \in Under(m, {"reasoning_content", "reasoning", "refusal", "content"})
      \/ p \in Under(m \o <<"content", "[]">>, {"text"})
      \/ p \in Under(m \o <<"audio">>, {"data"})
      \/ p \in Under(ReplyCall(streaming), {"name", "arguments"})
      \/ p \in Under(m \o <<"function_call">>, {"name", "arguments"})
      \/ p \in LogFields
      \/ streaming /\ p \in Under(m \o <<"nearai_tool_result">>, {"output"})
  BY DEF ResponseFields, LogFields
<1> HIDE DEF m
<1>3. FieldOf(streaming, m, p)
  BY <1>1, <1>2 DEF FieldOf
<1> QED  BY <1>3 DEF m

\* Every container of a protected field is one that decrypt_response checks.
LEMMA FieldsContained ==
    ASSUME NEW streaming \in BOOLEAN
    PROVE  /\ \A p \in ResponseFields(streaming) : Contained(streaming, p)
           /\ \A a \in Arrays(streaming) : a \in Seq(Names) /\ Len(a) \in Nat \ {0}
<1> DEFINE m == Reply(streaming)
           In(q) == Contained(streaming, q)
           A == Arrays(streaming)
           O == Objects(streaming)
           text == <<"choices">>
           Word(n) == n \in Names
           Path(q) == q \in Seq(Names)
\* A path and the path of a member or an element.
<1>1. \A q, n : In(q) /\ Word(n) /\ n # "[]" /\ q \in O => In(Longer(q, n))
  BY ContainedLonger
<1>2. \A q : In(q) /\ q \in A => In(Longer(q, "[]")) /\ Longer(q, "[]") \in O
  <2>1. "[]" \in Names
    BY DEF Names
  <2>2. \A q : In(q) /\ q \in A => In(Longer(q, "[]"))
    BY <2>1, ContainedLonger
  <2> QED  BY <2>2, Containers
<1>3. \A q : In(q) => Path(q)
  BY DEF Contained
<1>4. In(text)
  <2>1. text \in Seq(Names) /\ Len(text) = 1
    BY DEF Names
  <2> QED  BY <2>1 DEF Contained
<1>5. /\ text \in A /\ Longer(m, "content") \in A /\ Longer(m, "tool_calls") \in A /\ Entries \subseteq A
      /\ m \in O /\ ReplyCall(streaming) \in O /\ Logprobs \in O
      /\ Longer(m, "audio") \in O /\ Longer(m, "function_call") \in O
      /\ streaming => Longer(m, "nearai_tool_result") \in O
  BY Containers, FieldPaths
<1>6. /\ \A n \in {"delta", "message", "tool_calls", "function", "logprobs", "content", "refusal",
                   "top_logprobs", "token", "bytes", "reasoning_content", "reasoning", "text", "audio", "data",
                   "function_call", "name", "arguments", "nearai_tool_result", "output"} :
            Word(n) /\ n # "[]"
      /\ Word("[]")
  BY DEF Names
<1>7. /\ \A q, a : Path(q) /\ Word(a) => q \o <<a>> = Longer(q, a)
      /\ \A q, a, b : Path(q) /\ Word(a) /\ Word(b) => q \o <<a, b>> = Longer(Longer(q, a), b)
      /\ \A q, a, b, c : Path(q) /\ Word(a) /\ Word(b) /\ Word(c) =>
             Triple(q, a, b, c) = Longer(Longer(Longer(q, a), b), c)
  <2>1. \A q, a : Path(q) /\ Word(a) => q \o <<a>> = Longer(q, a)
    BY TwoMore
  <2>2. \A q, a, b : Path(q) /\ Word(a) /\ Word(b) => q \o <<a, b>> = Longer(Longer(q, a), b)
    BY TwoMore
  <2>3. \A q, a, b, c : Path(q) /\ Word(a) /\ Word(b) /\ Word(c) =>
           Triple(q, a, b, c) = Longer(Longer(Longer(q, a), b), c)
    BY ThreeMore
  <2> QED  BY <2>1, <2>2, <2>3
<1>8. /\ Choice = Longer(text, "[]")
      /\ m = Longer(Choice, IF streaming THEN "delta" ELSE "message")
      /\ Logprobs = Longer(Choice, "logprobs")
      /\ ReplyCall(streaming) = Triple(m, "tool_calls", "[]", "function")
  BY FieldPaths
<1> HIDE DEF In, A, O, text, Word, Path, m
<1>9. In(Choice) /\ Choice \in O
  BY <1>2, <1>4, <1>5, <1>8
<1>10. In(m) /\ In(Logprobs) /\ Path(m)
  BY <1>1, <1>3, <1>6, <1>8, <1>9
<1>11. In(ReplyCall(streaming))
  <2>1. In(Longer(m, "tool_calls"))
    BY <1>1, <1>5, <1>6, <1>10
  <2>2. In(Longer(Longer(m, "tool_calls"), "[]")) /\ Longer(Longer(m, "tool_calls"), "[]") \in O
    BY <1>2, <1>5, <2>1
  <2>3. In(Longer(Longer(Longer(m, "tool_calls"), "[]"), "function"))
    BY <1>1, <1>6, <2>2
  <2>4. Triple(m, "tool_calls", "[]", "function") = Longer(Longer(Longer(m, "tool_calls"), "[]"), "function")
    BY <1>6, <1>7, <1>10
  <2> QED  BY <1>8, <2>3, <2>4
<1>12. ASSUME NEW q \in A, In(q), NEW n \in {"token", "bytes", "top_logprobs", "text"}
       PROVE  In(q \o <<"[]", n>>) /\ In(Longer(Longer(q, "[]"), n))
  <2>1. In(Longer(q, "[]")) /\ Longer(q, "[]") \in O /\ Path(q)
    BY <1>2, <1>3, <1>12
  <2>2. In(Longer(Longer(q, "[]"), n))
    BY <1>1, <1>6, <2>1
  <2>3. q \o <<"[]", n>> = Longer(Longer(q, "[]"), n)
    BY <1>6, <1>7, <2>1
  <2> QED  BY <2>2, <2>3
<1>13. \A q \in Entries : In(q)
  <2> DEFINE outer == {Longer(Logprobs, "content"), Longer(Logprobs, "refusal")}
  <2>1. Entries = outer \cup {q \o <<"[]", "top_logprobs">> : q \in outer}
    BY FieldPaths
  <2>2. \A q \in outer : In(q)
    BY <1>1, <1>5, <1>6, <1>10
  <2> HIDE DEF outer
  <2>3. \A q \in outer : q \in A
    BY <1>5, <2>1
  <2> QED  BY <1>12, <2>1, <2>2, <2>3
<1>14. ASSUME NEW p \in ResponseFields(streaming)  PROVE Contained(streaming, p)
  <2>1. CASE p \in Members(m, {"reasoning_content", "reasoning", "refusal", "content"})
    <3>1. PICK n \in {"reasoning_content", "reasoning", "refusal", "content"} : p = Longer(m, n)
      BY <2>1 DEF Members
    <3>2. In(Longer(m, n))
      BY <1>1, <1>5, <1>6, <1>10
    <3> QED  BY <3>1, <3>2 DEF In
  <2>2. CASE p \in Members(m \o <<"content", "[]">>, {"text"})
    <3>1. p = Longer(m \o <<"content", "[]">>, "text")
      BY <2>2 DEF Members
    <3>2. m \o <<"content", "[]">> = Longer(Longer(m, "content"), "[]")
      BY <1>6, <1>7, <1>10
    <3>3. In(Longer(m, "content"))
      BY <1>1, <1>5, <1>6, <1>10
    <3>4. In(Longer(Longer(Longer(m, "content"), "[]"), "text"))
      BY <1>5, <1>12, <3>3
    <3> QED  BY <3>1, <3>2, <3>4 DEF In
  <2>3. ASSUME NEW part \in {"audio", "function_call", "nearai_tool_result"},
                part = "nearai_tool_result" => streaming,
                NEW name \in {"data", "name", "arguments", "output"}, p = Longer(m \o <<part>>, name)
         PROVE  Contained(streaming, p)
    <3>1. m \o <<part>> = Longer(m, part)
      BY <1>6, <1>7, <1>10
    <3>2. Longer(m, part) \in O
      BY <1>5, <2>3
    <3>3. In(Longer(m, part))
      BY <1>1, <1>5, <1>6, <1>10
    <3>4. In(Longer(Longer(m, part), name))
      BY <1>1, <1>6, <3>2, <3>3
    <3> QED  BY <2>3, <3>1, <3>4 DEF In
  <2>4. CASE p \in Members(ReplyCall(streaming), {"name", "arguments"})
    <3>1. PICK n \in {"name", "arguments"} : p = Longer(ReplyCall(streaming), n)
      BY <2>4 DEF Members
    <3>2. In(Longer(ReplyCall(streaming), n))
      BY <1>1, <1>5, <1>6, <1>11
    <3> QED  BY <3>1, <3>2 DEF In
  <2>5. CASE p \in LogFields
    <3>1. PICK q \in Entries, n \in {"token", "bytes"} : p = q \o <<"[]", n>>
      BY <2>5 DEF LogFields
    <3>2. In(q \o <<"[]", n>>)
      BY <1>5, <1>12, <1>13
    <3> QED  BY <3>1, <3>2 DEF In
  <2>6. CASE \/ p \in Members(m \o <<"audio">>, {"data"})
             \/ p \in Members(m \o <<"function_call">>, {"name", "arguments"})
             \/ streaming /\ p \in Members(m \o <<"nearai_tool_result">>, {"output"})
    BY <2>3, <2>6 DEF Members
  <2>7. FieldOf(streaming, m, p)
    BY FieldKinds DEF m
  <2> HIDE DEF m
  <2>8. FieldOf(streaming, m, p) => Contained(streaming, p)
    BY <2>1, <2>2, <2>4, <2>5, <2>6, Zenon DEF FieldOf
  <2> QED  BY <2>7, <2>8
<1>15. ASSUME NEW a \in Arrays(streaming)  PROVE In(a)
  <2>1. a \in Entries \/ a = text \/ a = Longer(m, "content") \/ a = Longer(m, "tool_calls")
    <3>1. \A x : Append(m, x) = Longer(m, x)
      BY DEF Longer
    <3>2. \/ a \in Entries \/ a = <<"choices">>
          \/ a = Append(Reply(streaming), "tool_calls") \/ a = Append(Reply(streaming), "content")
      BY DEF Arrays, ResponseArrays, Container
    <3> QED  BY <3>1, <3>2 DEF m, text
  <2>2. In(Longer(m, "content")) /\ In(Longer(m, "tool_calls"))
    BY <1>1, <1>5, <1>6, <1>10
  <2> QED  BY <1>4, <1>13, <2>1, <2>2
<1>16. \A a \in Arrays(streaming) : a \in Seq(Names) /\ Len(a) \in Nat \ {0}
  BY <1>15 DEF In, Contained
<1> QED  BY <1>14, <1>16

-----------------------------------------------------------------------------
(* Sealed bodies: what decrypt_response leaves at a protected place. *)

\* The field a path leads to has the path's length, stands for an element
\* where the path names one, and is cut where the path is cut.
LEMMA ShapeOf ==
    ASSUME NEW S, NEW p \in Seq(S)
    PROVE  /\ Shape(p) \in Seq(S \cup {"[]"}) /\ Len(Shape(p)) = Len(p)
           /\ \A k \in 1..Len(p) : Shape(p)[k] = "[]" <=> p[k] \in Elements
           /\ \A n \in 1..Len(p) : Shape(SubSeq(p, 1, n)) = SubSeq(Shape(p), 1, n)
<1> DEFINE q == Shape(p)
           T == S \cup {"[]"}
<1>1. Len(p) \in Nat /\ DOMAIN p = 1..Len(p) /\ \A k \in 1..Len(p) : p[k] \in S
  OBVIOUS
<1>2. q = [k \in 1..Len(p) |-> IF p[k] \in Elements THEN "[]" ELSE p[k]]
  BY <1>1 DEF Shape
<1>3. q \in Seq(T) /\ Len(q) = Len(p)
  <2>1. q \in [1..Len(p) -> T]
    BY <1>1, <1>2
  <2> HIDE DEF q, T
  <2> QED  BY <1>1, <1>2, <2>1
<1>4. \A k \in 1..Len(p) : q[k] = "[]" <=> p[k] \in Elements
  BY <1>2, RustE2eeAssumption
<1>5. ASSUME NEW n \in 1..Len(p)  PROVE Shape(SubSeq(p, 1, n)) = SubSeq(q, 1, n)
  <2>1. n \in Nat /\ n <= Len(p)
    BY <1>1
  <2>2. SubSeq(p, 1, n) = [k \in 1..n |-> p[k]]
    BY <1>1, <2>1
  <2>3. SubSeq(q, 1, n) = [k \in 1..n |-> q[k]]
    <3> HIDE DEF q
    <3> QED  BY <1>3, <2>1
  <2>4. Shape([k \in 1..n |-> p[k]]) = [k \in 1..n |-> IF p[k] \in Elements THEN "[]" ELSE p[k]]
    BY DEF Shape
  <2>5. \A k \in 1..n : q[k] = IF p[k] \in Elements THEN "[]" ELSE p[k]
    BY <1>1, <1>2, <2>1
  <2> HIDE DEF q
  <2> QED  BY <2>2, <2>3, <2>4, <2>5
<1> QED  BY <1>3, <1>4, <1>5

\* Every path of a JSON document is reached.
IsDocument(doc) == \A p \in DOMAIN doc : IsSeq(p) /\ Reached(doc, p)

\* What decrypt_response checks at a place before it opens a document.
Checks(doc, key, streaming) ==
    \A p \in DOMAIN doc : Reached(doc, p) =>
        LET parts == Shape(p) = Container(streaming) /\ doc[p].kind = "array"
        IN /\ Shape(p) \in ResponseArrays(streaming) \/ parts => ArrayHolds(doc, p)
           /\ Shape(p) \in ResponseObjects(streaming) => ObjectHolds(doc, p)
           /\ Shape(p) \in ResponseFields(streaming) /\ ~parts => FieldHolds(doc, p, key)
LEMMA OpenedChecks ==
    ASSUME NEW doc, NEW key, NEW streaming, DecryptResponse(doc, key, streaming).ok
    PROVE  Checks(doc, key, streaming)
BY DEF DecryptResponse, Places, Checks, Container

\* An object does not stand where an array is wanted ...
LEMMA ArrayWanted ==
    ASSUME NEW doc, NEW key, NEW streaming \in BOOLEAN, Checks(doc, key, streaming),
           NEW c \in DOMAIN doc, Reached(doc, c), Shape(c) \in Arrays(streaming),
           doc[c].kind \in {"array", "object"}
    PROVE  doc[c].kind = "array" /\ ArrayHolds(doc, c)
<1>1. KindAt(doc, c) = doc[c].kind
  BY DEF KindAt
<1>2. CASE Shape(c) \in ResponseArrays(streaming)
  <2>1. ArrayHolds(doc, c)
    BY <1>2 DEF Checks
  <2> QED  BY <1>1, <2>1 DEF ArrayHolds
<1>3. CASE Shape(c) = Container(streaming)
  <2>1. Shape(c) \in ResponseFields(streaming)
    BY <1>3 DEF Container, ResponseFields, Under
  <2>2. CASE doc[c].kind = "array"
    BY <1>3, <2>2 DEF Checks
  <2>3. CASE doc[c].kind = "object"
    <3>1. FieldHolds(doc, c, key)
      BY <2>1, <2>3 DEF Checks
    <3> QED  BY <1>1, <2>3, <3>1 DEF FieldHolds, Opens
  <2> QED  BY <2>2, <2>3
<1> QED  BY <1>2, <1>3 DEF Arrays

\* ... nor an array where an object is.
LEMMA ObjectWanted ==
    ASSUME NEW doc, NEW key, NEW streaming \in BOOLEAN, IsDocument(doc), Checks(doc, key, streaming),
           NEW c \in DOMAIN doc, Shape(c) \in Objects(streaming), doc[c].kind = "array"
    PROVE  FALSE
<1> DEFINE S == {c[k] : k \in DOMAIN c}
<1>1. c \in Seq(S) /\ Reached(doc, c) /\ KindAt(doc, c) = "array"
  BY DEF IsDocument, IsSeq, KindAt
<1> HIDE DEF S
<1>2. CASE Shape(c) \in ResponseObjects(streaming)
  <2>1. ObjectHolds(doc, c)
    BY <1>1, <1>2 DEF Checks
  <2> QED  BY <1>1, <2>1 DEF ObjectHolds
<1>3. CASE Shape(c) \in {Append(a, "[]") : a \in Arrays(streaming)}
  <2>1. PICK a \in Arrays(streaming) : Shape(c) = Append(a, "[]")
    BY <1>3
  <2>2. a \in Seq(Names) /\ Len(a) \in Nat \ {0} /\ "[]" \in Names
    BY FieldsContained DEF Names
  <2> DEFINE n == Len(a)
             b == SubSeq(c, 1, n)
  <2>3. Len(Append(a, "[]")) = n + 1 /\ Append(a, "[]")[n + 1] = "[]" /\ SubSeq(Append(a, "[]"), 1, n) = a
    BY <2>2, AppendProperties
  <2>4. Len(c) = n + 1 /\ n \in 1..Len(c) /\ n \in 1..(Len(c) - 1) /\ n + 1 \in 1..Len(c)
    <3>1. Len(Shape(c)) = Len(c)
      BY <1>1, ShapeOf
    <3>2. Len(c) = n + 1
      BY <2>1, <2>3, <3>1
    <3> HIDE DEF n
    <3>3. n \in Nat \ {0}
      BY <2>2 DEF n
    <3> QED  BY <3>2, <3>3
  <2>5. c[n + 1] \in Elements /\ Shape(b) = a
    BY <1>1, <2>1, <2>3, <2>4, ShapeOf
  <2>6. KindAt(doc, b) = "array"
    BY <1>1, <2>4, <2>5 DEF Reached
  <2>7. c = Append(b, c[n + 1])
    BY <1>1, <2>4
  <2> HIDE DEF n, b
  <2>8. b \in DOMAIN doc /\ doc[b].kind = "array"
    BY <2>6 DEF KindAt
  <2>9. ArrayHolds(doc, b)
    BY <2>1, <2>5, <2>8, ArrayWanted DEF IsDocument
  <2> QED  BY <1>1, <2>5, <2>6, <2>7, <2>9 DEF ArrayHolds
<1> QED  BY <1>2, <1>3 DEF Objects

\* Nothing is at a path astray from a protected field but containers.
LEMMA NothingAstray ==
    ASSUME NEW doc, NEW key, NEW streaming \in BOOLEAN, IsDocument(doc), Checks(doc, key, streaming),
           NEW p \in DOMAIN doc, NEW field \in ResponseFields(streaming), Astray(Shape(p), field)
    PROVE  doc[p].kind \notin {"text", "sealed"}
<1> DEFINE S == {p[k] : k \in DOMAIN p}
           q == Shape(p)
<1>1. p \in Seq(S) /\ Reached(doc, p)
  BY DEF IsDocument, IsSeq
<1> HIDE DEF S
<1>2. /\ q \in Seq(S \cup {"[]"}) /\ Len(q) = Len(p)
      /\ \A k \in 1..Len(p) : q[k] = "[]" <=> p[k] \in Elements
      /\ \A n \in 1..Len(p) : Shape(SubSeq(p, 1, n)) = SubSeq(q, 1, n)
  BY <1>1, ShapeOf
<1>3. field \in Seq(Names) /\ Contained(streaming, field) /\ Len(field) \in Nat /\ Len(p) \in Nat
  BY <1>1, FieldsContained, LenProperties DEF Contained
<1> HIDE DEF q
<1>4. PICK n \in 1..(Len(p) - 1) :
         /\ n <= Len(field) /\ SubSeq(q, 1, n) = SubSeq(field, 1, n)
         /\ IF n = Len(field) THEN q[n + 1] # "[]" \/ Len(p) = n + 1
            ELSE (q[n + 1] = "[]") # (field[n + 1] = "[]")
  BY <1>2 DEF Astray, q
<1>5. n \in 1..Len(p) /\ n + 1 \in 1..Len(p) /\ n \in Nat
  BY <1>3, <1>4
<1> DEFINE c == SubSeq(p, 1, n)
<1>6. /\ KindAt(doc, c) = IF q[n + 1] = "[]" THEN "array" ELSE "object"
      /\ Shape(c) = SubSeq(field, 1, n)
  <2>1. KindAt(doc, c) = IF p[n + 1] \in Elements THEN "array" ELSE "object"
    BY <1>1, <1>4 DEF Reached
  <2> HIDE DEF c
  <2>2. q[n + 1] = "[]" <=> p[n + 1] \in Elements
    BY <1>2, <1>5
  <2>3. Shape(c) = SubSeq(field, 1, n)
    BY <1>2, <1>4, <1>5 DEF c
  <2> QED  BY <2>1, <2>2, <2>3
<1>7. Len(p) = n + 1 => p = Append(c, p[n + 1])
  BY <1>1, <1>5
<1> HIDE DEF c
<1>8. c \in DOMAIN doc /\ KindAt(doc, c) = doc[c].kind /\ doc[c].kind \in {"array", "object"}
  BY <1>6 DEF KindAt
<1>9. Reached(doc, c)
  BY <1>8 DEF IsDocument
<1>10. CASE n = Len(field)
  <2>1. Shape(c) = field
    BY <1>3, <1>6, <1>10
  <2>2. CASE doc[c].kind = "array" /\ field = Container(streaming)
    <3>1. q[n + 1] = "[]" /\ Len(p) = n + 1
      BY <1>4, <1>6, <1>8, <1>10, <2>2
    <3>2. p[n + 1] \in Elements /\ p = Append(c, p[n + 1])
      BY <1>2, <1>5, <1>7, <3>1
    <3>3. ArrayHolds(doc, c)
      BY <1>8, <1>9, <2>1, <2>2 DEF Checks
    <3>4. KindAt(doc, p) \in {"absent", "object"}
      BY <1>8, <2>2, <3>2, <3>3 DEF ArrayHolds
    <3> QED  BY <3>4 DEF KindAt
  <2>3. CASE ~(doc[c].kind = "array" /\ field = Container(streaming))
    <3>1. FieldHolds(doc, c, key)
      BY <1>8, <1>9, <2>1, <2>3 DEF Checks
    <3> QED  BY <1>8, <3>1 DEF FieldHolds, Opens
  <2> QED  BY <2>2, <2>3
<1>11. CASE n # Len(field)
  <2>1. n \in 1..(Len(field) - 1) /\ (q[n + 1] = "[]") # (field[n + 1] = "[]")
    BY <1>3, <1>4, <1>11
  <2>2. Shape(c) \in IF field[n + 1] = "[]" THEN Arrays(streaming) ELSE Objects(streaming)
    BY <1>3, <1>6, <2>1 DEF Contained
  <2>3. CASE field[n + 1] = "[]"
    <3>1. Shape(c) \in Arrays(streaming) /\ doc[c].kind = "object"
      BY <1>6, <1>8, <2>1, <2>2, <2>3
    <3> QED  BY <1>8, <1>9, <3>1, ArrayWanted
  <2>4. CASE field[n + 1] # "[]"
    <3>1. Shape(c) \in Objects(streaming) /\ doc[c].kind = "array"
      BY <1>6, <1>8, <2>1, <2>2, <2>4
    <3> QED  BY <1>8, <3>1, ObjectWanted
  <2> QED  BY <2>3, <2>4
<1> QED  BY <1>10, <1>11

\* The value v was sealed, at p of the document, to the key.
OpenedFrom(doc, key, p, v) ==
    LET came == doc[p]
    IN came.kind = "sealed" /\ came.to = key /\ came.aad = <<>> /\ Meaning(p, came.plain) = v

\* What decrypt_response leaves at a protected place of a document was sealed.
LEMMA DecryptClear ==
    ASSUME NEW doc, NEW key, NEW streaming \in BOOLEAN, IsDocument(doc),
           DecryptResponse(doc, key, streaming).ok
    PROVE  LET opened == DecryptResponse(doc, key, streaming).doc
           IN /\ DOMAIN opened = DOMAIN doc
              /\ \A p \in DOMAIN doc : Protects(streaming, p) /\ opened[p].kind \in {"text", "sealed"} =>
                     OpenedFrom(doc, key, p, opened[p])
<1> DEFINE opened == DecryptResponse(doc, key, streaming).doc
           Decrypts(p) == /\ Shape(p) \in ResponseFields(streaming)
                          /\ ~(Shape(p) = Container(streaming) /\ doc[p].kind = "array")
<1>1. Checks(doc, key, streaming)
  BY OpenedChecks
<1>2. /\ DOMAIN opened = DOMAIN doc
      /\ \A p \in DOMAIN doc : opened[p] = IF Decrypts(p) THEN Meaning(p, Opened(doc[p])) ELSE doc[p]
  BY DEF DecryptResponse, Places, Container, IsDocument
<1> HIDE DEF opened
<1>3. ASSUME NEW p \in DOMAIN doc, Protects(streaming, p), opened[p].kind \in {"text", "sealed"}
      PROVE  OpenedFrom(doc, key, p, opened[p])
  <2>1. Reached(doc, p) /\ KindAt(doc, p) = doc[p].kind
    BY <1>3 DEF IsDocument, KindAt
  <2>2. CASE Decrypts(p)
    <3>1. FieldHolds(doc, p, key)
      BY <1>1, <2>1, <2>2 DEF Checks
    <3>2. opened[p] = Meaning(p, Opened(doc[p]))
      BY <1>2, <1>3, <2>2
    <3>3. CASE doc[p].kind = "sealed"
      <4>1. doc[p].to = key /\ doc[p].aad = <<>> /\ Opened(doc[p]) = doc[p].plain
        BY <2>1, <3>1, <3>3 DEF FieldHolds, Opens, Opened
      <4> QED  BY <3>2, <3>3, <4>1 DEF OpenedFrom
    <3>4. CASE doc[p].kind # "sealed"
      <4>1. doc[p].kind \in {"absent", "null", "empty"} /\ Opened(doc[p]) = doc[p]
        BY <2>1, <3>1, <3>4 DEF FieldHolds, Opens, Opened
      <4>2. \A v : v.kind # "quoted" => Meaning(p, v) = v
        BY DEF Meaning
      <4>3. doc[p].kind # "quoted"
        BY <4>1
      <4>4. Meaning(p, doc[p]) = doc[p]
        BY <4>2, <4>3
      <4>5. opened[p] = doc[p]
        BY <3>2, <4>1, <4>4
      <4> QED  BY <1>3, <4>1, <4>5
    <3> QED  BY <3>3, <3>4
  <2>3. CASE ~Decrypts(p)
    <3>1. opened[p] = doc[p]
      BY <1>2, <1>3, <2>3
    <3>2. CASE Shape(p) \in ResponseFields(streaming)
      BY <1>3, <2>3, <3>1, <3>2
    <3>3. CASE Shape(p) \notin ResponseFields(streaming)
      <4>1. PICK field \in ResponseFields(streaming) : Astray(Shape(p), field)
        BY <1>3, <3>3 DEF Protects
      <4>2. doc[p].kind \notin {"text", "sealed"}
        BY <1>1, <1>3, <4>1, NothingAstray
      <4> QED  BY <1>3, <3>1, <4>2
    <3> QED  BY <3>2, <3>3
  <2> QED  BY <2>2, <2>3
<1> QED  BY <1>2, <1>3 DEF opened

-----------------------------------------------------------------------------
(* Sealed bodies: the cells and the data of a record. *)

\* The pieces that end at some cuts of some cells are not empty.
Full(Cell) == Seq(Cell) \ {<<>>}
LEMMA PiecesFull ==
    ASSUME NEW Cell, NEW cells \in Seq(Cell), NEW cuts \in SUBSET (1..Len(cells))
    PROVE  PiecesOf(cells, cuts) \in Seq(Full(Cell))
<1> DEFINE n == Len(cells)
           T == {k \in Nat : PiecesOf(cells, UpTo(cuts, k)) \in Seq(Full(Cell))}
<1>0. n \in Nat /\ cuts \in SUBSET (Nat \ {0})
  BY LenProperties
<1>1. 0 \in T
  <2>1. <<>> \in Seq(Full(Cell))
    BY EmptySeq
  <2> QED  BY <1>0, <2>1, NoCuts, NoPieces
<1>2. ASSUME NEW k \in 0..(n - 1), k \in T  PROVE k + 1 \in T
  <2>1. PiecesOf(cells, UpTo(cuts, k)) \in Seq(Full(Cell)) /\ k \in Nat
    BY <1>2
  <2>2. CASE k + 1 \in cuts
    <3>1. PICK m : IsLast(cuts, k, m)
      BY <1>0, <2>1, LastExists
    <3>2. \A d \in cuts : d <= k + 1 => d <= k \/ d = k + 1
      OBVIOUS
    <3>3. m \in 0..k /\ m \in 0..Len(cells) /\ k + 1 \in 0..Len(cells) /\ k + 1 \in Nat
      BY <1>0, <3>1 DEF IsLast
    <3> DEFINE piece == Piece(cells, m, k + 1)
    <3>4. piece \in Seq(Cell)
      BY <3>3, PieceTyped
    <3>5. Len(piece) = k + 1 - m
      BY <1>0, <3>3, <3>4, SubSeqProperties DEF Piece
    <3>6. piece \in Full(Cell)
      BY <3>3, <3>4, <3>5 DEF Full
    <3>7. NextCut(cuts, k, m, k + 1)
      BY <2>1, <2>2, <3>1, <3>2 DEF NextCut
    <3> HIDE DEF piece
    <3>9. piece = Piece(cells, m, k + 1)
      BY DEF piece
    <3>8. /\ PiecesOf(cells, UpTo(cuts, k + 1)) = Longer(PiecesOf(cells, UpTo(cuts, k)), piece)
          /\ PiecesOf(cells, UpTo(cuts, k + 1)) \in Seq(Full(Cell))
      BY <1>0, <2>1, <3>6, <3>7, <3>9, OneMorePiece
    <3> QED  BY <3>3, <3>8
  <2>3. CASE k + 1 \notin cuts
    <3>1. \A d \in cuts : d <= k + 1 <=> d <= k
      BY <1>0, <2>1, <2>3
    <3>2. UpTo(cuts, k + 1) = UpTo(cuts, k)
      BY <3>1 DEF UpTo
    <3> QED  BY <2>1, <3>2
  <2> QED  BY <2>2, <2>3
<1> HIDE DEF T
<1>3. n \in T
  <2>1. n \in 0..n
    BY <1>0
  <2> HIDE DEF n
  <2> QED  BY <1>0, <1>1, <1>2, <2>1, Induction
<1>4. UpTo(cuts, n) = cuts
  <2>1. \A c \in cuts : c <= n
    BY <1>0
  <2> QED  BY <2>1 DEF UpTo
<1> QED  BY <1>3, <1>4 DEF T

\* The k-th of some cuts is one of them.
LEMMA NthIn ==
    ASSUME NEW n \in Nat, NEW cuts \in SUBSET (1..n), NEW k \in 1..Cardinality(cuts)
    PROVE  Nth(cuts, k) \in cuts
<1> DEFINE In(c) == \A j \in 1..Cardinality(c) : Nth(c, j) \in c
           T == {m \in Nat : In(UpTo(cuts, m))}
<1>0. cuts \in SUBSET (Nat \ {0}) /\ cuts \in SUBSET Nat
  OBVIOUS
<1>1. 0 \in T
  <2>1. In({})
    BY FS_EmptySet
  <2> QED  BY <1>0, <2>1, NoCuts
<1>2. ASSUME NEW m \in 0..(n - 1), m \in T  PROVE m + 1 \in T
  <2> DEFINE old == UpTo(cuts, m)
  <2>1. /\ In(old) /\ m \in Nat /\ m + 1 \in Nat
        /\ old \in SUBSET Nat /\ IsFiniteSet(old) /\ Cardinality(old) \in Nat
    <3>1. In(old) /\ m \in Nat /\ m + 1 \in Nat
      BY <1>2
    <3>2. IsFiniteSet(old) /\ Cardinality(old) \in Nat
      BY <1>0, <3>1, UpToIsFinite
    <3>3. old \in SUBSET Nat
      BY <1>0 DEF UpTo
    <3> QED  BY <3>1, <3>2, <3>3
  <2>2. CASE m + 1 \in cuts
    <3>1. UpTo(cuts, m + 1) = old \cup {m + 1} /\ (\A d \in old : d < m + 1) /\ m + 1 \notin old
      <4>1. \A d \in cuts : d <= m + 1 <=> d <= m \/ d = m + 1
        BY <1>0, <2>1
      <4>2. \A d \in old : d < m + 1
        BY <1>0, <2>1 DEF UpTo
      <4>3. ~(m + 1 < m + 1)
        BY <2>1
      <4>4. UpTo(cuts, m + 1) = old \cup {m + 1}
        <5> DEFINE c == m + 1
        <5>1. c \in cuts /\ \A d \in cuts : d <= c <=> d <= m \/ d = c
          BY <2>2, <4>1
        <5> HIDE DEF c
        <5>2. \A d : d \in UpTo(cuts, c) <=> d \in old \/ d = c
          BY <5>1 DEF UpTo
        <5> HIDE DEF old
        <5>3. UpTo(cuts, c) = old \cup {c}
          BY <5>2
        <5> QED  BY <5>3 DEF c
      <4> QED  BY <4>2, <4>3, <4>4
    <3> DEFINE c == m + 1
               new == old \cup {c}
    <3>4. c \in Nat /\ (\A d \in old : d < c) /\ c \notin old
      BY <2>1, <3>1
    <3> HIDE DEF old, c
    <3>2. Cardinality(new) = Cardinality(old) + 1
      BY <2>1, <3>4, FS_AddElement
    <3>3. ASSUME NEW j \in 1..Cardinality(new)  PROVE Nth(new, j) \in new
      <4>1. Ranked(new, j) = IF j = Cardinality(old) + 1 THEN {c} ELSE Ranked(old, j)
        BY <2>1, <3>4, RanksGrow
      <4>2. j # 0
        BY <2>1, <3>2
      <4> HIDE DEF new
      <4>3. CASE j = Cardinality(old) + 1
        <5>1. Nth(new, j) = AnyOf({c})
          BY <4>1, <4>2, <4>3, NthIsChosen
        <5>2. AnyOf({c}) = c
          BY DEF AnyOf
        <5> QED  BY <5>1, <5>2 DEF new
      <4>4. CASE j # Cardinality(old) + 1
        <5>1. Nth(new, j) = AnyOf(Ranked(old, j)) /\ Nth(old, j) = AnyOf(Ranked(old, j))
          BY <4>1, <4>2, <4>4, NthIsChosen
        <5>2. j \in 1..Cardinality(old)
          BY <2>1, <3>2, <4>4
        <5> QED  BY <2>1, <5>1, <5>2 DEF new
      <4> QED  BY <4>3, <4>4
    <3>5. new = UpTo(cuts, m + 1)
      BY <3>1 DEF c, old
    <3> HIDE DEF new
    <3>6. In(UpTo(cuts, m + 1))
      BY <3>3, <3>5
    <3> QED  BY <2>1, <3>6
  <2>3. CASE m + 1 \notin cuts
    <3>1. \A d \in cuts : d <= m + 1 <=> d <= m
      BY <1>0, <2>1, <2>3
    <3>2. UpTo(cuts, m + 1) = UpTo(cuts, m)
      BY <3>1 DEF UpTo
    <3> QED  BY <2>1, <3>2
  <2> QED  BY <2>2, <2>3
<1> HIDE DEF T
<1>3. n \in T
  <2>1. n \in 0..n
    OBVIOUS
  <2> QED  BY <1>1, <1>2, <2>1, Induction
<1>4. UpTo(cuts, n) = cuts
  <2>1. \A c \in cuts : c <= n
    OBVIOUS
  <2> QED  BY <2>1 DEF UpTo
<1> QED  BY <1>3, <1>4 DEF T

\* The lines of a record are made of its cells.
LEMMA LinesTyped ==
    ASSUME NEW Cell, NEW r \in Seq(Cell)
    PROVE  \A k \in DOMAIN Lines(r) : Lines(r)[k] \in Seq(Cell)
<1> DEFINE cuts == LineEnds(r) \cup ({Len(r)} \ {0})
           pieces == PiecesOf(r, cuts)
<1>1. cuts \in SUBSET (1..Len(r))
  BY LenProperties DEF LineEnds
<1> HIDE DEF cuts
<1>2. pieces \in Seq(Full(Cell))
  BY <1>1, PiecesFull
<1>3. Lines(r) = [k \in DOMAIN pieces |-> Text(pieces[k])]
  BY DEF Lines, cuts
<1> HIDE DEF pieces
<1>4. ASSUME NEW s \in Seq(Cell)  PROVE Text(s) \in Seq(Cell)
  <2> DEFINE those == {k \in DOMAIN s : s[k] \notin Terminators}
             c == Cardinality(those)
  <2>1. Len(s) \in Nat /\ DOMAIN s = 1..Len(s)
    BY LenProperties
  <2>2. IsFiniteSet(1..Len(s)) /\ Cardinality(1..Len(s)) = Len(s)
    <3>1. 1 \in Int /\ Len(s) \in Int
      BY <2>1
    <3>2. /\ IsFiniteSet(1..Len(s))
          /\ Cardinality(1..Len(s)) = IF 1 > Len(s) THEN 0 ELSE Len(s) - 1 + 1
      BY <3>1, FS_Interval
    <3>3. (IF 1 > Len(s) THEN 0 ELSE Len(s) - 1 + 1) = Len(s)
      BY <2>1
    <3> QED  BY <3>2, <3>3
  <2>3. those \in SUBSET (1..Len(s))
    BY <2>1
  <2> HIDE DEF those
  <2>4. c \in Nat /\ c <= Len(s)
    <3> DEFINE all == 1..Len(s)
    <3>1. IsFiniteSet(all) /\ Cardinality(all) = Len(s) /\ those \in SUBSET all
      BY <2>2, <2>3
    <3> HIDE DEF all
    <3>2. IsFiniteSet(those) /\ Cardinality(those) <= Cardinality(all)
      BY <3>1, FS_Subset
    <3>3. Cardinality(those) \in Nat
      BY <3>2, FS_CardinalityType
    <3> QED  BY <3>1, <3>2, <3>3
  <2> HIDE DEF c
  <2>5. 0 \in 0..Len(s) /\ c \in 0..Len(s)
    BY <2>1, <2>4
  <2>6. Piece(s, 0, c) \in Seq(Cell)
    BY <2>5, PieceTyped
  <2>7. Text(s) = Piece(s, 0, c)
    BY DEF Text, Piece, c, those
  <2> QED  BY <2>6, <2>7
<1>5. \A k \in DOMAIN pieces : pieces[k] \in Seq(Cell)
  BY <1>2, ElementOfSeq, LenProperties DEF Full
<1> QED  BY <1>3, <1>4, <1>5

\* Its data are data cells of it.
LEMMA DataCells ==
    ASSUME NEW Cell, NEW r \in Seq(Cell), NEW cell \in Range(Data(Lines(r)))
    PROVE  cell \in Cell /\ cell.field = "data"
<1> DEFINE lines == Lines(r)
<1>1. \A k \in DOMAIN lines : lines[k] \in Seq(Cell)
  BY LinesTyped
<1> HIDE DEF lines
<1>2. PICK k \in DOMAIN lines : HasField(lines[k], "data") /\ cell = lines[k][1]
  BY DEF Data, Range, lines
<1>3. Len(lines[k]) = 1 /\ lines[k][1].field = "data"
  BY <1>2 DEF HasField
<1>4. lines[k][1] \in Cell
  <2>1. 1 \in 1..Len(lines[k])
    BY <1>3
  <2> QED  BY <1>1, <2>1, ElementOfSeq
<1> QED  BY <1>2, <1>3, <1>4

\* The only data of a rewritten record is the opened body.
Rest(Cell) == {cell \in Cell : cell.field # "data"}
NewData(body) == [field |-> "data", value |-> "json", body |-> body]
LEMMA RewrittenTyped ==
    ASSUME NEW Cell, NEW r \in Seq(Cell), NEW body
    PROVE  Rewritten(r, body) \in Seq(Rest(Cell) \cup {NewData(body)})
<1> DEFINE data == {k \in DOMAIN r : r[k].field = "data"}
           last == CHOOSE k \in data : \A j \in data : j <= k
           Dropped(k) ==
             \/ k \in data \ {last}
             \/ k - 1 \in data \ {last} /\ r[k] \in Terminators
             \/ k - 2 \in data \ {last} /\ r[k - 1] = CR /\ r[k] = LF
           kept == {k \in DOMAIN r : ~Dropped(k)}
           new == NewData(body)
           e(k) == IF Nth(kept, k) = last THEN new ELSE r[Nth(kept, k)]
           n == Cardinality(kept)
           S == Rest(Cell) \cup {new}
<1>1. Rewritten(r, body) = [k \in 1..n |-> e(k)]
  BY DEF Rewritten, NewData
<1>2. Len(r) \in Nat /\ DOMAIN r = 1..Len(r) /\ \A k \in 1..Len(r) : r[k] \in Cell
  BY LenProperties, ElementOfSeq
<1>3. kept \in SUBSET (1..Len(r)) /\ \A k \in kept : k = last \/ r[k].field # "data"
  BY <1>2
<1> HIDE DEF kept
<1>4. n \in Nat
  <2>1. IsFiniteSet(1..Len(r))
    BY <1>2, FS_Interval
  <2> QED  BY <1>3, <2>1, FS_Subset, FS_CardinalityType
<1>5. ASSUME NEW k \in 1..n  PROVE e(k) \in S
  <2>1. Nth(kept, k) \in kept
    BY <1>2, <1>3, NthIn
  <2>2. Nth(kept, k) = last \/ r[Nth(kept, k)] \in Rest(Cell)
    BY <1>2, <1>3, <2>1 DEF Rest
  <2> QED  BY <2>2
<1> DEFINE out == [k \in 1..n |-> e(k)]
<1> HIDE DEF n, e, S, out
<1>6. out \in [1..n -> S]
  BY <1>5 DEF out
<1>7. out \in Seq(S)
  BY <1>4, <1>6, SeqDef
<1> QED  BY <1>1, <1>7 DEF out, S, new

-----------------------------------------------------------------------------
(* Sealed bodies: what the consumer is given. *)

\* What a record or a body gives to the consumer holds nothing in clear.
Unsealed(reply, streaming, cells, body) ==
    \E p \in DOMAIN body.choices :
        /\ Protects(streaming, p) /\ body.choices[p].kind \in {"text", "sealed"}
        /\ ~SealedAt(reply, cells, p, body.choices[p])
Bodies(data) == {cell.body : cell \in {c \in Range(data) : c.value = "json"}}
Clear(reply, streaming, cells, out) ==
    EventName(Lines(out)) # "error" =>
        \A body \in Bodies(Data(Lines(out))) : ~Unsealed(reply, streaming, cells, body)

\* The JSON of some cells are documents.
Documents(Cell) ==
    \A cell \in Cell : cell.value = "json" =>
        "body" \in DOMAIN cell /\ "choices" \in DOMAIN cell.body /\ IsDocument(cell.body.choices)

\* What opens of a body that came.
Showing(body, doc) == [body EXCEPT !.choices = doc]
LEMMA OpenedClear ==
    ASSUME NEW reply, NEW cells, Documents(Range(cells)), NEW streaming \in BOOLEAN,
           NEW cell \in Range(cells), cell.value = "json",
           NEW opened, opened = DecryptResponse(cell.body.choices, reply, streaming), opened.ok
    PROVE  ~Unsealed(reply, streaming, cells, Showing(cell.body, opened.doc))
<1> DEFINE doc == cell.body.choices
           body == Showing(cell.body, opened.doc)
<1>1. IsDocument(doc) /\ "choices" \in DOMAIN cell.body
  BY DEF Documents
<1>2. body.choices = opened.doc
  BY <1>1 DEF Showing
<1> HIDE DEF doc, body
<1>3. opened = DecryptResponse(doc, reply, streaming)
  BY DEF doc
<1>4. /\ DOMAIN opened.doc = DOMAIN doc
      /\ \A p \in DOMAIN doc : Protects(streaming, p) /\ opened.doc[p].kind \in {"text", "sealed"} =>
             OpenedFrom(doc, reply, p, opened.doc[p])
  BY <1>1, <1>3, DecryptClear
<1>5. ASSUME NEW p \in DOMAIN body.choices, Protects(streaming, p), body.choices[p].kind \in {"text", "sealed"}
      PROVE  SealedAt(reply, cells, p, body.choices[p])
  <2>1. p \in DOMAIN doc /\ OpenedFrom(doc, reply, p, body.choices[p])
    BY <1>2, <1>4, <1>5
  <2> QED  BY <2>1 DEF SealedAt, OpenedFrom, doc
<1> QED  BY <1>5 DEF Unsealed, body

\* One cell that a body is made of.
LEMMA OneCell ==
    ASSUME NEW body, NEW Cell, NEW r \in Seq(Rest(Cell) \cup {NewData(body)}),
           NEW b \in Bodies(Data(Lines(r)))
    PROVE  b = body
<1>1. PICK cell \in Range(Data(Lines(r))) : b = cell.body
  BY DEF Bodies
<1>2. cell \in Rest(Cell) \cup {NewData(body)} /\ cell.field = "data"
  BY DataCells
<1> QED  BY <1>1, <1>2 DEF Rest, NewData

\* transform
LEMMA TransformClear ==
    ASSUME NEW reply, NEW cells, Documents(Range(cells)), NEW r \in Seq(Range(cells)),
           reply # "none", NEW id, NEW route,
           NEW t, t = Transform(r, Lines(r), Data(Lines(r)), reply, id, route), t.ok
    PROVE  Clear(reply, TRUE, cells, t.out)
<1> DEFINE lines == Lines(r)
           data == Data(lines)
           key == reply
           json == Json(data)
<1>0. Utf8(r)
  BY DEF Transform, Refused
<1>1. CASE EventName(lines) = "error"
  <2>1. t.out = r
    BY <1>0, <1>1 DEF Transform, Passed
  <2> QED  BY <1>1, <2>1 DEF Clear
<1>2. ASSUME NoData(data) \/ Is(data, "done"), t.out = r  PROVE Clear(reply, TRUE, cells, t.out)
  <2>1. DOMAIN data = {} \/ \E k \in DOMAIN data : DOMAIN data = {k} /\ data[k].value # "json"
    BY <1>2 DEF NoData, Is
  <2>2. \A k \in DOMAIN data : data[k].value # "json"
    BY <2>1
  <2> HIDE DEF data
  <2>3. Bodies(data) = {}
    BY <2>2 DEF Bodies, Range
  <2> QED  BY <1>2, <2>3 DEF Clear, data
<1>3. CASE EventName(lines) # "error" /\ (NoData(data) \/ Is(data, "done"))
  <2>1. t.out = r
    BY <1>0, <1>3 DEF Transform, Passed
  <2> QED  BY <1>2, <1>3, <2>1
<1>4. CASE ~(NoData(data) \/ Is(data, "done") \/ EventName(lines) = "error")
  <2> DEFINE body == CHOOSE b \in json : TRUE
             found == ReceiptId(body, route)
             kept == IF found = "none" THEN id ELSE found
             opened == DecryptResponse(body.choices, key, TRUE)
  <2>1. t = Parsed(r, json, key, id, route)
    BY <1>0, <1>4 DEF Transform
  <2> HIDE DEF json, lines, data
  <2>2. json # {}
    BY <2>1 DEF Parsed, Refused
  <2>3. body \in json
    BY <2>2
  <2> HIDE DEF body, found
  <2>4. t = Identified(r, body, found, key, id)
    BY <2>1, <2>2 DEF Parsed, body, found
  <2>5. \/ body.choices = Absent /\ t = Passed(r, kept)
        \/ body.choices # Absent /\ t = Decrypted(r, body, opened, kept)
    <3>1. \A x : ~Refused(x).ok
      BY DEF Refused
    <3>2. t = Refused(id) \/ t = IF key = "none" THEN Passed(r, kept)
                                ELSE IF ~body.object THEN Refused(kept)
                                ELSE IF body.choices = Absent THEN Passed(r, kept)
                                ELSE Decrypted(r, body, opened, kept)
      BY <2>4, Zenon DEF Identified
    <3>3. key # "none"
      OBVIOUS
    <3> HIDE DEF key, kept, opened
    <3> QED  BY <3>1, <3>2, <3>3
  <2>6. PICK cell \in Range(data) :
           cell.value = "json" /\ body = cell.body /\ \A other \in Range(data) : other.value = "json" => other = cell
    <3> DEFINE solid == {k \in DOMAIN data : data[k].value # "empty"}
    <3>1. PICK j \in solid : solid = {j} /\ data[j].value = "json" /\ body = data[j].body
      <4> DEFINE those == {k \in solid : solid = {k} /\ data[k].value = "json"}
      <4>1. json = {data[k].body : k \in those}
        BY DEF json, Json
      <4> HIDE DEF solid
      <4> QED  BY <2>3, <4>1
    <3>2. \A k \in DOMAIN data : data[k].value = "json" => k = j
      BY <3>1
    <3>3. j \in DOMAIN data
      BY <3>1
    <3> QED  BY <3>1, <3>2, <3>3 DEF Range
  <2>7. cell \in Range(cells)
    BY DataCells DEF data, lines
  <2>8. CASE body.choices = Absent /\ t = Passed(r, kept)
    <3>1. t.out = r
      BY <2>8 DEF Passed
    <3>2. \A b \in Bodies(data) : b = body
      BY <2>6 DEF Bodies
    <3>3. DOMAIN body.choices = {}
      BY <2>8 DEF Absent
    <3>4. ~Unsealed(reply, TRUE, cells, body)
      BY <3>3 DEF Unsealed
    <3> QED  BY <3>1, <3>2, <3>4 DEF Clear, data, lines
  <2>9. CASE t = Decrypted(r, body, opened, kept)
    <3> DEFINE new == Showing(body, opened.doc)
    <3>1. opened.ok /\ t.out = Rewritten(r, new)
      <4>1. Showing(body, opened.doc) = [body EXCEPT !.choices = opened.doc]
        BY DEF Showing
      <4> HIDE DEF opened, kept, new
      <4>2. t = IF opened.ok THEN Passed(Rewritten(r, Showing(body, opened.doc)), kept) ELSE Refused(kept)
        BY <2>9, <4>1, Zenon DEF Decrypted
      <4>3. ~Refused(kept).ok /\ \A x : Passed(x, kept).out = x
        BY DEF Refused, Passed
      <4>4. opened.ok /\ t.out = Rewritten(r, Showing(body, opened.doc))
        BY <4>2, <4>3
      <4> QED  BY <4>4 DEF new
    <3>2. new = Showing(cell.body, opened.doc)
          /\ opened = DecryptResponse(cell.body.choices, reply, TRUE)
      BY <2>6
    <3> HIDE DEF opened, new
    <3>6. cell.value = "json" /\ opened.ok /\ TRUE \in BOOLEAN
      BY <2>6, <3>1
    <3>7. ~Unsealed(reply, TRUE, cells, Showing(cell.body, opened.doc))
      BY <2>7, <3>2, <3>6, OpenedClear
    <3>3. ~Unsealed(reply, TRUE, cells, new)
      BY <3>2, <3>7
    <3>4. t.out \in Seq(Rest(Range(cells)) \cup {NewData(new)})
      BY <3>1, RewrittenTyped
    <3>5. \A b \in Bodies(Data(Lines(t.out))) : b = new
      BY <3>4, OneCell
    <3> QED  BY <3>3, <3>5 DEF Clear
  <2> QED  BY <2>5, <2>8, <2>9
<1> QED  BY <1>1, <1>3, <1>4

\* What the generator of a sealed body has given to the consumer.
CleanStream(reply, cells, s) ==
    /\ HasStream(s)
    /\ \E S : s.yielded \in Seq(S)
    /\ \A k \in DOMAIN s.yielded : Clear(reply, TRUE, cells, s.yielded[k])

\* A record that fails yields nothing.
LEMMA NothingYielded ==
    ASSUME NEW c, NEW s, NEW record, HasStream(s), ~DeliverRecord(c, s, record).ok
    PROVE  DeliverRecord(c, s, record).yielded = s.yielded /\ HasStream(DeliverRecord(c, s, record))
<1> DEFINE parsed == ParsedOf(s, record)
           lines == Lines(parsed)
           data == Data(lines)
           seen == SeenOf(c, s, lines, data)
           t == TransformOf(c, s, parsed, lines, data)
           next == DeliverRecord(c, s, record)
<1>1. CASE ~s.ok
  <2>1. next = s
    BY <1>1 DEF DeliverRecord
  <2> QED  BY <2>1
<1>2. CASE s.ok
  <2>1. next = Yield(c, s, record, seen, t)
    BY <1>2 DEF DeliverRecord, DeliverParsed, Deliver, ParsedOf, SeenOf, TransformOf
  <2> HIDE DEF seen, t, next
  <2>2. next = [s EXCEPT !.ok = FALSE]
    <3>1. ~next.ok
      BY DEF next
    <3> QED  BY <2>1, <3>1 DEF Yield
  <2> QED  BY <2>2 DEF HasStream, next
<1> QED  BY <1>1, <1>2

LEMMA RecordClear ==
    ASSUME NEW cells, Documents(Range(cells)), NEW c, c.e2ee, c.reply # "none",
           NEW s, CleanStream(c.reply, cells, s), NEW r \in Full(Range(cells))
    PROVE  CleanStream(c.reply, cells, DeliverRecord(c, s, r))
<1> DEFINE next == DeliverRecord(c, s, r)
           parsed == ParsedOf(s, r)
           t == TransformOf(c, s, parsed, Lines(parsed), Data(Lines(parsed)))
<1>1. HasStream(s)
  BY DEF CleanStream
<1>2. CASE ~next.ok
  <2>1. next.yielded = s.yielded /\ HasStream(next)
    BY <1>1, <1>2, NothingYielded
  <2> HIDE DEF next
  <2> QED  BY <2>1 DEF CleanStream, next
<1>3. CASE next.ok
  <2>1. s.ok
    BY <1>3 DEF DeliverRecord
  <2>2. HasStream(next) /\ t.ok /\ next.yielded = Longer(s.yielded, t.out)
    <3>1. YieldedOK(c, s, r, next)
      BY <1>1, <2>1, RecordYields
    <3> HIDE DEF next
    <3> QED  BY <1>3, <3>1 DEF YieldedOK
  <2>3. parsed \in Seq(Range(cells))
    <3>1. r \in Seq(Range(cells)) /\ r # <<>>
      BY DEF Full
    <3>2. Tail(r) \in Seq(Range(cells))
      BY <3>1, HeadTailProperties
    <3> QED  BY <3>1, <3>2 DEF ParsedOf
  <2>4. t = Transform(parsed, Lines(parsed), Data(Lines(parsed)), c.reply, s.id, c.route)
    BY DEF TransformOf, ReplyKey
  <2> HIDE DEF t, parsed, next
  <2>5. Clear(c.reply, TRUE, cells, t.out)
    BY <2>2, <2>3, <2>4, TransformClear
  <2>6. PICK S : s.yielded \in Seq(S)
    BY DEF CleanStream
  <2> DEFINE out == t.out
             More == S \cup {out}
  <2>7. s.yielded \in Seq(More) /\ out \in More
    BY <2>6
  <2> HIDE DEF More, out
  <2>8. /\ Longer(s.yielded, out) \in Seq(More)
        /\ Extends(Longer(s.yielded, out), s.yielded, Len(s.yielded) + 1, out)
    BY <2>7, LongerAt
  <2>9. \A k \in DOMAIN Longer(s.yielded, out) : Clear(c.reply, TRUE, cells, Longer(s.yielded, out)[k])
    BY <2>5, <2>8 DEF Extends, CleanStream, out
  <2>10. next.yielded = Longer(s.yielded, out)
    BY <2>2 DEF out
  <2> QED  BY <2>2, <2>8, <2>9, <2>10 DEF CleanStream, next
<1> QED  BY <1>2, <1>3

LEMMA AllClear ==
    ASSUME NEW cells, Documents(Range(cells)), call.e2ee, call.reply # "none",
           CleanStream(call.reply, cells, stream), NEW records \in Seq(Full(Range(cells)))
    PROVE  CleanStream(call.reply, cells, Delivered(records))
<1> DEFINE n == Len(records)
<1>1. n \in Nat
  BY LenProperties
<1>2. PICK f : DeliveryTrace(f, records, n)
  <2> HIDE DEF n
  <2>1. Len(records) = n
    BY DEF n
  <2> QED  BY <1>1, <2>1, DeliverySteps
<1>3. /\ f[0] = stream
      /\ \A k \in 0..(n - 1) : f[k + 1] = DeliverRecord(call, f[k], records[k + 1])
      /\ Delivered(records) = f[n]
  BY <1>2 DEF DeliveryTrace
<1> DEFINE T == {k \in Nat : CleanStream(call.reply, cells, f[k])}
<1>4. 0 \in T
  BY <1>3
<1>5. ASSUME NEW k \in 0..(n - 1), k \in T  PROVE k + 1 \in T
  <2> DEFINE r == records[k + 1]
  <2>1. CleanStream(call.reply, cells, f[k]) /\ k + 1 \in 1..n /\ k + 1 \in Nat
    BY <1>1, <1>5
  <2>2. r \in Full(Range(cells))
    BY <2>1, ElementOfSeq
  <2>3. f[k + 1] = DeliverRecord(call, f[k], r)
    BY <1>3
  <2> HIDE DEF r
  <2>4. CleanStream(call.reply, cells, DeliverRecord(call, f[k], r))
    BY <2>1, <2>2, RecordClear
  <2> QED  BY <2>1, <2>3, <2>4
<1> HIDE DEF T
<1>6. n \in T
  <2>1. n \in 0..n
    BY <1>1
  <2> HIDE DEF n
  <2> QED  BY <1>1, <1>4, <1>5, <2>1, Induction
<1> QED  BY <1>3, <1>6 DEF T

\* What was sealed in some bytes was sealed in more of them.
LEMMA ClearStays ==
    ASSUME NEW reply, NEW cells, NEW more, Range(cells) \subseteq Range(more), NEW s, CleanStream(reply, cells, s)
    PROVE  CleanStream(reply, more, s)
<1>1. \A p, v : SealedAt(reply, cells, p, v) => SealedAt(reply, more, p, v)
  BY DEF SealedAt
<1>2. \A body : Unsealed(reply, TRUE, more, body) => Unsealed(reply, TRUE, cells, body)
  BY <1>1 DEF Unsealed
<1>3. \A out : Clear(reply, TRUE, cells, out) => Clear(reply, TRUE, more, out)
  BY <1>2 DEF Clear
<1> QED  BY <1>3 DEF CleanStream

LEMMA RangeTyped ==
    ASSUME NEW Cell, NEW cells \in Seq(Cell)
    PROVE  Range(cells) \subseteq Cell /\ cells \in Seq(Range(cells))
<1>1. Len(cells) \in Nat /\ DOMAIN cells = 1..Len(cells) /\ \A i \in 1..Len(cells) : cells[i] \in Cell
  BY LenProperties, ElementOfSeq
<1>2. Range(cells) \subseteq Cell
  BY <1>1 DEF Range
<1>3. cells \in [1..Len(cells) -> Range(cells)]
  BY <1>1, LenProperties DEF Range
<1> QED  BY <1>1, <1>2, <1>3, SeqDef

LEMMA RangeJoined ==
    ASSUME NEW Cell, NEW cells \in Seq(Cell), NEW more \in Seq(Cell)
    PROVE  Range(cells) \subseteq Range(Joined(cells, more))
<1>1. /\ Len(cells) \in Nat /\ DOMAIN cells = 1..Len(cells) /\ Len(more) \in Nat
      /\ Len(Joined(cells, more)) = Len(cells) + Len(more)
      /\ \A i \in 1..Len(cells) : Joined(cells, more)[i] = cells[i]
      /\ Joined(cells, more) \in Seq(Cell)
  BY ConcatProperties, LenProperties DEF Joined
<1>2. DOMAIN Joined(cells, more) = 1..(Len(cells) + Len(more))
  BY <1>1, LenProperties
<1>3. \A i \in DOMAIN cells : i \in DOMAIN Joined(cells, more)
  BY <1>1, <1>2
<1> QED  BY <1>1, <1>3 DEF Range

\* A decoder knows no other cells than those it was given.
LEMMA ReadyNarrow ==
    ASSUME NEW Cell, NEW D, NEW d, NEW cells \in Seq(D), NEW records, Ready(Cell, d, cells, records)
    PROVE  Ready(D, d, cells, records)
<1>1. PICK b \in 0..Len(cells) : IsRest(d.pending, cells, b)
  BY DEF Ready
<1>2. d.pending \in Seq(D)
  BY <1>1, RestOf
<1>3. d \in [pending : Seq(D), scan : Nat, line : Nat]
  BY <1>2 DEF Ready
<1>4. RecordEnds(cells, FALSE) \in SUBSET (1..Len(cells))
  BY StopsAt
<1> DEFINE ends == RecordEnds(cells, FALSE)
<1>5. PiecesOf(cells, ends) \in Seq(Full(D))
  BY <1>4, PiecesFull
<1>6. records = PiecesOf(cells, ends)
  BY DEF Ready
<1> HIDE DEF ends
<1>7. records \in Seq(Seq(D))
  <2>1. Full(D) \subseteq Seq(D)
    BY DEF Full
  <2> QED  BY <1>5, <1>6, <2>1, SeqMonotonic
<1> QED  BY <1>3, <1>7 DEF Ready

\* Records that complete others to full ones are full.
LEMMA LastFull ==
    ASSUME NEW S, NEW T, NEW before \in Seq(T), NEW records \in Seq(T), Joined(before, records) \in Seq(S)
    PROVE  records \in Seq(S)
<1>1. /\ Len(before) \in Nat /\ Len(records) \in Nat
      /\ Len(Joined(before, records)) = Len(before) + Len(records)
      /\ \A i \in 1..Len(records) : Joined(before, records)[Len(before) + i] = records[i]
      /\ records \in [1..Len(records) -> T]
  <2>1. Len(before) \in Nat /\ Len(records) \in Nat
    BY LenProperties
  <2>2. /\ Len(Joined(before, records)) = Len(before) + Len(records)
        /\ \A i \in 1..(Len(before) + Len(records)) :
              Joined(before, records)[i] = IF i <= Len(before) THEN before[i] ELSE records[i - Len(before)]
    BY <2>1, ConcatProperties DEF Joined
  <2>3. ASSUME NEW i \in 1..Len(records)  PROVE Joined(before, records)[Len(before) + i] = records[i]
    <3>1. /\ Len(before) + i \in 1..(Len(before) + Len(records)) /\ ~(Len(before) + i <= Len(before))
          /\ (Len(before) + i) - Len(before) = i
      BY <2>1
    <3> QED  BY <2>2, <3>1
  <2> QED  BY <2>1, <2>2, <2>3, LenProperties
<1>2. ASSUME NEW i \in 1..Len(records)  PROVE records[i] \in S
  <2>1. Len(before) + i \in 1..Len(Joined(before, records))
    BY <1>1
  <2>2. Joined(before, records)[Len(before) + i] \in S
    BY <2>1, ElementOfSeq
  <2> QED  BY <1>1, <2>2
<1>3. records \in [1..Len(records) -> S]
  BY <1>1, <1>2
<1> QED  BY <1>1, <1>3, SeqDef

LEMMA DocumentsRange ==
    ASSUME NEW Cell, Documents(Cell), NEW cells \in Seq(Cell)
    PROVE  Documents(Range(cells))
<1>1. Range(cells) \subseteq Cell
  BY RangeTyped
<1> QED  BY <1>1 DEF Documents

LEMMA SealedCall ==
    ASSUME CallInv, call.e2ee
    PROVE  call.reply # "none"
BY RustSendAssumption DEF CallInv

LEMMA ChunkClear ==
    ASSUME NEW Cell, Documents(Cell), CallInv, StreamInv(Cell), NEW cells \in Seq(Cell), Chunk(cells),
           call.e2ee, CleanStream(call.reply, wire, stream)
    PROVE  CleanStream(call.reply, wire', stream')
<1> DEFINE before == RecordsOf(wire, FALSE)
           pushed == Push(decoder, cells)
           all == Joined(wire, cells)
           D == Range(all)
<1>1. wire \in Seq(Cell) /\ Ready(Cell, decoder, wire, before)
  BY DEF StreamInv, Chunk
<1>2. wire' = all /\ stream' = Delivered(pushed.records)
  BY DEF Chunk, Joined
<1>3. all \in Seq(Cell)
  BY <1>1, JoinedTyped
<1>4. all \in Seq(D) /\ Documents(D) /\ Range(wire) \subseteq D /\ wire \in Seq(Range(wire))
  BY <1>1, <1>3, RangeTyped, DocumentsRange, RangeJoined
<1> HIDE DEF before, D
<1>5. wire \in Seq(D) /\ cells \in Seq(D)
  BY <1>1, <1>4, SeqMonotonic, LastFull
<1>6. Ready(D, decoder, wire, before)
  BY <1>1, <1>5, ReadyNarrow
<1>7. before \in Seq(Seq(D))
  BY <1>6, ReadyRecords
<1>8. pushed.records \in Seq(Seq(D)) /\ Ready(D, pushed.decoder, all, Joined(before, pushed.records))
  BY <1>5, <1>6, PushReady
<1> HIDE DEF pushed, all
<1>9. Joined(before, pushed.records) \in Seq(Full(D))
  <2>1. RecordEnds(all, FALSE) \in SUBSET (1..Len(all))
    BY <1>4, StopsAt
  <2>2. PiecesOf(all, RecordEnds(all, FALSE)) \in Seq(Full(D))
    BY <1>4, <2>1, PiecesFull
  <2>3. Joined(before, pushed.records) = PiecesOf(all, RecordEnds(all, FALSE))
    BY <1>8 DEF Ready
  <2> QED  BY <2>2, <2>3
<1>10. pushed.records \in Seq(Full(D))
  BY <1>7, <1>8, <1>9, LastFull
<1>11. CleanStream(call.reply, all, stream) /\ call.reply # "none"
  BY <1>4, ClearStays, SealedCall DEF D
<1>12. CleanStream(call.reply, all, Delivered(pushed.records))
  BY <1>4, <1>10, <1>11, AllClear DEF D
<1> QED  BY <1>2, <1>12

LEMMA EndClear ==
    ASSUME NEW Cell, Documents(Cell), CallInv, StreamInv(Cell), EndStream,
           call.e2ee, CleanStream(call.reply, wire, stream)
    PROVE  CleanStream(call.reply, wire', stream')
<1> DEFINE before == RecordsOf(wire, FALSE)
           records == PushEof(decoder).records
           D == Range(wire)
           ends == RecordEnds(wire, TRUE)
           cuts == ends \cup ({Len(wire)} \ {0})
<1>1. wire \in Seq(Cell) /\ Ready(Cell, decoder, wire, before) /\ pc = "streaming" /\ StreamEnds(Delivered(records))
  BY DEF StreamInv, EndStream
<1>2. wire' = wire /\ stream' = Delivered(records)
  BY <1>1 DEF StreamEnds, Finish
<1>3. wire \in Seq(D) /\ Documents(D)
  BY <1>1, RangeTyped, DocumentsRange
<1> HIDE DEF before, D
<1>4. Ready(D, decoder, wire, before)
  BY <1>1, <1>3, ReadyNarrow
<1>5. before \in Seq(Seq(D))
  BY <1>4, ReadyRecords
<1>6. records \in Seq(Seq(D)) /\ Joined(before, records) = RecordsOf(wire, TRUE)
  BY <1>3, <1>4, PushEofWhole
<1> HIDE DEF records
<1>7. RecordsOf(wire, TRUE) \in Seq(Full(D))
  <2>1. ends \in SUBSET (1..Len(wire)) /\ Len(wire) \in Nat
    BY <1>3, StopsAt, LenProperties
  <2>2. RecordsOf(wire, TRUE) = PiecesOf(wire, cuts)
    BY DEF RecordsOf
  <2> HIDE DEF ends
  <2>4. \A c \in {Len(wire)} \ {0} : c \in 1..Len(wire)
    BY <2>1
  <2>3. cuts \in SUBSET (1..Len(wire))
    BY <2>1, <2>4
  <2> HIDE DEF cuts
  <2> QED  BY <1>3, <2>2, <2>3, PiecesFull
<1>8. records \in Seq(Full(D))
  BY <1>5, <1>6, <1>7, LastFull
<1>9. CleanStream(call.reply, wire, Delivered(records))
  BY <1>3, <1>8, AllClear, SealedCall DEF D
<1> QED  BY <1>2, <1>9

\* What the consumer has of a sealed body before and while it comes.
ClearInv ==
    /\ pc \in {"ready", "sent", "buffering"} => HasStream(stream) /\ stream.yielded = <<>>
    /\ pc = "streaming" /\ call.e2ee => CleanStream(call.reply, wire, stream)

LEMMA ClearInit == Init => ClearInv
BY DEF Init, ClearInv, NewStream, HasStream

LEMMA ClearStep ==
    ASSUME NEW Cell, \A c \in Calls : \A w \in Seq(Cell) : Arrivals(c, w) \subseteq Seq(Cell),
           Documents(Cell), CallInv, StreamInv(Cell), ClearInv, [Next]_vars
    PROVE  ClearInv'
<1>1. ASSUME UNCHANGED <<call, wire, stream>>, pc' = pc \/ pc' \in {"done", "failed", "passed"}
      PROVE  ClearInv'
  BY <1>1 DEF ClearInv
<1>2. CASE Send \/ SystemoneCreate
  <2>1. stream' = stream /\ pc' \in {"sent", "failed"} /\ pc = "ready"
    BY <1>2 DEF Send, SystemoneCreate, Leave, Give
  <2> QED  BY <2>1 DEF ClearInv
<1>3. ASSUME NEW head, Respond(head)  PROVE ClearInv'
  <2>1. /\ call' = call /\ wire' = wire /\ pc = "sent" /\ pc' \in {"streaming", "buffering", "passed", "failed"}
        /\ pc' = "streaming" => stream' = stream
        /\ stream' = stream \/ stream' = [stream EXCEPT !.id = head.generation]
    BY <1>3 DEF Respond
  <2>2. stream = NewStream(call) /\ stream.yielded = <<>>
    BY <2>1 DEF StreamInv, ClearInv
  <2>3. HasStream(stream) /\ stream.yielded \in Seq({}) /\ DOMAIN stream.yielded = {}
    BY <2>2, EmptySeq DEF NewStream, HasStream
  <2>4. CleanStream(call.reply, wire, stream)
    BY <2>3 DEF CleanStream
  <2>5. stream'.yielded = <<>> /\ HasStream(stream')
    BY <2>1, <2>2, <2>3 DEF HasStream
  <2> QED  BY <2>1, <2>4, <2>5 DEF ClearInv
<1>4. ASSUME NEW cells \in Arrivals(call, wire), Chunk(cells)  PROVE ClearInv'
  <2>1. cells \in Seq(Cell)
    BY DEF CallInv, StreamInv
  <2>2. call' = call /\ pc = "streaming" /\ pc' \in {"streaming", "failed"}
    BY <1>4 DEF Chunk
  <2>3. call.e2ee => CleanStream(call.reply, wire', stream')
    BY <1>4, <2>1, <2>2, ChunkClear DEF ClearInv
  <2> QED  BY <2>2, <2>3 DEF ClearInv
<1>5. ASSUME NEW cells, Buffer(cells)  PROVE ClearInv'
  BY <1>5 DEF Buffer, ClearInv
<1>6. CASE Cut
  BY <1>1, <1>6 DEF Cut, Give
<1>7. ASSUME Give("failed")  PROVE ClearInv'
  BY <1>1, <1>7 DEF Give
<1>8. ASSUME NEW after, NEW id, NEW ok, Finish(after, id, ok)  PROVE ClearInv'
  <2>1. pc' \in {"done", "failed"}
    BY <1>8 DEF Finish
  <2> QED  BY <2>1 DEF ClearInv
<1>9. CASE EndStream \/ EndBuffered
  BY <1>7, <1>8, <1>9 DEF EndStream, StreamEnds, EndBuffered, BodyEnds
<1>10. ASSUME NEW w, VerifyResponse(w) \/ VerifyByHand(w)  PROVE ClearInv'
  BY <1>1, <1>10 DEF VerifyResponse, VerifyByHand
<1>11. CASE UNCHANGED vars
  BY <1>1, <1>11 DEF vars
<1> QED  BY <1>2, <1>3, <1>4, <1>5, <1>6, <1>9, <1>10, <1>11 DEF Next

\* A whole body.
LEMMA BodyClear ==
    ASSUME NEW Cell, Documents(Cell), StreamInv(Cell), ClearInv, CallInv, call.e2ee, EndBuffered
    PROVE  \A k \in DOMAIN stream'.yielded : Clear(call.reply, FALSE, wire, stream'.yielded[k])
<1>1. pc = "buffering" /\ stream.yielded = <<>> /\ HasStream(stream) /\ wire \in Seq(Cell)
  BY DEF EndBuffered, ClearInv, StreamInv
<1>2. CASE stream' = stream
  BY <1>1, <1>2
<1>3. CASE stream' # stream
  <2>1. PICK body \in Document : BodyEnds(body, DecryptResponse(body.choices, call.reply, FALSE))
    BY <1>3 DEF EndBuffered, Give
  <2> DEFINE cell == wire[1]
             opened == DecryptResponse(cell.body.choices, call.reply, FALSE)
             new == [cell EXCEPT !.body.choices = opened.doc]
             after == [stream EXCEPT !.yielded = <<<<new>>>>]
             shown == Showing(cell.body, opened.doc)
  <2>2. Len(wire) = 1 /\ cell.value = "json" /\ body = cell.body
    BY <2>1 DEF Document
  <2>3. stream' = after /\ opened.ok
    <3>1. \E id, ok : Finish(after, id, ok /\ opened.ok)
      BY <2>1, <2>2 DEF BodyEnds
    <3> HIDE DEF after, opened
    <3> QED  BY <1>1, <1>3, <3>1 DEF Finish
  <2>4. cell \in Range(wire) /\ cell \in Cell /\ Documents(Range(wire))
    <3>1. 1 \in 1..Len(wire) /\ DOMAIN wire = 1..Len(wire)
      BY <1>1, <2>2, LenProperties
    <3> QED  BY <1>1, <3>1, ElementOfSeq, DocumentsRange DEF Range
  <2>5. "body" \in DOMAIN cell /\ "choices" \in DOMAIN cell.body
    BY <2>2, <2>4 DEF Documents
  <2>6. new.body = shown
    BY <2>5 DEF Showing
  <2> HIDE DEF cell, opened, new, shown
  <2>7. ~Unsealed(call.reply, FALSE, wire, shown)
    BY <2>2, <2>3, <2>4, OpenedClear DEF opened, shown
  <2>8. ASSUME NEW b \in Bodies(Data(Lines(<<new>>)))  PROVE b = shown
    <3>1. <<new>> \in Seq({new})
      OBVIOUS
    <3>2. PICK c \in Range(Data(Lines(<<new>>))) : b = c.body
      BY DEF Bodies
    <3>3. c \in {new}
      BY <3>1, <3>2, DataCells
    <3> QED  BY <2>6, <3>2, <3>3
  <2>9. Clear(call.reply, FALSE, wire, <<new>>)
    BY <2>7, <2>8 DEF Clear
  <2>10. stream'.yielded = <<<<new>>>>
    BY <1>1, <2>3 DEF HasStream
  <2>11. DOMAIN <<<<new>>>> = {1} /\ <<<<new>>>>[1] = <<new>>
    OBVIOUS
  <2> QED  BY <2>9, <2>10, <2>11
<1> QED  BY <1>2, <1>3

\* Whatever arrives with E2EE, in records or whole, and however it is cut: the
\* consumer is given no text at a protected place of a JSON body, in whichever
\* elements, that did not arrive there as a ciphertext to the reply key
\* (decrypt_response, transform, EndBuffered).  A response has no associated
\* data, so nothing is said of the field or the model it was sealed for.  The
\* JSON of the cells are documents: every path leads through its containers.
THEOREM OnlySealedIsShown ==
    ASSUME NEW Cell, \A c \in Calls : \A w \in Seq(Cell) : Arrivals(c, w) \subseteq Seq(Cell),
           Documents(Cell)
    PROVE  Spec => NothingInClear
<1> DEFINE Given(k) ==
               LET lines == Lines(stream'.yielded[k])
                   bodies == {cell.body : cell \in {c \in Range(Data(lines)) : c.value = "json"}}
               IN EventName(lines) # "error" =>
                    \A body \in bodies : \A p \in DOMAIN body.choices :
                       /\ Protects(pc = "streaming", p)
                       /\ body.choices[p].kind \in {"text", "sealed"}
                       => SealedAt(call.reply, wire', p, body.choices[p])
<1>1. ASSUME CallInv, StreamInv(Cell), ClearInv, [Next]_vars
      PROVE  [call.e2ee /\ pc \in {"streaming", "buffering"}
                => \A k \in DOMAIN stream'.yielded : Given(k)]_vars
  <2> SUFFICES ASSUME Next, call.e2ee, pc \in {"streaming", "buffering"}, NEW k \in DOMAIN stream'.yielded
               PROVE  Given(k)
    BY <1>1
  <2>1. Clear(call.reply, pc = "streaming", wire', stream'.yielded[k])
    <3>1. CASE pc = "streaming"
      <4>1. CleanStream(call.reply, wire, stream)
        BY <1>1, <3>1 DEF ClearInv
      <4>2. ASSUME NEW cells \in Arrivals(call, wire), Chunk(cells)
            PROVE  CleanStream(call.reply, wire', stream')
        <5>1. cells \in Seq(Cell)
          BY <1>1 DEF CallInv, StreamInv
        <5> QED  BY <1>1, <4>1, <4>2, <5>1, ChunkClear
      <4>3. ASSUME EndStream  PROVE CleanStream(call.reply, wire', stream')
        BY <1>1, <4>1, <4>3, EndClear
      <4>4. ASSUME UNCHANGED <<wire, stream>>  PROVE CleanStream(call.reply, wire', stream')
        BY <4>1, <4>4
      <4>5. (\E cells \in Arrivals(call, wire) : Chunk(cells)) \/ EndStream \/ UNCHANGED <<wire, stream>>
        BY <3>1 DEF Next, Send, SystemoneCreate, Respond, Cut, Give, Buffer, EndBuffered, VerifyResponse, VerifyByHand
      <4>6. CleanStream(call.reply, wire', stream')
        BY <4>2, <4>3, <4>4, <4>5
      <4>7. (pc = "streaming") = TRUE
        BY <3>1
      <4> QED  BY <4>6, <4>7 DEF CleanStream
    <3>2. CASE pc = "buffering"
      <4>1. (pc = "streaming") = FALSE
        BY <3>2
      <4>2. CASE EndBuffered
        <5>1. wire' = wire
          BY <4>2 DEF EndBuffered, BodyEnds, Finish, Give
        <5>2. Clear(call.reply, FALSE, wire, stream'.yielded[k])
          BY <1>1, <4>2, BodyClear
        <5> QED  BY <4>1, <5>1, <5>2
      <4>3. CASE stream' = stream
        BY <1>1, <3>2, <4>3 DEF ClearInv
      <4>4. EndBuffered \/ stream' = stream
        BY <3>2 DEF Next, Send, SystemoneCreate, Respond, Cut, Give, Chunk, Buffer, EndStream, VerifyResponse, VerifyByHand
      <4> QED  BY <4>2, <4>3, <4>4
    <3> QED  BY <3>1, <3>2
  <2>2. Clear(call.reply, pc = "streaming", wire', stream'.yielded[k]) => Given(k)
    BY DEF Clear, Unsealed, Bodies
  <2> QED  BY <2>1, <2>2
<1>2. Init => ClearInv
  BY ClearInit
<1>3. CallInv /\ StreamInv(Cell) /\ ClearInv /\ [Next]_vars => ClearInv'
  BY ClearStep
<1>4. Spec => []ClearInv
  BY <1>2, <1>3, StreamInvariance, PTL DEF Spec
<1> QED  BY <1>1, <1>4, StreamInvariance, PTL DEF Spec, NothingInClear

-----------------------------------------------------------------------------
(***************************************************************************)
(* Deployments (RustDeployment).                                           *)
(*                                                                         *)
(* While the attestations of an image are fetched, `visited` holds exactly *)
(* the pages asked for and the next page is the first one but for its      *)
(* cursor; so the check of `visited` keeps the requests apart and counts   *)
(* them, and none goes where the caller did not send it.                   *)
(*                                                                         *)
(* From the selection of images to the verdict, each image that must be    *)
(* verified is in the queue or has been (ImagesOK), and the attestations   *)
(* at hand were served for the image at hand (ServedOK).                   *)
(***************************************************************************)
Asked == {requests[k] : k \in DOMAIN requests}

RequestsOK == requests \in Seq(Asked) /\ Len(requests) <= MaxPages

BytesOK == bytes \in Nat /\ bytes <= MaxTotal

AddressOK ==
    \A k \in DOMAIN requests :
        /\ requests[k].url.origin = deployed.api
        /\ requests[k].token => deployed.api = "default"

NoneTwice ==
    \A j, k \in DOMAIN requests : j # k => requests[j].url # requests[k].url

Fetching == stage \in {"page", "answer", "check"}

AboutImage(u) ==
    /\ u.origin = deployed.api
    /\ u.repository = Current.policy.repository
    /\ u.digest = Current.digest

FetchOK ==
    Fetching =>
        /\ target.original =
               [origin |-> deployed.api, repository |-> Current.policy.repository,
                digest |-> Current.digest, cursor |-> None]
        /\ target.token => deployed.api = "default"
        /\ AboutImage(url)
        /\ \A k \in DOMAIN requests : AboutImage(requests[k].url)
        /\ visited = {r.url : r \in Asked}
        /\ IsFiniteSet(visited)
        /\ Cardinality(visited) = Len(requests)

(* What the payload is while its token is awaited.                         *)
PayloadOK ==
    stage \in {"nras", "jwks"} => payload.kind = "object" /\ payload.nonce = ClientNonce

FetchInv == RequestsOK /\ BytesOK /\ AddressOK /\ NoneTwice /\ FetchOK

(* The images that must be verified before the deployment is approved.     *)
FileRun == IF deployed.mode = "measured" THEN deployed.compose ELSE Files[Deploying.sha]
AskedServices == IF deployed.mode = "measured" THEN {} ELSE Deploying.services

ToVerify ==
    SignedAll(SelectComposeImages(FileRun, AskedServices, deployed.policies))
        \cup (IF deployed.mode = "managed" THEN {ManagerToVerify} ELSE {})

Verified(image) ==
    image.digest \in Digests /\ BuiltAs(image.digest, image.policy, image.signer)

Approved == stage \in {"approved", "nras", "jwks", "verified"}
Selected == stage = "image" \/ Fetching \/ Approved

Logged ==
    ManagerSelectable(deployed.actions, deployed.file, deployed.policies,
                      deployed.manager, deployed.signers)

ImagesOK ==
    /\ deployed \in Deployments
    /\ stage = "file" => deployed.mode = "managed" /\ Logged
    /\ Selected =>
           /\ deployed.mode \in {"measured", "managed"}
           /\ deployed.mode = "managed" => Logged
           /\ Selectable(FileRun, AskedServices, deployed.policies)
           /\ \A image \in ToVerify : image \in queue \/ Verified(image)
    /\ Approved => queue = {}

Attested(digest) == {s.bundle : s \in {r \in served : r.digest = digest}}

ServedOK ==
    Fetching => Current.digest \in Digests /\ bundles \in Seq(Attested(Current.digest))

IInv == FetchInv /\ PayloadOK /\ GpuVerdictIsFresh /\ ImagesOK /\ ServedOK

-----------------------------------------------------------------------------
(***************************************************************************)
(* The server chooses nothing of the next page's address but its cursor.   *)
(***************************************************************************)
LEMMA NextPageUrl ==
    ASSUME NEW fields, NextPage(fields).ok, ~NextPage(fields).last
    PROVE  NextPage(fields).url = NextUrl(Telling(fields)[1])
BY DEF NextPage

LEMMA SameImage ==
    ASSUME UNCHANGED queue
    PROVE  UNCHANGED Current
BY DEF Current

LEMMA PageFits ==
    ASSUME BytesOK, NEW page \in Pages, Readable(page)
    PROVE  bytes + page.size \in Nat /\ bytes + page.size <= MaxTotal
BY RustDeploymentAssumption DEF BytesOK, Readable, PageLimit

LEMMA InitInv ==
    ASSUME DeploymentInit
    PROVE  IInv
<1> USE RustDeploymentAssumption DEF DeploymentInit, NoFetch, NoPayload, NoToken
<1>1. Asked = {} /\ DOMAIN requests = {}
  BY DEF Asked
<1>2. RequestsOK
  BY EmptySeq DEF RequestsOK
<1>3. BytesOK /\ AddressOK /\ NoneTwice /\ FetchOK
  BY <1>1 DEF BytesOK, AddressOK, NoneTwice, FetchOK, Fetching
<1>4. PayloadOK /\ GpuVerdictIsFresh
  BY DEF PayloadOK, GpuVerdictIsFresh
<1>5. ImagesOK /\ ServedOK
  BY DEF ImagesOK, ServedOK, Selected, Approved, Fetching
<1> QED  BY <1>2, <1>3, <1>4, <1>5 DEF IInv, FetchInv

(***************************************************************************)
(* Outside a fetch the requests of the last one, or the one for a Compose  *)
(* file, stay as they are.                                                 *)
(***************************************************************************)
LEMMA IdleFetch ==
    ASSUME FetchInv, UNCHANGED <<deployed, fetchVars>>, ~Fetching'
    PROVE  FetchInv'
<1> USE DEF FetchInv, fetchVars
<1>1. RequestsOK' /\ BytesOK'
  BY DEF RequestsOK, BytesOK, Asked
<1>2. AddressOK' /\ NoneTwice'
  BY DEF AddressOK, NoneTwice
<1> QED  BY <1>1, <1>2 DEF FetchOK

LEMMA StartInv ==
    ASSUME UNCHANGED deployed,
           StartFetch(Current.policy.repository, Current.digest, deployed.api,
                      deployed.token),
           UNCHANGED queue
    PROVE  FetchInv'
<1> USE RustDeploymentAssumption DEF StartFetch
<1>1. Asked' = {} /\ requests' = <<>> /\ visited' = {}
  BY DEF Asked
<1>2. RequestsOK'
  BY <1>1, EmptySeq DEF RequestsOK
<1>3. BytesOK' /\ AddressOK' /\ NoneTwice'
  BY DEF BytesOK, AddressOK, NoneTwice
<1>4. FetchOK'
  <2>1. /\ target'.original =
               [origin |-> deployed.api, repository |-> Current.policy.repository,
                digest |-> Current.digest, cursor |-> None]
        /\ target'.token => deployed.api = "default"
        /\ url' = target'.original
    OBVIOUS
  <2>2. AboutImage(url)'
    BY <2>1, SameImage DEF AboutImage
  <2>3. /\ visited' = {r.url : r \in Asked'}
        /\ IsFiniteSet(visited') /\ Cardinality(visited') = Len(requests')
        /\ DOMAIN requests' = {}
    BY <1>1, FS_EmptySet
  <2> QED  BY <2>1, <2>2, <2>3, SameImage DEF FetchOK
<1> QED  BY <1>2, <1>3, <1>4 DEF FetchInv

LEMMA AskInv ==
    ASSUME FetchInv, Fetching, Askable, AskPage, UNCHANGED <<deployed, queue>>
    PROVE  FetchInv'
<1> DEFINE r == [url |-> url, token |-> target.token]
           n == Len(requests)
<1> USE DEF FetchInv, AskPage
<1>1. /\ requests \in Seq(Asked) /\ n \in Nat /\ DOMAIN requests = 1..n
      /\ visited = {q.url : q \in Asked} /\ IsFiniteSet(visited)
      /\ Cardinality(visited) = n /\ n < MaxPages /\ url \notin visited
  BY LenProperties DEF RequestsOK, FetchOK, Askable
<1>2. requests \in Seq(Asked \cup {r})
  BY <1>1, SeqMonotonic
<1>3. /\ requests' = Append(requests, r)
      /\ requests' \in Seq(Asked \cup {r})
      /\ Len(requests') = n + 1 /\ DOMAIN requests' = 1..(n + 1)
      /\ \A k \in 1..n : requests'[k] = requests[k]
      /\ requests'[n + 1] = r
  BY <1>1, <1>2, AppendProperties, LenProperties
<1>4. Asked' = Asked \cup {r}
  BY <1>1, <1>3 DEF Asked
<1>5. RequestsOK'
  BY <1>1, <1>3, <1>4, RustDeploymentAssumption DEF RequestsOK
<1>6. BytesOK'
  BY DEF BytesOK
<1>7. AddressOK'
  BY <1>1, <1>3 DEF AddressOK, FetchOK, AboutImage
<1>8. NoneTwice'
  <2>1. \A k \in 1..n : requests[k].url # url
    BY <1>1 DEF Asked
  <2> QED  BY <1>1, <1>3, <2>1 DEF NoneTwice
<1>9. FetchOK'
  <2>1. visited' = {q.url : q \in Asked'}
    BY <1>1, <1>4
  <2>2. IsFiniteSet(visited') /\ Cardinality(visited') = n + 1
    BY <1>1, FS_AddElement
  <2>3. \A k \in DOMAIN requests' : AboutImage(requests'[k].url)
    BY <1>1, <1>3, SameImage DEF FetchOK, AboutImage
  <2> QED
    BY <1>3, <2>1, <2>2, <2>3, SameImage DEF FetchOK, AboutImage
<1> QED  BY <1>5, <1>6, <1>7, <1>8, <1>9

LEMMA KeepInv ==
    ASSUME FetchInv, Fetching, NEW page \in Pages,
           Readable(page), NextPage(page.links).ok,
           Keep(page, NextPage(page.links)), UNCHANGED <<deployed, queue>>
    PROVE  FetchInv'
<1> DEFINE next == NextPage(page.links)
<1> USE DEF FetchInv, Keep
<1>1. RequestsOK' /\ AddressOK' /\ NoneTwice'
  BY DEF RequestsOK, AddressOK, NoneTwice, Asked
<1>2. BytesOK'
  BY PageFits DEF BytesOK
<1>3. AboutImage(url)'
  <2>1. CASE next.last
    BY <2>1, SameImage DEF FetchOK, AboutImage
  <2>2. CASE ~next.last
    <3>1. url' = NextUrl(Telling(page.links)[1])
      BY <2>2, NextPageUrl
    <3>2. target.original =
              [origin |-> deployed.api, repository |-> Current.policy.repository,
               digest |-> Current.digest, cursor |-> None]
      BY DEF FetchOK
    <3>3. /\ url'.origin = deployed.api
          /\ url'.repository = Current.policy.repository
          /\ url'.digest = Current.digest
      BY <3>1, <3>2 DEF NextUrl
    <3> QED  BY <3>3, SameImage DEF AboutImage
  <2> QED  BY <2>1, <2>2
<1>4. FetchOK'
  BY <1>3, SameImage DEF FetchOK, AboutImage, Asked
<1> QED  BY <1>1, <1>2, <1>4

LEMMA FetchStep ==
    ASSUME FetchInv, [DeploymentNext]_deploymentVars
    PROVE  FetchInv'
<1> USE DEF Fail, flowVars, gpuVars
<1>1. CASE SelectMeasured \/ VerifyImage
  BY <1>1, IdleFetch DEF SelectMeasured, VerifyImage, Fetching
<1>2. CASE SelectManaged
  <2>1. CASE requests' = <<RequestFile>> /\ stage' = "file"
    <3> USE <1>2, <2>1 DEF SelectManaged
    <3>1. /\ Len(requests') = 1 /\ DOMAIN requests' = {1}
          /\ requests'[1] = RequestFile /\ Asked' = {RequestFile}
          /\ requests' \in Seq({RequestFile})
      BY DEF Asked
    <3>2. RequestsOK' /\ BytesOK'
      BY <3>1, RustDeploymentAssumption DEF RequestsOK, BytesOK, FetchInv
    <3>3. RequestFile.url.origin = deployed.api
              /\ (RequestFile.token => deployed.api = "default")
      BY DEF RequestFile, NoFetch
    <3>4. AddressOK' /\ NoneTwice' /\ FetchOK'
      BY <3>1, <3>3 DEF AddressOK, NoneTwice, FetchOK, Fetching
    <3> QED  BY <3>2, <3>4 DEF FetchInv
  <2>2. CASE stage' = "failed" /\ UNCHANGED requests
    BY <1>2, <2>2, IdleFetch DEF SelectManaged, Fetching, fetchVars
  <2> QED  BY <1>2, <2>1, <2>2 DEF SelectManaged
<1>3. ASSUME NEW answer \in FileAnswers, ReceiveFile(answer)
      PROVE  FetchInv'
  BY <1>3, IdleFetch DEF ReceiveFile, Fetching
<1>4. CASE NextImage
  BY <1>4, IdleFetch, StartInv DEF NextImage, Fetching
<1>5. CASE RequestPage
  BY <1>5, IdleFetch, AskInv DEF RequestPage, Fetching
<1>6. ASSUME NEW page \in Pages, ReceivePage(page)
      PROVE  FetchInv'
  BY <1>6, IdleFetch, KeepInv DEF ReceivePage, Fetching
<1>7. ASSUME NEW evidence \in Payloads, CheckPayload(evidence)
      PROVE  FetchInv'
  BY <1>7, IdleFetch DEF CheckPayload, Fetching
<1>8. ASSUME NEW answer, ReceiveToken(answer) \/ ReceiveKeys(answer)
      PROVE  FetchInv'
  BY <1>8, IdleFetch DEF ReceiveToken, ReceiveKeys, Fetching
<1>9. CASE Tick
  BY <1>9, IdleFetch DEF Tick, Fetching
<1>10. CASE UNCHANGED deploymentVars
  BY <1>10, SameImage
     DEF deploymentVars, flowVars, fetchVars, FetchInv, RequestsOK, BytesOK, AddressOK, NoneTwice,
         FetchOK, AboutImage, Asked, Fetching
<1> QED
  BY <1>1, <1>2, <1>3, <1>4, <1>5, <1>6, <1>7, <1>8, <1>9, <1>10 DEF DeploymentNext

-----------------------------------------------------------------------------
(***************************************************************************)
(* The GPU evidence: time passes only while a service is asked, and the    *)
(* keys are checked against the time they arrive at.                       *)
(***************************************************************************)
LEMMA GpuStep ==
    ASSUME PayloadOK, GpuVerdictIsFresh, [DeploymentNext]_deploymentVars
    PROVE  PayloadOK' /\ GpuVerdictIsFresh'
<1> USE DEF Fail, flowVars, gpuVars
<1>1. CASE SelectMeasured \/ SelectManaged \/ NextImage \/ RequestPage
               \/ VerifyImage
  <2>1. stage' \notin {"nras", "jwks", "verified"}
    BY <1>1
       DEF SelectMeasured, SelectManaged, NextImage, RequestPage, VerifyImage
  <2> QED  BY <2>1 DEF PayloadOK, GpuVerdictIsFresh
<1>2. ASSUME NEW answer \in FileAnswers, ReceiveFile(answer)
      PROVE  PayloadOK' /\ GpuVerdictIsFresh'
  BY <1>2 DEF ReceiveFile, PayloadOK, GpuVerdictIsFresh
<1>3. ASSUME NEW page \in Pages, ReceivePage(page)
      PROVE  PayloadOK' /\ GpuVerdictIsFresh'
  BY <1>3 DEF ReceivePage, PayloadOK, GpuVerdictIsFresh
<1>4. ASSUME NEW evidence \in Payloads, CheckPayload(evidence)
      PROVE  PayloadOK' /\ GpuVerdictIsFresh'
  BY <1>4
     DEF CheckPayload, GpuMissing, GpuSubmittable, PayloadOK, GpuVerdictIsFresh
<1>5. ASSUME NEW answer \in NrasAnswers, ReceiveToken(answer)
      PROVE  PayloadOK' /\ GpuVerdictIsFresh'
  BY <1>5 DEF ReceiveToken, PayloadOK, GpuVerdictIsFresh
<1>6. ASSUME NEW answer \in JwksAnswers, ReceiveKeys(answer)
      PROVE  PayloadOK' /\ GpuVerdictIsFresh'
  <2>1. CASE stage' = "failed"
    BY <2>1 DEF PayloadOK, GpuVerdictIsFresh
  <2>2. CASE stage' = "verified"
    <3>1. /\ VerifyNrasJwt(token, answer.keys, payload.nonce, now)
          /\ payload.nonce = ClientNonce
          /\ UNCHANGED <<token, payload, now>>
      BY <1>6, <2>2 DEF ReceiveKeys, PayloadOK
    <3>2. token.key = "nvidia"
      BY <1>6, <3>1, RustDeploymentAssumption DEF VerifyNrasJwt, Decoded
    <3> QED
      BY <2>2, <3>1, <3>2
         DEF VerifyNrasJwt, Decoded, PayloadOK, GpuVerdictIsFresh
  <2> QED  BY <1>6, <2>1, <2>2 DEF ReceiveKeys
<1>7. CASE Tick
  BY <1>7 DEF Tick, PayloadOK, GpuVerdictIsFresh
<1>8. CASE UNCHANGED deploymentVars
  BY <1>8 DEF deploymentVars, PayloadOK, GpuVerdictIsFresh
<1> QED  BY <1>1, <1>2, <1>3, <1>4, <1>5, <1>6, <1>7, <1>8 DEF DeploymentNext

-----------------------------------------------------------------------------
(***************************************************************************)
(* The latest action.  A log is searched from its end, and what is found   *)
(* is the one entry of its kind that none of its kind follows.             *)
(***************************************************************************)
LEMMA MaxIsLargest ==
    ASSUME NEW n \in Nat, NEW I \in SUBSET (1..n), I # {}
    PROVE  Max(I) \in I /\ \A j \in I : j <= Max(I)
<1> DEFINE T == {n - i : i \in I}
<1>1. T \subseteq Nat /\ T # {}
  <2>1. \A i \in I : i \in Nat /\ n - i \in Nat
    OBVIOUS
  <2>2. T \subseteq Nat
    BY <2>1
  <2>3. PICK i \in I : TRUE
    OBVIOUS
  <2>4. n - i \in T
    OBVIOUS
  <2> QED  BY <2>2, <2>4
<1>2. PICK x \in T : \A y \in T : ~(y < x)
  <2> DEFINE R == OpToRel(<, Nat)
  <2>1. IsWellFoundedOn(R, Nat)
    BY NatLessThanWellFounded
  <2>2. \A a, b \in Nat : a < b => <<a, b>> \in R
    BY DEF OpToRel
  <2> HIDE DEF R, T
  <2>3. \E x \in T : \A y \in T : <<y, x>> \notin R
    BY <1>1, <2>1, WFMin
  <2> QED  BY <1>1, <2>2, <2>3
<1>3. PICK m \in I : x = n - m
  OBVIOUS
<1>4. \A j \in I : j <= m
  BY <1>2, <1>3
<1>5. \A j \in I : m >= j
  BY <1>4
<1>6. \E k \in I : \A j \in I : k >= j
  BY <1>5
<1>7. Max(I) \in I /\ \A j \in I : Max(I) >= j
  BY <1>6 DEF Max
<1>8. I \subseteq Nat
  OBVIOUS
<1> QED  BY <1>7, <1>8

Ups(actions, file) ==
    {k \in 1..Len(actions) :
        actions[k].action = "compose_up" /\ (file = "any" \/ actions[k].file = file)}
Starts(actions) ==
    {k \in 1..Len(actions) : actions[k].action = "compose_manager_started"}

LEMMA LatestUp ==
    ASSUME NEW actions, IsSeq(actions), NEW file, ComposeUp(actions, file) # 0
    PROVE  /\ ComposeUp(actions, file) \in Ups(actions, file)
           /\ \A k \in Ups(actions, file) : k <= ComposeUp(actions, file)
<1>1. Len(actions) \in Nat /\ Ups(actions, file) \in SUBSET (1..Len(actions))
  BY LenProperties DEF IsSeq, Ups
<1>2. /\ Ups(actions, file) # {}
      /\ ComposeUp(actions, file) = Max(Ups(actions, file))
  BY DEF ComposeUp, Latest, SelectLastInSeq, Ups
<1> QED  BY <1>1, <1>2, MaxIsLargest

LEMMA LatestStart ==
    ASSUME NEW actions, IsSeq(actions), Started(actions) # 0
    PROVE  /\ Started(actions) \in Starts(actions)
           /\ \A k \in Starts(actions) : k <= Started(actions)
<1>1. Len(actions) \in Nat /\ Starts(actions) \in SUBSET (1..Len(actions))
  BY LenProperties DEF IsSeq, Starts
<1>2. /\ Starts(actions) # {}
      /\ Started(actions) = Max(Starts(actions))
  BY DEF Started, Latest, SelectLastInSeq, Starts
<1> QED  BY <1>1, <1>2, MaxIsLargest

(***************************************************************************)
(* The entry that counts for the property is the one the code finds.       *)
(***************************************************************************)
LEMMA UpIsIntended ==
    ASSUME IsSeq(deployed.actions), ComposeUp(deployed.actions, deployed.file) # 0
    PROVE  Intended("compose_up") = ComposeUp(deployed.actions, deployed.file)
<1> DEFINE actions == deployed.actions
           c == ComposeUp(actions, deployed.file)
<1>1. DOMAIN actions = 1..Len(actions) /\ Len(actions) \in Nat
  BY LenProperties DEF IsSeq
<1>2. /\ c \in DOMAIN actions /\ actions[c].action = "compose_up"
      /\ deployed.file \in {"any", actions[c].file}
      /\ \A k \in DOMAIN actions :
             k > c => \/ actions[k].action # "compose_up"
                      \/ deployed.file \notin {"any", actions[k].file}
  BY <1>1, LatestUp DEF Ups
<1>3. Intended("compose_up") = c
  BY <1>1, <1>2 DEF Intended
<1> QED  BY <1>3

LEMMA StartIsIntended ==
    ASSUME IsSeq(deployed.actions), Started(deployed.actions) # 0
    PROVE  Intended("compose_manager_started") = Started(deployed.actions)
<1> DEFINE actions == deployed.actions
           c == Started(actions)
<1>1. DOMAIN actions = 1..Len(actions) /\ Len(actions) \in Nat
  BY LenProperties DEF IsSeq
<1>2. /\ c \in DOMAIN actions /\ actions[c].action = "compose_manager_started"
      /\ \A k \in DOMAIN actions :
             k > c => actions[k].action # "compose_manager_started"
  BY <1>1, LatestStart DEF Starts
<1>3. Intended("compose_manager_started") = c
  BY <1>1, <1>2 DEF Intended
<1> QED  BY <1>3

-----------------------------------------------------------------------------
(***************************************************************************)
(* The images: whatever must be verified is verified or still in the       *)
(* queue, and what is kept of an answer was served about the image at      *)
(* hand.                                                                   *)
(***************************************************************************)
LEMMA SameSelection ==
    ASSUME UNCHANGED deployed
    PROVE  UNCHANGED <<FileRun, AskedServices, ToVerify, Logged>>
<1>1. UNCHANGED <<FileRun, AskedServices, Logged, ManagerToVerify>>
  BY DEF FileRun, AskedServices, Logged, Deploying, ManagerToVerify
<1>2. \A images : UNCHANGED SignedAll(images)
  BY DEF SignedAll, Signed
<1> QED  BY <1>1, <1>2 DEF ToVerify

LEMMA VerifiedStays ==
    ASSUME served \subseteq served', NEW image, Verified(image)
    PROVE  Verified(image)'
BY DEF Verified, BuiltAs

LEMMA ImagesStay ==
    ASSUME ImagesOK, UNCHANGED <<deployed, queue>>, served \subseteq served',
           stage' = "file" => stage = "file", Selected' => Selected,
           Approved' => queue = {}
    PROVE  ImagesOK'
<1> USE DEF ImagesOK
<1>1. UNCHANGED <<FileRun, AskedServices, ToVerify, Logged>>
  BY SameSelection
<1>2. \A image \in ToVerify : Verified(image) => Verified(image)'
  BY VerifiedStays
<1> QED  BY <1>1, <1>2

(***************************************************************************)
(* What verify_bundle accepts was built as the policy says.                *)
(***************************************************************************)
LEMMA AcceptedIsBuilt ==
    ASSUME NEW digest, NEW policy, NEW signer,
           bundles \in Seq(Attested(digest)),
           VerifyImageProvenance(digest, policy, signer)
    PROVE  BuiltAs(digest, policy, signer)
<1>1. PICK k \in DOMAIN bundles : VerifyBundle(bundles[k], digest, policy, signer)
  BY DEF VerifyImageProvenance
<1>2. bundles[k] \in Attested(digest)
  BY ElementOfSeq, LenProperties
<1>3. PICK s \in served : s.digest = digest /\ s.bundle = bundles[k]
  BY <1>2 DEF Attested
<1> DEFINE b == bundles[k]
<1>4. /\ digest \in b.subjects /\ b.signed /\ b.issuer = policy.issuer
      /\ SourceExtension(b.repository) = policy.repository
      /\ policy.ref \in {None, SourceExtension(b.ref)}
      /\ policy.commit \in {None, SourceExtension(b.commit)}
      /\ IF signer # None THEN b.identity.name = signer
         ELSE /\ b.identity.repository = policy.repository
              /\ b.identity.workflow = policy.workflow
  BY <1>1 DEF VerifyBundle, Stated, IdentityHolds, CertificateSource, SourceCommit
<1>5. \A claim : SourceExtension(claim) = Claimed(claim)
  BY DEF SourceExtension, Claimed
<1> QED  BY <1>3, <1>4, <1>5 DEF BuiltAs

LEMMA ServedStep ==
    ASSUME ServedOK, [DeploymentNext]_deploymentVars
    PROVE  ServedOK'
<1> USE DEF Fail, flowVars, gpuVars
<1>1. CASE ~Fetching'
  BY <1>1 DEF ServedOK
<1>2. CASE NextImage /\ Fetching'
  <2>1. /\ UNCHANGED queue /\ bundles' = <<>> /\ Current.digest \in Digests
    BY <1>2 DEF NextImage, StartFetch, Fetchable, Fetching
  <2>2. UNCHANGED Current
    BY <2>1, SameImage
  <2>3. <<>> \in Seq(Attested(Current.digest)')
    BY EmptySeq
  <2> QED  BY <2>1, <2>2, <2>3 DEF ServedOK, Attested
<1>3. CASE RequestPage /\ Fetching'
  <2>1. UNCHANGED <<queue, served, bundles>> /\ Fetching
    BY <1>3 DEF RequestPage, AskPage, Fetching
  <2> QED  BY <2>1, SameImage DEF ServedOK, Attested
<1>4. ASSUME NEW page \in Pages, ReceivePage(page), Fetching'
      PROVE  ServedOK'
  <2> DEFINE d == Current.digest
             new == {[digest |-> d, bundle |-> page.bundles[k]] : k \in DOMAIN page.bundles}
             pageOf == {page.bundles[k] : k \in DOMAIN page.bundles}
  <2>1. /\ UNCHANGED queue /\ served' = served \cup new
        /\ bundles' = bundles \o page.bundles
        /\ bundles \in Seq(Attested(d)) /\ d \in Digests
    BY <1>4 DEF ReceivePage, Keep, Fetching, ServedOK
  <2>2. UNCHANGED Current
    BY <2>1, SameImage
  <2>3. Attested(d)' = Attested(d) \cup pageOf
    <3>1. Attested(d)' = {s.bundle : s \in {r \in served \cup new : r.digest = d}}
      BY <2>1, <2>2 DEF Attested
    <3>2. \A r \in new : r.digest = d
      OBVIOUS
    <3>3. {s.bundle : s \in new} = pageOf
      <4>1. \A s \in new : s.bundle \in pageOf
        OBVIOUS
      <4>2. ASSUME NEW k \in DOMAIN page.bundles
            PROVE  \E s \in new : s.bundle = page.bundles[k]
        <5>1. [digest |-> d, bundle |-> page.bundles[k]] \in new
          OBVIOUS
        <5> QED  BY <5>1
      <4> HIDE DEF new
      <4> QED  BY <4>1, <4>2
    <3> QED  BY <3>1, <3>2, <3>3 DEF Attested
  <2>4. page.bundles \in Seq(Attested(d)') /\ bundles \in Seq(Attested(d)')
    BY <2>1, <2>3, RustDeploymentAssumption, SeqMonotonic DEF IsSeq
  <2>5. bundles' \in Seq(Attested(d)')
    BY <2>1, <2>4, ConcatProperties
  <2> QED  BY <2>1, <2>2, <2>5 DEF ServedOK
<1>5. CASE UNCHANGED deploymentVars
  BY <1>5, SameImage DEF deploymentVars, fetchVars, ServedOK, Fetching, Attested
<1>6. CASE SelectMeasured \/ SelectManaged \/ VerifyImage \/ Tick
  BY <1>1, <1>6
     DEF SelectMeasured, SelectManaged, VerifyImage, Tick, Fetching
<1>7. ASSUME NEW input,
             ReceiveFile(input) \/ CheckPayload(input) \/ ReceiveToken(input)
                 \/ ReceiveKeys(input)
      PROVE  ServedOK'
  BY <1>1, <1>7
     DEF ReceiveFile, CheckPayload, ReceiveToken, ReceiveKeys, Fetching
<1> QED  BY <1>1, <1>2, <1>3, <1>4, <1>5, <1>6, <1>7 DEF DeploymentNext

LEMMA SelectInv ==
    ASSUME ImagesOK, UNCHANGED deployed, Selected', ~Approved', stage' # "file",
           deployed.mode \in {"measured", "managed"},
           deployed.mode = "managed" => Logged,
           Selectable(FileRun, AskedServices, deployed.policies),
           queue' = ToVerify
    PROVE  ImagesOK'
BY SameSelection DEF ImagesOK

LEMMA ImagesStep ==
    ASSUME ImagesOK, ServedOK, [DeploymentNext]_deploymentVars
    PROVE  ImagesOK'
<1> USE DEF Fail, flowVars, gpuVars
<1> USE DEF Selected, Approved, Fetching
<1>1. CASE SelectMeasured
  <2>1. CASE stage' = "image"
    <3>1. FileRun = deployed.compose /\ AskedServices = {}
      BY <1>1 DEF SelectMeasured, FileRun, AskedServices
    <3>2. queue' = ToVerify /\ UNCHANGED deployed
      BY <1>1, <2>1, <3>1 DEF SelectMeasured, ToVerify
    <3> QED
      BY <1>1, <2>1, <3>1, <3>2, SelectInv DEF SelectMeasured
  <2>2. CASE stage' = "failed" /\ UNCHANGED queue
    BY <1>1, <2>2, ImagesStay DEF SelectMeasured
  <2> QED  BY <1>1, <2>1, <2>2 DEF SelectMeasured
<1>2. CASE SelectManaged
  <2>1. CASE stage' = "file"
    <3>1. deployed.mode = "managed" /\ Logged /\ UNCHANGED deployed
      BY <1>2, <2>1 DEF SelectManaged, Logged
    <3> QED  BY <2>1, <3>1, SameSelection DEF ImagesOK
  <2>2. CASE stage' = "failed"
    BY <1>2, <2>2, ImagesStay DEF SelectManaged
  <2> QED  BY <1>2, <2>1, <2>2 DEF SelectManaged
<1>3. ASSUME NEW answer \in FileAnswers, ReceiveFile(answer)
      PROVE  ImagesOK'
  <2>1. CASE stage' = "image"
    <3>1. /\ deployed.mode = "managed" /\ Logged /\ UNCHANGED deployed
          /\ answer.sha = Deploying.sha
          /\ Selectable(Files[answer.sha], Deploying.services, deployed.policies)
          /\ queue' = SignedAll(SelectComposeImages(Files[answer.sha],
                                                    Deploying.services,
                                                    deployed.policies))
                          \cup {ManagerToVerify}
      BY <1>3, <2>1 DEF ReceiveFile, Hashed, ImagesOK
    <3>2. FileRun = Files[answer.sha] /\ AskedServices = Deploying.services
      BY <3>1 DEF FileRun, AskedServices
    <3>3. queue' = ToVerify
      BY <3>1, <3>2 DEF ToVerify
    <3> QED  BY <2>1, <3>1, <3>2, <3>3, SelectInv
  <2>2. CASE stage' = "failed" /\ UNCHANGED queue
    BY <1>3, <2>2, ImagesStay DEF ReceiveFile
  <2> QED  BY <1>3, <2>1, <2>2 DEF ReceiveFile
<1>4. CASE NextImage
  BY <1>4, ImagesStay DEF NextImage
<1>5. CASE RequestPage
  BY <1>5, ImagesStay DEF RequestPage
<1>6. ASSUME NEW page \in Pages, ReceivePage(page)
      PROVE  ImagesOK'
  BY <1>6, ImagesStay DEF ReceivePage
<1>7. CASE VerifyImage
  <2>1. CASE stage' = "image"
    <3>1. /\ UNCHANGED <<deployed, served>> /\ Selected
          /\ queue' = queue \ {Current} /\ Fetching
          /\ VerifyImageProvenance(Current.digest, Current.policy, Current.signer)
      BY <1>7, <2>1 DEF VerifyImage
    <3>2. Verified(Current)
      BY <3>1, AcceptedIsBuilt DEF ServedOK, Verified
    <3>3. UNCHANGED <<FileRun, AskedServices, ToVerify, Logged>>
      BY <3>1, SameSelection
    <3>4. \A image \in ToVerify : image \in queue' \/ Verified(image)
      BY <3>1, <3>2 DEF ImagesOK
    <3>5. \A image \in ToVerify : image \in queue' \/ Verified(image)'
      BY <3>1, <3>4, VerifiedStays
    <3> QED  BY <2>1, <3>1, <3>3, <3>5 DEF ImagesOK
  <2>2. CASE stage' = "failed" /\ UNCHANGED queue
    BY <1>7, <2>2, ImagesStay DEF VerifyImage
  <2> QED  BY <1>7, <2>1, <2>2 DEF VerifyImage
<1>8. ASSUME NEW evidence \in Payloads, CheckPayload(evidence)
      PROVE  ImagesOK'
  BY <1>8, ImagesStay DEF CheckPayload, ImagesOK
<1>9. ASSUME NEW answer, ReceiveToken(answer) \/ ReceiveKeys(answer)
      PROVE  ImagesOK'
  BY <1>9, ImagesStay DEF ReceiveToken, ReceiveKeys, ImagesOK
<1>10. CASE Tick
  BY <1>10, ImagesStay DEF Tick, ImagesOK
<1>11. CASE UNCHANGED deploymentVars
  BY <1>11, ImagesStay DEF deploymentVars, ImagesOK
<1> QED
  BY <1>1, <1>2, <1>3, <1>4, <1>5, <1>6, <1>7, <1>8, <1>9, <1>10, <1>11 DEF DeploymentNext

-----------------------------------------------------------------------------
LEMMA Invariance == DeploymentSpec => []IInv
<1>1. DeploymentInit => IInv
  BY InitInv
<1>2. IInv /\ [DeploymentNext]_deploymentVars => IInv'
  BY FetchStep, GpuStep, ServedStep, ImagesStep DEF IInv
<1> QED  BY <1>1, <1>2, PTL DEF DeploymentSpec

(* Whatever the pages say, the client asks only the address the caller     *)
(* chose, only for the image it verifies, no page twice and no more pages  *)
(* or bytes than the limits, and gives the token to none but GitHub.       *)
THEOREM ConfinedFetch == DeploymentSpec => []FetchIsConfined
<1>1. IInv => FetchIsConfined
  <2> SUFFICES ASSUME IInv
               PROVE  FetchIsConfined
    OBVIOUS
  <2> USE DEF IInv, FetchInv
  <2>1. bytes <= MaxTotal /\ Len(requests) <= MaxPages
    BY DEF BytesOK, RequestsOK
  <2>2. \A k \in DOMAIN requests :
            /\ requests[k].url.origin = deployed.api
            /\ requests[k].token => deployed.api = "default"
            /\ \A j \in DOMAIN requests : j # k => requests[j].url # requests[k].url
    BY DEF AddressOK, NoneTwice
  <2>3. Fetching =>
            \A k \in DOMAIN requests :
                /\ requests[k].url.digest = Current.digest
                /\ requests[k].url.repository = Current.policy.repository
    BY DEF FetchOK, AboutImage
  <2> QED  BY <2>1, <2>2, <2>3 DEF FetchIsConfined, Fetching
<1> QED  BY <1>1, Invariance, PTL

(* A GPU payload is verified only by a token for the client's own nonce    *)
(* that NVIDIA signed, that says so, and that is valid when the keys       *)
(* arrive, however long the services took.                                 *)
THEOREM FreshVerdict == DeploymentSpec => []GpuVerdictIsFresh
<1>1. IInv => GpuVerdictIsFresh
  BY DEF IInv
<1> QED  BY <1>1, Invariance, PTL

(* A deployment is approved only when each required repository has an      *)
(* image among the services the measured file, or the latest logged        *)
(* action, runs, and each such image is pinned to a digest for which a     *)
(* bundle was served that Sigstore vouches for and that names the policy's *)
(* source; under Compose Manager also the manager's own image.             *)
THEOREM ApprovedImages == DeploymentSpec => []ApprovedIsBuilt
<1>1. IInv => ApprovedIsBuilt
  <2> SUFFICES ASSUME IInv, Approved
               PROVE  ApprovedIsBuilt
    BY DEF ApprovedIsBuilt, Approved
  <2> USE DEF IInv
  <2> DEFINE policies == deployed.policies
             managed == deployed.mode = "managed"
             images == {s.image : s \in {r \in ServicesRun : r.image.kind = "literal"}}
             required(p) == {i \in images : Normalized(i.repository) = Normalized(p.key)}
             Required(p) == ImagesOf(FileRun, AskedServices, p.key)
  <2>1. /\ deployed.mode \in {"measured", "managed"} /\ (managed => Logged)
        /\ Selectable(FileRun, AskedServices, policies)
        /\ \A image \in ToVerify : Verified(image)
        /\ IsSeq(deployed.actions)
    BY RustDeploymentAssumption DEF ImagesOK, Selected
  <2>2. managed =>
            /\ Intended("compose_up") = ComposeUp(deployed.actions, deployed.file)
            /\ Intended("compose_manager_started") = Started(deployed.actions)
    BY <2>1, UpIsIntended, StartIsIntended DEF Logged, ManagerSelectable, ManagerImage
  <2>3. ServicesRun = {FileRun.services[j] : j \in Chosen(FileRun, AskedServices)}
    BY <2>1, <2>2 DEF ServicesRun, FileRun, AskedServices, Chosen, Deploying
  <2>4. \A p : required(p) = {FileRun.services[j].image : j \in Required(p)}
    BY <2>3 DEF ImagesOf
  <2>5. ASSUME NEW k \in DOMAIN policies, NEW j \in Required(policies[k])
        PROVE  LET i == FileRun.services[j].image
                   p == policies[k]
               IN /\ i.tag \in {"none", "tag"} /\ i.digest \in Digests
                  /\ BuiltAs(i.digest, p.policy, SignerOf(p.key))
    <3> DEFINE i == FileRun.services[j].image
               p == policies[k]
               chosen == [place |-> <<k, j>>, key |-> p.key, policy |-> p.policy,
                          digest |-> i.digest]
    <3>1. chosen \in SelectComposeImages(FileRun, AskedServices, policies)
      BY DEF SelectComposeImages
    <3>2. Signed(chosen) \in ToVerify
      BY <3>1 DEF ToVerify, SignedAll
    <3>3. /\ Signed(chosen).digest = i.digest /\ Signed(chosen).policy = p.policy
          /\ Signed(chosen).signer = SignerOf(p.key)
      BY DEF Signed, SignerOf
    <3>4. Pinned(i)
      BY <2>1 DEF Selectable
    <3> QED  BY <2>1, <3>2, <3>3, <3>4 DEF Verified, Pinned
  <2>6. ASSUME NEW k \in DOMAIN policies
        PROVE  Required(policies[k]) # {}
    BY <2>1 DEF Selectable
  <2>7. ASSUME managed
        PROVE  BuiltAs(deployed.actions[Intended("compose_manager_started")].image.digest,
                       deployed.manager.policy, deployed.manager.signer)
    <3>1. Verified(ManagerToVerify)
      BY <2>1, <2>7 DEF ToVerify
    <3> QED  BY <2>2, <2>7, <3>1 DEF Verified, ManagerToVerify
  <2>8. ASSUME NEW k \in DOMAIN policies
        PROVE  /\ required(policies[k]) # {}
               /\ \A i \in required(policies[k]) :
                      /\ i.tag \in {"none", "tag"} /\ i.digest \in Digests
                      /\ BuiltAs(i.digest, policies[k].policy, SignerOf(policies[k].key))
    <3>1. required(policies[k])
              = {FileRun.services[j].image : j \in Required(policies[k])}
      BY <2>4
    <3> HIDE DEF required, Required, policies
    <3>2. required(policies[k]) # {}
      BY <2>6, <3>1
    <3> QED  BY <2>5, <3>1, <3>2
  <2> QED  BY <2>7, <2>8 DEF ApprovedIsBuilt
<1> QED  BY <1>1, Invariance, PTL
=============================================================================
