------------------------------ MODULE RustSend ------------------------------
(***************************************************************************)
(* One inference call of the Rust client (rs/src/inference.rs), from the   *)
(* caller's request to a verified receipt: `send` with its Chat, Responses *)
(* and Messages wrappers, `systemone_create`, and the two helpers of       *)
(* e2ee.rs for callers with a transport of their own.  The request is      *)
(* checked, given the client's headers and, with E2EE, sealed; the body    *)
(* comes back in network chunks, is split, decrypted and yielded record by *)
(* record while its bytes are captured; the end of the body registers them *)
(* for verify_response.                                                    *)
(*                                                                         *)
(* The cache that keeps the receipt is RustReceipts, the deployment check  *)
(* that provides the session RustSessions, the encapsulated transport      *)
(* RustOhttp; here a call has its session and its bytes arrive.            *)
(***************************************************************************)
EXTENDS RustSse, RustSignature

CONSTANTS
    Calls,                  \* what callers ask for, under which options
    Answers(_),             \* heads the peer may answer a call with
    Arrivals(_, _),         \* chunks the network may deliver: (call, wire so far)
    SignatureAnswers(_, _)  \* answers of the signature endpoint: (call, receipt)

\* A call is made with a session of its client and the headers the client was
\* made with; a helper is given a key; and nobody seals a field by hand.
ASSUME RustSendAssumption ==
    \A c \in Calls :
        /\ c.session.direct = c.direct
        /\ \A n \in DOMAIN c.options : c.options[n] = "client"
        /\ c.helper /\ c.e2ee => c.modelKey # {}
        /\ c.e2ee => c.reply # "none"
        /\ \A p \in DOMAIN c.doc : c.doc[p].kind # "sealed"

VARIABLES call, pc,
          sent,        \* the request on the wire, {} before
          wire,        \* the captured bytes of the body
          decoder, stream,
          receipt,     \* what was registered, {} before
          result,      \* of the last verification
          signature    \* that it fetched, {} before

vars == <<call, pc, sent, wire, decoder, stream, receipt, result, signature>>

\* `stream` is what the body's generator keeps: the completion ID, the
\* Messages lifecycle, whether a BOM may still come, and what it yielded.
NewStream(c) ==
    [ok |-> TRUE, id |-> "none", lifecycle |-> NewLifecycle, first |-> ~c.helper, yielded |-> <<>>]

Init ==
    /\ call \in Calls
    /\ pc = "ready"
    /\ sent = {} /\ receipt = {} /\ signature = {} /\ result = "none"
    /\ wire = <<>> /\ decoder = NewDecoder /\ stream = NewStream(call)

GatewayOnly(c) == c.route \in {"responses", "messages"}
ReplyKey(c) == IF c.e2ee THEN c.reply ELSE "none"

-----------------------------------------------------------------------------
(* Admission. *)

Named(c) == c.model \notin {"none", "empty"}

\* decode_request: a buffered JSON POST with a model that is no path segment.
Decodable(c) == c.post /\ Named(c) /\ c.model \notin {".", ".."}

\* chat_completions, create_response and create_message do not stream.
Wrapped(c) == c.create => c.stream # "true"

Sendable(c) ==
    /\ Wrapped(c)
    /\ c.route # "elsewhere"
    /\ GatewayOnly(c) => ~c.direct /\ ~c.e2ee
    /\ Decodable(c)
    /\ c.e2ee => c.modelKey # {}

\* systemone_create: a plaintext Gateway client, and no "stream" at all.
Decidable(c) ==
    /\ ~c.direct /\ ~c.e2ee /\ ~c.ohttp
    /\ c.object /\ c.stream = "absent"
    /\ Named(c)

-----------------------------------------------------------------------------
(* Headers: those of the call replace those of the client, except for      *)
(* credentials, which are the client's or absent.                          *)

Credentials(c) ==
    {"authorization", "api-key"} \cup IF c.route = "messages" THEN {"x-api-key"} ELSE {}

BadOwned(c) == c.headers @@ c.options
Owned(c) ==
    LET called == DOMAIN c.headers \ Credentials(c)
    IN [n \in DOMAIN c.options \cup called |-> IF n \in called THEN c.headers[n] ELSE c.options[n]]

Routed(c, headers) ==
    IF c.route = "messages" /\ "anthropic-version" \notin DOMAIN headers
    THEN With(headers, {"anthropic-version"}, "library") ELSE headers

\* The headers `send` puts on the wire.
Prepared(c) ==
    LET routed == Routed(c, Owned(c))
        framed == Without(With(routed, {"accept-encoding"}, "library"),
                          {"host", "transfer-encoding", "trailer"})
        plain == With(RemoveE2eeHeaders(framed), {"x-no-aliasing"}, "library")
    IN IF c.helper THEN PrepareHeaders(c.headers)
       ELSE IF c.e2ee THEN PrepareHeaders(framed)
       ELSE IF c.modelKey # {} /\ c.route # "messages" THEN With(plain, {"x-model-pub-key"}, "attested")
       ELSE plain

\* The headers systemone_create puts on the wire.
DecisionHeaders(c) ==
    LET dropped == {"host", "content-length", "content-encoding", "transfer-encoding", "trailer",
                    "content-md5", "digest", "content-digest", "repr-digest"}
        fixed == {"x-no-aliasing", "content-type", "accept", "accept-encoding"}
        plain == With(Without(RemoveE2eeHeaders(Owned(c)), dropped), fixed, "library")
    IN IF c.modelKey # {} THEN With(plain, {"x-model-pub-key"}, "attested") ELSE plain

-----------------------------------------------------------------------------
(* The request leaves. *)

Sealing(c) ==
    IF c.e2ee THEN EncryptRequest(c.doc, CHOOSE k \in c.modelKey : TRUE, c.reply)
    ELSE [ok |-> TRUE, doc |-> c.doc]

Leave(headers, doc) ==
    /\ sent' = {[headers |-> headers, body |-> [model |-> call.model, doc |-> doc]]}
    /\ pc' = "sent"
    /\ UNCHANGED <<call, wire, decoder, stream, receipt, result, signature>>

Give(up) ==
    /\ pc' = up
    /\ UNCHANGED <<call, sent, wire, decoder, stream, receipt, result, signature>>

Send ==
    /\ pc = "ready" /\ ~call.decide
    /\ LET ok == IF call.helper THEN Decodable(call) ELSE Sendable(call)
       IN \/ ~ok /\ Give("failed")
          \/ /\ ok
             /\ LET sealing == Sealing(call)
                IN IF sealing.ok THEN Leave(Prepared(call), sealing.doc) ELSE Give("failed")

SystemoneCreate ==
    /\ pc = "ready" /\ call.decide
    /\ IF Decidable(call) THEN Leave(DecisionHeaders(call), call.doc) ELSE Give("failed")

\* The answer's head: [status, events, generation].  An answer that is no
\* success is returned as it is, but for the wrappers and System One.
Respond(head) ==
    /\ pc = "sent"
    /\ pc' = IF ~call.helper /\ head.status \notin 200..299
             THEN IF call.create \/ call.decide THEN "failed" ELSE "passed"
             ELSE IF call.decide
             THEN IF head.generation = "none" THEN "failed" ELSE "buffering"
             ELSE IF head.events THEN "streaming" ELSE "buffering"
    /\ stream' = IF call.decide THEN [stream EXCEPT !.id = head.generation] ELSE stream
    /\ UNCHANGED <<call, sent, wire, decoder, receipt, result, signature>>

\* A transport error, before the head or in the body.
Cut == pc \in {"sent", "streaming", "buffering"} /\ Give("failed")

-----------------------------------------------------------------------------
(* The body arrives. *)

\* `transform_record`, then the yield of its result.
Yield(c, s, record, seen, t) ==
    IF s.ok /\ seen.ok /\ t.ok
    THEN [ok |-> TRUE, id |-> t.id, lifecycle |-> seen.state, first |-> FALSE,
          yielded |-> Append(s.yielded, IF c.e2ee THEN t.out ELSE record)]
    ELSE [s EXCEPT !.ok = FALSE]

Deliver(c, s, record, parsed, lines, data) ==
    Yield(c, s, record,
          IF c.route = "messages" THEN Observe(s.lifecycle, lines, data)
          ELSE [ok |-> TRUE, state |-> s.lifecycle],
          Transform(parsed, lines, data, ReplyKey(c), s.id, c.route))

DeliverParsed(c, s, record, parsed) ==
    LET lines == Lines(parsed) IN Deliver(c, s, record, parsed, lines, Data(lines))

\* A BOM is looked past in the first record; once one fails, none follow.
DeliverRecord(c, s, record) ==
    IF ~s.ok THEN s
    ELSE DeliverParsed(c, s, record,
                       IF s.first /\ record[1] = BOM THEN Tail(record) ELSE record)

Delivered(records) ==
    LET after[k \in 0..Len(records)] ==
            IF k = 0 THEN stream ELSE DeliverRecord(call, after[k - 1], records[k])
    IN after[Len(records)]

\* A record that fails ends the body, after the records before it.
Chunk(bytes) ==
    /\ pc = "streaming"
    /\ wire' = wire \o bytes
    /\ LET pushed == Push(decoder, bytes)
       IN decoder' = pushed.decoder /\ stream' = Delivered(pushed.records)
    /\ pc' = IF stream'.ok THEN "streaming" ELSE "failed"
    /\ UNCHANGED <<call, sent, receipt, result, signature>>

Buffer(bytes) ==
    /\ pc = "buffering"
    /\ wire' = wire \o bytes
    /\ UNCHANGED <<call, pc, sent, decoder, stream, receipt, result, signature>>

-----------------------------------------------------------------------------
(* The body ends.  `register` keeps the record, drops it (a fence passed,  *)
(* or nothing is retained), or refuses an ID it has.                       *)

Register(id) ==
    receipt' = {[id |-> id, gatewayOnly |-> GatewayOnly(call), response |-> wire,
                 request |-> (CHOOSE r \in sent : TRUE).body]}

\* The wrappers parse the whole output: `json`, which no event stream is.
Taken(c) == c.create => pc = "buffering"

Finish(after, id, ok) ==
    /\ decoder' = NewDecoder
    /\ \/ /\ ok /\ ~call.helper
          /\ Register(id)
          /\ stream' = after
          /\ pc' = IF Taken(call) THEN "done" ELSE "failed"
       \/ /\ ok
          /\ receipt' = {} /\ stream' = after
          /\ pc' = IF Taken(call) THEN "done" ELSE "failed"
       \/ /\ ~ok \/ ~call.helper     \* refused, or a duplicate ID
          /\ pc' = "failed" /\ receipt' = {}
          \* Records are yielded as they come, a whole body after its receipt.
          /\ stream' = IF pc = "streaming" THEN after ELSE stream
    /\ UNCHANGED <<call, sent, wire, result, signature>>

StreamEnds(after) ==
    Finish(after, after.id,
           /\ after.ok
           /\ call.helper \/ after.id # "none"
           /\ call.route = "messages" => Complete(after.lifecycle))
EndStream == pc = "streaming" /\ StreamEnds(Delivered(PushEof(decoder).records))

\* systemone::decode_response
ValidDecision(decision) ==
    /\ decision.model # "empty"
    /\ \A v \in decision.values :
          IF v.kind = "probability" THEN v.at = "unit" ELSE v.at # "infinite"

\* The body as one JSON document, whose text comes in one cell.
Document == IF Len(wire) = 1 /\ wire[1].value = "json" THEN {wire[1].body} ELSE {}

Acceptable(body) ==
    /\ body.object
    /\ call.decide => body.decision # {} /\ \A d \in body.decision : ValidDecision(d)
    /\ ~call.decide /\ ~call.helper => body.id # "none"

BodyEnds(body, opened) ==
    Finish([stream EXCEPT !.yielded =
               <<<<[wire[1] EXCEPT !.body.choices = opened.doc]>>>>],
           IF call.decide THEN stream.id ELSE body.id,
           Acceptable(body) /\ opened.ok)
EndBuffered ==
    /\ pc = "buffering"
    /\ \/ Document = {} /\ Give("failed")
       \/ \E body \in Document :
             BodyEnds(body, IF call.e2ee THEN DecryptResponse(body.choices, call.reply, FALSE)
                            ELSE [ok |-> TRUE, doc |-> body.choices])

-----------------------------------------------------------------------------
(* The receipt is verified, by verify_response or by hand. *)

\* A result that may change is asked for again.
Open == receipt # {} /\ (result = "none" \/ \E w \in signature : Retryable(result, w.status))

VerifyResponse(w) ==
    /\ Open
    /\ result' = VerifyReceipt(CHOOSE r \in receipt : TRUE, call.session, call.algo, w)
    /\ signature' = {w}
    /\ UNCHANGED <<call, pc, sent, wire, decoder, stream, receipt>>

\* fetch_completion_signature, then verify_gateway_response, or
\* find_model_attestation_for_signature and verify_model_response, or
\* verify_direct_model_response.
VerifyByHand(w) ==
    /\ Open
    /\ LET r == CHOOSE kept \in receipt : TRUE
           direct == DirectSignature(w)
           fetched == IF call.direct THEN direct.result ELSE FetchSignature(w)
           s == IF call.direct THEN direct.answer ELSE w
           found == FindModelAttestation(call.session.attested, s)
       IN result' =
            IF fetched # "ok" THEN fetched
            ELSE IF call.direct
            THEN VerifyDirectModelResponse(r.request, r.response, s, call.session.attested)
            ELSE IF s.kind = "gateway" /\ call.session.gateway # {}
            THEN VerifyCompletion("gateway", r.request, r.response, s,
                                  CHOOSE g \in call.session.gateway : TRUE)
            ELSE IF found # "ok" THEN found
            ELSE VerifyCompletion("provider_tee", r.request, r.response, s, s.signer)
    /\ signature' = {w}
    /\ UNCHANGED <<call, pc, sent, wire, decoder, stream, receipt>>

Next ==
    \/ Send \/ SystemoneCreate
    \/ \E head \in Answers(call) : Respond(head)
    \/ \E bytes \in Arrivals(call, wire) : Chunk(bytes) \/ Buffer(bytes)
    \/ Cut \/ EndStream \/ EndBuffered
    \/ \E r \in receipt : \E w \in SignatureAnswers(call, r) : VerifyResponse(w) \/ VerifyByHand(w)

Spec == Init /\ [][Next]_vars

-----------------------------------------------------------------------------
(* Properties. *)

\* Where an empty line ends, which is where a record ends; a CR that is the
\* last cell ends nothing before the end of the stream.
LineStops(bytes, eof) ==
    {k \in DOMAIN bytes :
        \/ bytes[k] = LF
        \/ bytes[k] = CR /\ (IF k = Len(bytes) THEN eof ELSE bytes[k + 1] # LF)}
RecordEnds(bytes, eof) ==
    LET stops == LineStops(bytes, eof)
        LineStart(k) == k = 1 \/ (k - 1) \in stops
    IN {k \in stops : LineStart(k) \/ (k > 1 /\ bytes[k] = LF /\ bytes[k - 1] = CR /\ LineStart(k - 1))}

RecordsOf(bytes, eof) ==
    PiecesOf(bytes, RecordEnds(bytes, eof) \cup IF eof THEN {Len(bytes)} \ {0} ELSE {})

\* However the network cuts a stream, and however the splitter cuts a chunk,
\* the consumer of a clear stream is given the records of the bytes so far,
\* whole, each once and in order, with their BOM and terminators, and at the
\* end the rest: SseDecoder::push and scan_records against the definition of
\* a record.
SplitWhole ==
    [][pc = "streaming" /\ pc' # "failed" /\ ~call.e2ee /\ stream'.ok
         => stream'.yielded = RecordsOf(wire', pc' = "done")]_vars

\* The records of a call's stream without their BOM, and what they hold.
Unmarked(k, record) == IF k = 1 /\ record[1] = BOM THEN Tail(record) ELSE record
LinesOf(k, record) == Lines(Unmarked(k, record))
DataOf(k, record) == Data(LinesOf(k, record))

\* A streamed receipt is filed under the one completion ID its stream names:
\* no record that was captured with it names another one (transform), so one
\* completion's signature is never asked for with another one's bytes.  And
\* no receipt is filed before the consumer was given something.
OneReceiptId ==
    [][pc = "streaming" => \A r \in receipt' :
         LET records == RecordsOf(r.response, TRUE)
             quiet == {k \in DOMAIN records : EventName(LinesOf(k, records[k])) # "error"}
             bodies == UNION {Json(DataOf(k, records[k])) : k \in quiet}
         IN /\ stream'.yielded # <<>>
            /\ {ReceiptId(body, call.route) : body \in bodies} \ {"none"} = {r.id}]_vars

\* A Messages stream that gets a receipt is one whole message: its only
\* message_start comes, its message_stop is the last event, no event is an
\* error or has a name that contradicts its body, and every record is ended
\* (MessageStreamState::observe and finish).
CompleteMessage ==
    [][pc = "streaming" /\ call.route = "messages" => \A r \in receipt' :
         LET records == RecordsOf(r.response, TRUE)
             events == {k \in DOMAIN records : ~NoData(DataOf(k, records[k]))}
             type == [k \in events |-> (CHOOSE body \in Json(DataOf(k, records[k])) : TRUE).type]
         IN /\ \A k \in DOMAIN records : Last(LinesOf(k, records[k])) = <<>>
            /\ \A k \in events :
                  /\ Json(DataOf(k, records[k])) # {}
                  /\ type[k] \notin {"none", "error"}
                  /\ EventName(LinesOf(k, records[k])) \in {"none", type[k]}
                  /\ type[k] = "message_stop" <=> \A j \in events : j <= k
            /\ \E first \in events : {k \in events : type[k] = "message_start"} = {first}]_vars

\* Where a response may hold a protected value: in its field, or astray, where
\* an array stands for an object or a text, or the other way round.
Astray(p, field) ==
    \E n \in 1..(Len(p) - 1) :
        /\ n <= Len(field) /\ SubSeq(p, 1, n) = SubSeq(field, 1, n)
        /\ IF n = Len(field) THEN p[n + 1] # "[]" \/ Len(p) = n + 1
           ELSE (p[n + 1] = "[]") # (field[n + 1] = "[]")
Protects(streaming, p) ==
    \E field \in ResponseFields(streaming) : Shape(p) = field \/ Astray(Shape(p), field)

\* The value v was sealed in what arrived, at this very place and to the
\* reply key.  Nothing more can be said: a response has no associated data.
SealedAt(reply, cells, p, v) ==
    \E cell \in Range(cells) :
        /\ cell.value = "json" /\ p \in DOMAIN cell.body.choices
        /\ LET came == cell.body.choices[p]
           IN came.kind = "sealed" /\ came.to = reply /\ came.aad = <<>> /\ Meaning(p, came.plain) = v

\* With E2EE no text of a protected field reaches the consumer that was not
\* sealed to this request's reply key in that very place, wherever a response
\* hides it, in whichever element of an array and among whatever records; only what an event named "error" holds is passed on as
\* it is (decrypt_response, transform).
NothingInClear ==
    [][call.e2ee /\ pc \in {"streaming", "buffering"} => \A k \in DOMAIN stream'.yielded :
         LET lines == Lines(stream'.yielded[k])
             bodies == {cell.body : cell \in {c \in Range(Data(lines)) : c.value = "json"}}
         IN EventName(lines) # "error" =>
              \A body \in bodies : \A p \in DOMAIN body.choices :
                 /\ Protects(pc = "streaming", p)
                 /\ body.choices[p].kind \in {"text", "sealed"}
                 => SealedAt(call.reply, wire', p, body.choices[p])]_vars

\* A completion that verifies was signed, by a signer the session attested
\* and in the role the answer claims, over exactly the request that was sent
\* and the bytes of which the consumer was given the content (send, register
\* and the check of verify_response, and the same by hand).
VerifiedIsDelivered ==
    result = "ok" =>
        /\ pc \in {"done", "failed"} /\ receipt # {}
        /\ \A w \in signature, r \in receipt, s \in sent :
              /\ w.signed.by \in {m.key : m \in (IF w.kind = "gateway" /\ ~call.direct
                                                 THEN call.session.gateway
                                                 ELSE call.session.selected \cup Range(call.session.attested))}
              /\ w.signed.over = IF w.kind = "gateway" /\ ~call.direct THEN <<s.body, wire>> ELSE <<s.body.model, s.body, wire>>
              /\ GatewayOnly(call) /\ call.session.attested = <<>> => w.kind = "gateway"

\* In a sealed request a protected field of a well-formed document, in any
\* element of an array, shows nothing but null, or a content that is neither
\* text nor a list of parts.  Every ciphertext is for this reply key and this
\* model's key, and bound to its field and no other one; to its field in any
\* element, because a label has no index: two contents may change places, a
\* content and a name may not (encrypt_request, field_aad).
SealsAreBound ==
    call.e2ee => \A s \in sent :
        LET doc == s.body.doc
            sealed == {p \in DOMAIN doc : doc[p].kind = "sealed"}
        IN /\ \A p \in Places(doc, Protected) :
                 \/ doc[p].kind \in {"sealed", "null"}
                 \/ Shape(p) = Content /\ doc[p].kind \notin {"text", "empty", "array"}
           /\ \A p, q \in sealed : doc[p].aad = doc[q].aad <=> Shape(p) = Shape(q)
           /\ \A p \in sealed : doc[p].aad[2] = call.reply /\ \E k \in call.modelKey : doc[p].to = k.public

\* Credentials are those the client was made with, all of them and no
\* others, whatever headers a call brings; a model key, where one is sent, is
\* the attested one; nothing else names a host (send, systemone_create).
HeadersAreTheClients ==
    \A s \in sent : ~call.helper =>
        /\ \A n \in Credentials(call) :
              /\ n \in DOMAIN s.headers <=> n \in DOMAIN call.options
              /\ n \in DOMAIN s.headers => s.headers[n] = "client"
        /\ "x-model-pub-key" \in DOMAIN s.headers => s.headers["x-model-pub-key"] = "attested"
        /\ call.e2ee => E2eeHeaders \subseteq DOMAIN s.headers
        /\ "host" \notin DOMAIN s.headers
=============================================================================
