----------------------------- MODULE SendCases -----------------------------
(***************************************************************************)
(* RustSend on small calls: streams cell by cell and record by record, a   *)
(* sealed request and a sealed response with every one-place deviation,    *)
(* each with two elements in the arrays whose elements share a label,      *)
(* every choice of who supplies which header, and answers of the signature *)
(* endpoint that are right or wrong in one place.                          *)
(***************************************************************************)
EXTENDS RustSend

CONSTANTS MaxCells, MaxEvents   \* bounds on the length of a stream

Here(v) == [field |-> "data", value |-> v]
Carrying(body) == [field |-> "data", value |-> "json", body |-> body]
Event(v) == [field |-> "event", value |-> v]
Comment == [field |-> "other", value |-> "empty"]

-----------------------------------------------------------------------------
(* Documents with one deviation. *)

Path(p, kind) == p :> Kind(kind)
Seal(p, plain) == p :> Sealed("reply", <<>>, Kind(plain))

\* A response with every protected field, sealed as the code expects it.
Logs(p, first, second) ==
    Path(p, "array") @@ Path(Append(p, "[]"), "object") @@ Path(Append(p, "[1]"), "object")
    @@ Seal(p \o <<"[]", "token">>, "opened") @@ Seal(p \o <<"[]", "bytes">>, first)
    @@ Seal(p \o <<"[1]", "bytes">>, second)
BaseResponse(streaming, parts) ==
    LET m == Reply(streaming)
        f == m \o <<"function_call">>
        t == m \o <<"tool_calls">>
        g == t \o <<"[]", "function">>
        r == m \o <<"nearai_tool_result">>
        l == Logprobs \o <<"content">>
        c == Append(m, "content")
    IN Path(<<"choices">>, "array") @@ Path(Choice, "object") @@ Path(m, "object")
       @@ Path(<<"choices", "[1]">>, "object") @@ Path(<<"choices", "[1]", m[3]>>, "object")
       @@ Seal(<<"choices", "[1]", m[3], "content">>, "opened")
       @@ Seal(Append(m, "reasoning"), "opened") @@ Seal(Append(m, "refusal"), "opened")
       @@ (IF parts THEN Path(c, "array") @@ Path(Append(c, "[]"), "object") @@ Path(Append(c, "[1]"), "object")
                         @@ Seal(c \o <<"[]", "text">>, "opened") @@ Seal(c \o <<"[1]", "text">>, "opened")
           ELSE Seal(c, "opened"))
       @@ Path(Append(m, "audio"), "object") @@ Seal(m \o <<"audio", "data">>, "opened")
       @@ Path(t, "array") @@ Path(Append(t, "[]"), "object") @@ Path(g, "object")
       @@ Seal(Append(g, "name"), "opened") @@ Seal(Append(g, "arguments"), "opened")
       @@ Path(f, "object") @@ Seal(Append(f, "name"), "opened")
       @@ (IF streaming THEN Path(r, "object") @@ Seal(Append(r, "output"), "opened") ELSE Absent)
       @@ Path(Logprobs, "object") @@ Logs(l, "array", "quoted")
       @@ Logs(l \o <<"[]", "top_logprobs">>, "number", "null")

\* A request with every protected field in clear.
BaseRequest(content) ==
    LET base == Protected \cup
                {<<"messages", "[1]", "content">>, <<"messages", "[1]", "name">>,
                 Message \o <<"tool_calls", "[1]", "function", "arguments">>,
                 <<"tools", "[1]", "function", "parameters">>}
        above == UNION {{SubSeq(p, 1, n) : n \in 1..(Len(p) - 1)} : p \in base}
        kind(p) == IF \E q \in base \cup above : q = Append(p, "[]") \/ q = Append(p, "[1]") THEN "array"
                   ELSE IF p \in above THEN "object"
                   ELSE IF Shape(p) = Content THEN content ELSE "text"
    IN [p \in base \cup above |-> Kind(kind(p))]

\* The document with the value at p of another kind.  Under a container of
\* the wrong kind the fields stand in clear.
Uncovered(value) == IF value.kind = "sealed" THEN Kind("text") ELSE value
Deviant(doc, p, kind) ==
    LET below == {q \in DOMAIN doc : Below(q, p)}
        rest(q, n) == SubSeq(q, Len(p) + n, Len(q))
        listed == \E q \in below : q[Len(p) + 1] \in Elements
        moved == CASE kind = "array" /\ ~listed -> [q \in below |-> p \o <<"[]">> \o rest(q, 1)]
                   [] kind = "object" /\ listed -> [q \in below |-> p \o rest(q, 2)]
                   [] OTHER -> [q \in below |-> q]
        kept == IF kind \in {"array", "object"}
                THEN {q \in below : ~(kind = "object" /\ listed /\ Len(q) = Len(p) + 1)} ELSE {}
        wrapping == kind = "array" /\ ~listed /\ below # {}
    IN (p :> Kind(kind))
       @@ (IF wrapping THEN Path(Append(p, "[]"), "object") ELSE Absent)
       @@ [r \in {moved[q] : q \in kept} |->
              Uncovered(doc[CHOOSE q \in kept : moved[q] = r])]
       @@ Without(doc, below)
Kinds == <<"same", "null", "number", "text", "empty", "array", "object", "gone", "other", "bound", "unquoted">>
Changed(doc, p, kind) ==
    CASE kind = "same" -> doc
      [] kind = "gone" ->   \* no element that another one follows
            IF Last(p) = "[]" /\ Append(Front(p), "[1]") \in DOMAIN doc THEN doc
            ELSE Without(doc, {q \in DOMAIN doc : q = p \/ Below(q, p)})
      [] kind = "unquoted" -> IF doc[p].kind = "sealed" THEN [doc EXCEPT ![p].plain = Kind("text")] ELSE doc
      [] kind = "other" -> IF doc[p].kind = "sealed" THEN [doc EXCEPT ![p].to = "other", ![p].plain = Kind("text")] ELSE doc
      [] kind = "bound" -> IF doc[p].kind = "sealed" THEN [doc EXCEPT ![p].aad = <<"bound">>, ![p].plain = Kind("text")] ELSE doc
      [] OTHER -> Deviant(doc, p, kind)
Deviants(doc) ==
    LET paths == FoldSet(LAMBDA p, acc : Append(acc, p), <<>>, DOMAIN doc)
        n == Len(Kinds)
    IN [k \in 1..(n * Len(paths)) |->
           Changed(doc, paths[((k - 1) \div n) + 1], Kinds[((k - 1) % n) + 1])]

StreamDocs == Deviants(BaseResponse(TRUE, TRUE)) \o Deviants(BaseResponse(TRUE, FALSE))
WholeDocs == Deviants(BaseResponse(FALSE, FALSE))
RequestDocs == Range(Deviants(BaseRequest("text"))) \cup Range(Deviants(BaseRequest("array")))

(* The documents are JSON: every path of one leads through its containers, *)
(* and no element of an array is skipped.                                  *)
ASSUME DocumentsAssumption ==
    \A doc \in Range(StreamDocs) \cup Range(WholeDocs) \cup RequestDocs :
        \A p \in DOMAIN doc :
            Reached(doc, p) /\ (Last(p) = "[1]" => Append(Front(p), "[]") \in DOMAIN doc)

-----------------------------------------------------------------------------
(* JSON bodies. *)

Blank == [object |-> TRUE, id |-> "none", response |-> "none", message |-> "none",
          type |-> "none", choices |-> Absent, decision |-> {}]
Score(model, at) == {[model |-> model, values |-> {[kind |-> "probability", at |-> at]}]}
Typed(type, message) == [Blank EXCEPT !.type = type, !.message = message]
Identifying(id) == [Blank EXCEPT !.id = id]
Holding(doc) == [Blank EXCEPT !.id = "i", !.choices = doc]
Chat == Identifying("i")
Others == {Identifying("j"), [Blank EXCEPT !.object = FALSE]}
Responses ==
    {Blank} \cup {[Blank EXCEPT !.id = "item", !.response = id] : id \in {"i", "j"}}
Start == Typed("message_start", "i")
Stop == Typed("message_stop", "none")
Messages ==
    {Start, Stop, Typed("message_start", "j"), Typed("message_start", "none"), Typed("delta", "none"),
     Typed("error", "none"), [Blank EXCEPT !.object = FALSE]}
Clear == [Holding(Deviant(BaseResponse(TRUE, FALSE), Append(Reply(TRUE), "content"), "text"))
          EXCEPT !.id = "none"]
Whole == Holding(BaseResponse(TRUE, FALSE))
Decisions == {[Blank EXCEPT !.decision = Score(model, at)] : model \in {"m", "empty"}, at \in {"unit", "outside"}}

-----------------------------------------------------------------------------
(* Calls. *)

Signer(key) == [algo |-> "ed25519", key |-> key, length |-> 32]
Gateway == [direct |-> FALSE, gateway |-> {Signer("gateway")}, selected |-> {Signer("model")},
            attested |-> <<Signer("model"), Signer("other")>>]
Alone == [Gateway EXCEPT !.selected = {}, !.attested = <<>>]
Direct == [direct |-> TRUE, gateway |-> {}, selected |-> {Signer("model")},
           attested |-> <<Signer("model"), Signer("model")>>]

Key == [algo |-> "ed25519", public |-> "pk", length |-> 32, tag |-> 4, point |-> "prime"]
Curve(length, tag, point) == [Key EXCEPT !.algo = "ecdsa", !.length = length, !.tag = tag, !.point = point]
Keys == {Key} \cup {[Key EXCEPT !.point = point] : point \in {"small", "mixed", "off"}}
        \cup {[Key EXCEPT !.length = 31], Curve(64, 4, "prime"), Curve(65, 4, "prime"),
              Curve(65, 2, "prime"), Curve(33, 2, "prime"), Curve(64, 4, "off")}

\* `plan` says which answers and bytes the network has for the call.
Plain == [plan |-> "bytes", create |-> FALSE, helper |-> FALSE, decide |-> FALSE, route |-> "chat",
          stream |-> "true", object |-> TRUE, post |-> TRUE, model |-> "m", doc |-> Absent,
          direct |-> FALSE, e2ee |-> FALSE, ohttp |-> FALSE, modelKey |-> {}, reply |-> "reply",
          options |-> Absent, headers |-> Absent, session |-> Gateway, algo |-> "ed25519"]
Secret == [Plain EXCEPT !.e2ee = TRUE, !.modelKey = {Key}]

Streams ==
    {Plain, [Plain EXCEPT !.plan = "responses", !.route = "responses"],
     [Plain EXCEPT !.plan = "messages", !.route = "messages"],
     [Plain EXCEPT !.plan = "responses", !.route = "responses", !.create = TRUE, !.stream = "false"],
     [Secret EXCEPT !.plan = "sealed"], [Secret EXCEPT !.plan = "sealed", !.helper = TRUE]}
Documents ==
    {[Secret EXCEPT !.plan = "docs"], [Secret EXCEPT !.plan = "docs", !.helper = TRUE],
     [Secret EXCEPT !.plan = "whole"], [Secret EXCEPT !.plan = "whole", !.create = TRUE, !.stream = "absent"]}
Requests ==
    {[Secret EXCEPT !.plan = "none", !.doc = doc] : doc \in RequestDocs}
    \cup {[Secret EXCEPT !.plan = "none", !.doc = BaseRequest("array"), !.modelKey = {key}] : key \in Keys}
    \cup {[Secret EXCEPT !.plan = "none", !.modelKey = {}]}
Refusals ==
    {[c EXCEPT !.plan = "none", !.post = post, !.model = model, !.direct = direct,
               !.session = IF direct THEN Direct ELSE Gateway, !.object = object,
               !.stream = asked, !.create = create, !.decide = decide] :
        c \in {Plain, Secret, [Plain EXCEPT !.route = "messages"], [Secret EXCEPT !.route = "responses"],
               [Plain EXCEPT !.route = "elsewhere"]},
        post \in BOOLEAN, model \in {"m", "empty", ".."}, direct \in BOOLEAN, object \in BOOLEAN,
        asked \in {"absent", "true"}, create \in BOOLEAN, decide \in BOOLEAN}
Names == {"authorization", "api-key", "x-api-key", "x-model-pub-key", "host"}
By(who) == {[n \in names |-> who] : names \in SUBSET Names}
Supplied ==
    {[c EXCEPT !.plan = "none", !.options = options, !.headers = headers] :
        c \in {Plain, Secret, [Plain EXCEPT !.modelKey = {Key}], [Plain EXCEPT !.route = "messages"],
               [Plain EXCEPT !.decide = TRUE, !.stream = "absent"]},
        options \in By("client"), headers \in By("caller")}
Receipted ==
    {[c EXCEPT !.plan = "receipt", !.session = session, !.direct = session.direct] :
        c \in {Plain}, session \in {Gateway, Direct}}
    \cup {[Plain EXCEPT !.plan = "receipt", !.route = route, !.session = session, !.create = TRUE, !.stream = "absent"] :
            route \in {"responses", "messages"}, session \in {Gateway, Alone}}
    \cup {[Plain EXCEPT !.plan = "decision", !.decide = TRUE, !.stream = "absent"]}
MCCalls == Streams \cup Documents \cup Requests \cup Refusals \cup Supplied \cup Receipted

-----------------------------------------------------------------------------
(* The network. *)

Answer(status, events, generation) == [status |-> status, events |-> events, generation |-> generation]
MCAnswers(c) ==
    CASE c.plan = "none" -> {Answer(500, FALSE, "none")}
      [] c.plan \in {"whole", "receipt"} -> {Answer(200, FALSE, "none")}
      [] c.plan = "decision" -> {Answer(200, FALSE, g) : g \in {"none", "i"}} \cup {Answer(500, FALSE, "i")}
      [] OTHER -> {Answer(200, TRUE, "none")}

\* A text ends with its line; a BOM is at the front or is part of a text.
Lineal(bytes) ==
    \A k \in 1..(Len(bytes) - 1) :
        /\ bytes[k] \notin Terminators => (bytes[k] = BOM /\ k = 1) \/ bytes[k + 1] \in Terminators
        /\ bytes[k + 1] # BOM
Cells == {CR, LF, BOM, Carrying(Chat), Carrying(Identifying("j")), Here("garbage"), Here("invalid")}
ByteChunks(soFar) ==
    {b \in BoundedSeq(Cells, MaxCells - Len(soFar)) : b # <<>> /\ Lineal(soFar \o b)}

Record(cells) == cells \o <<LF, LF>>
MessageRecords ==
    {Record(<<Carrying(body)>>) : body \in Messages}
    \cup {Record(<<Event(e), LF, Carrying(body)>>) :
            e \in {"message_start", "message_stop", "error"}, body \in {Start, Stop}}
    \cup {Record(<<Comment>>), Record(<<[Comment EXCEPT !.value = "invalid"]>>),
          Record(<<Here("garbage")>>), <<Carrying(Stop), LF>>}
SealedRecords ==
    {Record(<<Carrying(body)>>) : body \in {Whole, Clear} \cup Others}
    \cup {Record(<<Here(v)>>) : v \in {"done", "garbage", "empty", "invalid"}}
    \cup {Record(<<Event("error"), LF, Carrying(Clear)>>), Record(<<Here("empty"), LF, Carrying(Whole)>>)}
Records(c) ==
    CASE c.plan = "messages" -> MessageRecords
      [] c.plan = "sealed" -> SealedRecords
      [] OTHER -> {Record(<<Carrying(body)>>) : body \in Responses} \cup {Record(<<Here("done")>>)}
Count(bytes) == Cardinality({k \in DOMAIN bytes : bytes[k].field \in {"data", "other"}})

MCArrivals(c, soFar) ==
    CASE c.plan = "bytes" -> ByteChunks(soFar)
      [] c.plan = "docs" ->
            IF soFar = <<>> THEN {Record(<<Carrying(Holding(doc))>>) : doc \in Range(StreamDocs)} ELSE {}
      [] c.plan = "whole" /\ c.e2ee ->
            IF soFar = <<>> THEN {<<Carrying(Holding(doc))>> : doc \in Range(WholeDocs)} ELSE {}
      [] c.plan \in {"receipt", "decision"} ->
            IF Len(soFar) < 2 THEN {<<Carrying(body)>> : body \in {Chat} \cup Others \cup Decisions} ELSE {}
      [] Count(soFar) < MaxEvents -> Records(c)
      [] OTHER -> {}

\* What the endpoint answers: right, or wrong in one place.
Texts(r) == {<<r.request, r.response>>, <<"m", r.request, r.response>>,
             <<r.request, <<>>>>, <<"m", [r.request EXCEPT !.model = "n"], r.response>>}
Signed(by, text) == [by |-> by, over |-> text, v |-> 0, odd |-> 0, length |-> 64]
Good(kind, by, text) ==
    [transport |-> FALSE, status |-> 200, object |-> TRUE, missing |-> {}, null |-> {}, reason |-> FALSE,
     kind |-> kind, text |-> text, signed |-> Signed(by, text), signer |-> Signer(by)]
Ecdsa(w, v, length) ==
    [w EXCEPT !.signer = [@ EXCEPT !.algo = "ecdsa", !.length = 20],
              !.signed = [@ EXCEPT !.v = v, !.length = length]]
MCSignatureAnswers(c, r) ==
    LET good == {Good(kind, by, text) : kind \in {"gateway", "provider_tee"},
                                        by \in {"gateway", "model", "other", "stranger"}, text \in Texts(r)}
        one == Good("provider_tee", "model", <<"m", r.request, r.response>>)
    IN IF c.plan = "none" \/ ~(c \in Receipted) THEN {}
       ELSE good \cup {[w EXCEPT !.signed.over = <<r.request, <<>>>>] : w \in good}
            \cup {[w EXCEPT !.signed.by = "stranger"] : w \in good}
            \cup {[one EXCEPT !.transport = TRUE], [one EXCEPT !.status = 404], [one EXCEPT !.status = 400],
                  [one EXCEPT !.object = FALSE], [one EXCEPT !.signer.length = 20],
                  [one EXCEPT !.missing = {"signature_kind"}], [one EXCEPT !.missing = Fields, !.reason = TRUE],
                  [one EXCEPT !.null = Fields, !.reason = TRUE], [one EXCEPT !.signed.length = 65]}
            \cup {Ecdsa(one, v, 65) : v \in {0, 1, 5, 27, 37}} \cup {Ecdsa(one, 0, 64)}
=============================================================================
