------------------------------ MODULE RustE2ee ------------------------------
(***************************************************************************)
(* Field-level encryption of Chat in the Rust client (rs/src/e2ee.rs): the *)
(* fields of a request that are sealed, what each ciphertext is bound to,  *)
(* and the fields of a response that must open.                            *)
(*                                                                         *)
(* A JSON document is a function from paths to values: [kind |-> "array" | *)
(* "object" | "null" | "number" | "text" | "empty"], or a ciphertext       *)
(* [kind |-> "sealed", to, aad, plain].  A step of a path is the name of a *)
(* member or one of Elements, the elements of an array.  The ciphers are   *)
(* ideal: what was sealed to a key under some associated data opens with   *)
(* that key and that data, and nothing else opens.                         *)
(***************************************************************************)
EXTENDS Naturals, SequencesExt

CONSTANT Elements   \* "[]", the first element of an array, "[1]" and so on

ASSUME RustE2eeAssumption == "[]" \in Elements

Absent == [p \in {} |-> p]     \* no such member of the document

Kind(k) == [kind |-> k]
Sealed(to, aad, plain) == [kind |-> "sealed", to |-> to, aad |-> aad, plain |-> plain]
KindAt(doc, path) == IF path \in DOMAIN doc THEN doc[path].kind ELSE "absent"

\* Every container on the way to a path is there and of the right kind: an
\* array where an element follows, else an object.
Reached(doc, path) ==
    \A n \in 1..(Len(path) - 1) :
        KindAt(doc, SubSeq(path, 1, n)) = IF path[n + 1] \in Elements THEN "array" ELSE "object"

\* The field that a path leads to, whichever elements it passes through.
Shape(path) == [k \in DOMAIN path |-> IF path[k] \in Elements THEN "[]" ELSE path[k]]
Places(doc, shapes) == {p \in DOMAIN doc : Shape(p) \in shapes /\ Reached(doc, p)}

Under(path, names) == {Append(path, name) : name \in names}
Below(path, ancestor) ==
    Len(ancestor) < Len(path) /\ SubSeq(path, 1, Len(ancestor)) = ancestor

-----------------------------------------------------------------------------
(* Keys. *)

\* The encodings of a model key: its length, the tag byte of a 65-byte one,
\* and where its point lies.
ValidModelKey(algo, key) ==
    IF algo = "ed25519" THEN key.length = 32 /\ key.point = "prime"
    ELSE /\ key.point # "off"
         /\ key.length = 64 \/ (key.length = 65 /\ key.tag = 4)

\* `derive` refuses the shared secret of a point of small order.
Agreed(algo, key) == key.point # "small"

\* request_aad and field_aad: the suite, the reply key and the field's label.
RequestAad(algo, reply, label) == <<algo, reply, label>>

-----------------------------------------------------------------------------
(* encrypt_request *)

Message == <<"messages", "[]">>
ToolCall == Message \o <<"tool_calls", "[]", "function">>
Tool == <<"tools", "[]", "function">>

\* The protected fields of a request, with the label each is sealed under: a
\* label says nothing of the element, so all elements of an array share it.
Labelled(path, names, label) == {<<Append(path, n), <<label, n>>>> : n \in names}
BadRequestFields ==
    Labelled(Message, {"content", "reasoning_content", "reasoning", "name", "refusal"}, "messages[]")
    \cup Labelled(Message \o <<"audio">>, {"data"}, "messages[].audio")
    \cup Labelled(ToolCall, {"name", "arguments"}, "function_call")
    \cup Labelled(Message \o <<"function_call">>, {"name", "arguments"}, "function_call")
    \cup Labelled(Tool, {"name", "description", "parameters"}, "tools[].function")
    \cup Labelled(<<"tool_choice", "function">>, {"name"}, "tool_choice.function")
    \cup Labelled(<<"function_call">>, {"name"}, "function_call")
RequestFields ==
    Labelled(Message, {"content", "reasoning_content", "reasoning", "name", "refusal"}, "messages[]")
    \cup Labelled(Message \o <<"audio">>, {"data"}, "messages[].audio")
    \cup Labelled(ToolCall, {"name", "arguments"}, "messages[].tool_calls[].function")
    \cup Labelled(Message \o <<"function_call">>, {"name", "arguments"}, "messages[].function_call")
    \cup Labelled(Tool, {"name", "description", "parameters"}, "tools[].function")
    \cup Labelled(<<"tool_choice", "function">>, {"name"}, "tool_choice.function")
    \cup Labelled(<<"function_call">>, {"name"}, "function_call")

Content == Append(Message, "content")
Parameters == Append(Tool, "parameters")
Protected == {f[1] : f \in RequestFields}
LabelOf(field) == (CHOOSE f \in RequestFields : f[1] = field)[2]

\* What is sealed at a field that is reached: text, the parts of a message
\* as one JSON text, the parameters of a tool whatever they are.
Sealable(value, field) ==
    \/ value.kind \in {"text", "empty"}
    \/ field = Content /\ value.kind = "array"
    \/ field = Parameters

\* `fields` refuses anything else but null; a message's content stays as it is.
Refusable(value, field) ==
    field # Content /\ ~Sealable(value, field) /\ value.kind # "null"

EncryptRequest(doc, model, reply) ==
    LET reached == Places(doc, Protected)
        sealed == {p \in reached : Sealable(doc[p], Shape(p))}
        kept == {p \in DOMAIN doc : \A s \in sealed : ~Below(p, s)}
        ok == /\ \A p \in reached : ~Refusable(doc[p], Shape(p))
              /\ sealed # {} => ValidModelKey(model.algo, model) /\ Agreed(model.algo, model)
    IN [ok |-> ok,
        doc |-> [p \in kept |->
                    IF p \in sealed
                    THEN Sealed(model.public, RequestAad(model.algo, reply, LabelOf(Shape(p))), doc[p])
                    ELSE doc[p]]]

-----------------------------------------------------------------------------
(* decrypt_response *)

\* A response has no associated data.  An empty string needs no key.
Opens(value, key) ==
    \/ value.kind = "empty"
    \/ value.kind = "sealed" /\ value.to = key /\ value.aad = <<>>
Opened(value) == IF value.kind = "sealed" THEN value.plain ELSE value

\* The bytes of a logprob are JSON once opened, which text is not unless it
\* is quoted, and they are replaced by what that JSON says.
JsonKinds == {"array", "object", "number", "null", "quoted"}
Meaning(path, value) ==
    IF Last(path) = "bytes" /\ value.kind = "quoted" THEN Kind("text") ELSE value

Choice == <<"choices", "[]">>
Reply(streaming) == Append(Choice, IF streaming THEN "delta" ELSE "message")
ReplyCall(streaming) == Reply(streaming) \o <<"tool_calls", "[]", "function">>
Logprobs == Append(Choice, "logprobs")
Entries ==
    LET outer == {Append(Logprobs, "content"), Append(Logprobs, "refusal")}
    IN outer \cup {p \o <<"[]", "top_logprobs">> : p \in outer}   \* one level of nesting

\* The arrays of objects, the objects and the sealed strings of a response.
ResponseArrays(streaming) ==
    {<<"choices">>, Append(Reply(streaming), "tool_calls")} \cup Entries
ResponseObjects(streaming) ==
    {Reply(streaming), ReplyCall(streaming), Logprobs}
    \cup Under(Reply(streaming), {"audio", "function_call"})
    \cup IF streaming THEN Under(Reply(streaming), {"nearai_tool_result"}) ELSE {}
ResponseFields(streaming) ==
    Under(Reply(streaming), {"reasoning_content", "reasoning", "refusal", "content"})
    \cup Under(Reply(streaming) \o <<"content", "[]">>, {"text"})
    \cup Under(Reply(streaming) \o <<"audio">>, {"data"})
    \cup Under(ReplyCall(streaming), {"name", "arguments"})
    \cup Under(Reply(streaming) \o <<"function_call">>, {"name", "arguments"})
    \cup {p \o <<"[]", n>> : p \in Entries, n \in {"token", "bytes"}}
    \cup IF streaming THEN Under(Reply(streaming) \o <<"nearai_tool_result">>, {"output"}) ELSE {}

\* response_objects, response_object and fields on one reached member; the
\* parts of a content array are objects like those of the other arrays.
ArrayHolds(doc, path) ==
    /\ KindAt(doc, path) \in {"absent", "null", "array"}
    /\ KindAt(doc, path) = "array" =>
          \A e \in Elements : KindAt(doc, Append(path, e)) \in {"absent", "object"}
ObjectHolds(doc, path) == KindAt(doc, path) \in {"absent", "null", "object"}
BadFieldHolds(doc, path, key) == KindAt(doc, path) # "sealed" \/ Opens(doc[path], key)
FieldHolds(doc, path, key) ==
    \/ KindAt(doc, path) \in {"absent", "null"}
    \/ /\ Opens(doc[path], key)
       /\ Last(path) = "bytes" => Opened(doc[path]).kind \in JsonKinds

DecryptResponse(doc, key, streaming) ==
    LET contents == Places(doc, {Append(Reply(streaming), "content")})
        parts == {p \in contents : doc[p].kind = "array"}
        fields == Places(doc, ResponseFields(streaming)) \ parts
        arrays == Places(doc, ResponseArrays(streaming)) \cup parts
    IN [ok |-> /\ \A p \in arrays : ArrayHolds(doc, p)
               /\ \A p \in Places(doc, ResponseObjects(streaming)) : ObjectHolds(doc, p)
               /\ \A p \in fields : FieldHolds(doc, p, key),
        doc |-> [p \in DOMAIN doc |-> IF p \in fields THEN Meaning(p, Opened(doc[p])) ELSE doc[p]]]

-----------------------------------------------------------------------------
(* prepare_e2ee_chat_request: its headers. *)

E2eeHeaders ==
    {"x-signing-algo", "x-client-pub-key", "x-model-pub-key", "x-encryption-version",
     "x-encrypt-all-fields"}
BodyHeaders ==
    {"content-length", "transfer-encoding", "trailer", "content-md5", "digest", "content-digest",
     "repr-digest", "content-encoding", "etag", "last-modified"}

\* Headers are a function from names to who supplied the value.
Without(headers, names) == [n \in DOMAIN headers \ names |-> headers[n]]
With(headers, names, by) ==
    [n \in DOMAIN headers \cup names |-> IF n \in names THEN by ELSE headers[n]]

RemoveE2eeHeaders(headers) == Without(headers, E2eeHeaders)
PrepareHeaders(headers) ==
    With(RemoveE2eeHeaders(Without(headers, BodyHeaders)),
         E2eeHeaders \cup {"content-type", "x-no-aliasing"}, "attested")
=============================================================================
