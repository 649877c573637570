------------------------------ MODULE Evidence ------------------------------
(***************************************************************************)
(* What a preflight is shown, and what it may do with it.                  *)
(*                                                                         *)
(* A case is a set of client options and, for every piece of evidence the  *)
(* service returns, a label naming how that piece deviates from an honest  *)
(* one.  Variant and Manager turn a label into the evidence itself, with   *)
(* symbolic cryptography: a quote is genuine or it is not, a hash is the   *)
(* tuple it was computed from, and the RTMR3 register is the sequence of   *)
(* the digests it was extended with.  The four SDKs check the evidence     *)
(* (RustPreflight, GoPreflight, JsPreflight, PyPreflight); the promise     *)
(* they make about it is judged by the labels alone (Preflight).           *)
(*                                                                         *)
(* A verification is written as the sequence of its steps in the order of  *)
(* the code: local checks, and calls to another party, which is where the  *)
(* code awaits and other work may interleave.                              *)
(***************************************************************************)
EXTENDS Integers, Sequences

-----------------------------------------------------------------------------
(* Steps. *)

Call(to, p) == [to |-> to, for |-> p]
NoCall == Call("nobody", 0)

\* One step, as a sequence so that steps concatenate: a check that holds or
\* refuses, a connection whose handshake holds or fails, and a call to
\* another party with the verdict that party gives if it can be reached.
Check(holds) == <<[call |-> NoCall, ok |-> holds, connects |-> FALSE]>>
Connect(holds) == <<[call |-> NoCall, ok |-> holds, connects |-> TRUE]>>
Ask(to, p, verdict) == <<[call |-> Call(to, p), ok |-> verdict, connects |-> FALSE]>>
When(condition, steps) == IF condition THEN steps ELSE <<>>

\* What a failed step means to the preflight.
ErrorOf(step) == IF step.connects THEN "unreachable" ELSE "refused"

IsCall(step) == step.call # NoCall
CallsOf(steps) == {steps[i].call : i \in {k \in DOMAIN steps : IsCall(steps[k])}}
PositionOf(steps, c) == CHOOSE i \in DOMAIN steps : steps[i].call = c

\* Where a verification that has passed step i comes to a halt: at its next
\* call, at a check that fails, or behind its last step.
HaltAfter(steps, i) ==
    CHOOSE j \in (i + 1)..(Len(steps) + 1) :
        /\ j \in DOMAIN steps => IsCall(steps[j]) \/ ~steps[j].ok
        /\ \A k \in (i + 1)..(j - 1) : ~IsCall(steps[k]) /\ steps[k].ok

Finished(steps, j) == j \notin DOMAIN steps
Waits(steps, j) == j \in DOMAIN steps /\ IsCall(steps[j])
Fails(steps, j) == j \in DOMAIN steps /\ ~IsCall(steps[j])

-----------------------------------------------------------------------------
(* Event logs and quotes. *)

Runtime(name, payload) ==
    [imr |-> 3, runtime |-> TRUE, name |-> name, payload |-> payload,
     digest |-> <<name, payload>>, parses |-> TRUE]
Firmware(imr, digest) ==
    [imr |-> imr, runtime |-> FALSE, name |-> "", payload |-> "",
     digest |-> digest, parses |-> TRUE]
Blank == <<>>
Malformed == <<"malformed">>

ComposeEvent == Runtime("compose-hash", "compose")
ImageEvent(image) == Runtime("os-image-hash", image)
HonestLog == <<Firmware(0, <<"tdhob">>), ComposeEvent, ImageEvent("release")>>
HonestRegister == <<ComposeEvent.digest, ImageEvent("release").digest>>

HonestQuote(head) ==
    [genuine |-> TRUE, debug |-> FALSE, tcb |-> "UpToDate", head |-> head,
     nonce |-> "fresh", config |-> <<1, "compose">>, rtmr |-> HonestRegister]

Echo(quote) == <<quote.head, quote.nonce>>
NoEcho == <<>>

Other(algo) == IF algo = "ed25519" THEN "ecdsa" ELSE "ed25519"

\* An honest report of the machine called name, signing with algo.
HonestReport(algo, name) ==
    LET address == <<algo, name>>
        quote == HonestQuote(<<address>>)
    IN [nonce |-> "fresh", algo |-> algo, address |-> address,
        quote |-> quote, log |-> HonestLog, compose |-> "compose",
        echo |-> Echo(quote), fingerprint |-> "none", key |-> address,
        gpu |-> [nonce |-> "fresh", genuine |-> TRUE], manager |-> <<>>]

NoGpu == [nonce |-> "absent", genuine |-> FALSE]
NoKey == <<>>

\* A quote and the report data the report echoes from it.
Quoting(r, quote) == [r EXCEPT !.quote = quote, !.echo = Echo(quote)]
\* A report whose machine really runs image, its register and log included.
Running(r, image) ==
    [r EXCEPT !.quote.rtmr = <<ComposeEvent.digest, ImageEvent(image).digest>>,
              !.log = <<Firmware(0, <<"tdhob">>), ComposeEvent, ImageEvent(image)>>]

-----------------------------------------------------------------------------
(* Compose-manager evidence. *)

HonestManager ==
    LET quote == HonestQuote(<<"actions">>)
    IN [nonce |-> "fresh", actions |-> "actions", hash |-> "actions",
        quote |-> quote, log |-> HonestLog, echo |-> Echo(quote)]

ManagerLabels ==
    {"manager", "managerStale", "managerStaleQuote", "managerForged",
     "managerHash", "managerActions", "managerElsewhere", "managerLog",
     "managerDebug", "managerOutOfDate", "managerEcho"}

Manager(label) ==
    LET m == HonestManager
    IN CASE label = "manager" -> m
         [] label = "managerStale" -> [m EXCEPT !.nonce = "stale"]
         [] label = "managerStaleQuote" -> Quoting(m, [m.quote EXCEPT !.nonce = "stale"])
         [] label = "managerForged" -> [m EXCEPT !.quote.genuine = FALSE]
         [] label = "managerHash" -> [m EXCEPT !.hash = "edited"]
         [] label = "managerActions" -> [m EXCEPT !.actions = "edited", !.hash = "edited"]
         [] label = "managerElsewhere" -> [m EXCEPT !.quote.config = <<1, "elsewhere">>]
         [] label = "managerLog" -> [m EXCEPT !.log = SubSeq(m.log, 1, 2)]
         [] label = "managerDebug" -> [m EXCEPT !.quote.debug = TRUE]
         [] label = "managerOutOfDate" -> [m EXCEPT !.quote.tcb = "OutOfDate"]
         [] label = "managerEcho" -> [m EXCEPT !.echo = <<<<"edited">>, "fresh">>]

-----------------------------------------------------------------------------
(* Reports. *)

\* Deviations any report may have ...
CommonLabels ==
    {"honest", "staleNonce", "staleQuote", "forged", "debug", "outOfDate",
     "hardening", "borrowedQuote", "malformedAddress", "swappedCompose",
     "configVersion", "truncatedLog", "emptyLog", "extendedLog",
     "editedPayload", "editedBlank", "blankDigest", "unparsed",
     "oddForeign", "legacyClaim", "foreignClaim", "otherImage",
     "otherEcho", "noEcho", "otherAlgo"}
\* ... that concern a model's key, GPU, TLS key or identity ...
ModelLabels ==
    CommonLabels \cup ManagerLabels
        \cup {"otherCompose", "noKey", "alienKey", "noGpu", "staleGpu",
              "rejectedGpu", "pinned", "sibling", "siblingNoKey"}
\* ... or the Gateway's TLS key.
GatewayLabels ==
    CommonLabels \cup {"unpinned", "surplusPin", "swappedPin", "otherPeer"}

\* Deviations of a report r and its quote and log.
CommonVariant(r, label) ==
    CASE label = "honest" -> r
      [] label = "staleNonce" -> [r EXCEPT !.nonce = "stale"]
      [] label = "staleQuote" -> Quoting(r, [r.quote EXCEPT !.nonce = "stale"])
      [] label = "forged" -> [r EXCEPT !.quote.genuine = FALSE]
      [] label = "debug" -> [r EXCEPT !.quote.debug = TRUE]
      [] label = "outOfDate" -> [r EXCEPT !.quote.tcb = "OutOfDate"]
      [] label = "hardening" -> [r EXCEPT !.quote.tcb = "SWHardeningNeeded"]
      [] label = "borrowedQuote" ->
            [r EXCEPT !.address = <<r.algo, "impostor">>, !.key = <<r.algo, "impostor">>]
      [] label = "malformedAddress" ->
            LET address == <<"malformed", "cvm">>
            IN Quoting([r EXCEPT !.address = address, !.key = address],
                       [r.quote EXCEPT !.head[1] = address])
      [] label = "swappedCompose" -> [r EXCEPT !.compose = "swapped"]
      [] label = "configVersion" -> [r EXCEPT !.quote.config[1] = 2]
      [] label = "truncatedLog" -> [r EXCEPT !.log = SubSeq(r.log, 1, 2)]
      [] label = "emptyLog" -> [r EXCEPT !.log = SubSeq(r.log, 1, 1), !.quote.rtmr = <<>>]
      [] label = "extendedLog" -> [r EXCEPT !.log = Append(r.log, ComposeEvent)]
      [] label = "editedPayload" -> [r EXCEPT !.log[3].payload = "edited"]
      [] label = "editedBlank" ->
            [r EXCEPT !.log[3].payload = "edited", !.log[3].digest = Blank]
      [] label = "blankDigest" -> [r EXCEPT !.log[3].digest = Blank]
      [] label = "unparsed" -> [r EXCEPT !.log[1].parses = FALSE]
      [] label = "oddForeign" -> [r EXCEPT !.log[1].digest = Malformed]
      [] label = "otherImage" -> Running(r, "unreleased")
      [] label = "legacyClaim" ->
            LET claim == [Firmware(3, <<"firmware">>)
                            EXCEPT !.name = "os-image-hash", !.payload = "release"]
                real == Running(r, "unreleased")
            IN [real EXCEPT !.log = Append(real.log, claim),
                            !.quote.rtmr = Append(real.quote.rtmr, claim.digest)]
      [] label = "foreignClaim" ->
            LET real == Running(r, "unreleased")
            IN [real EXCEPT !.log = Append(real.log, [ImageEvent("release") EXCEPT !.imr = 2])]
      [] label = "otherEcho" -> [r EXCEPT !.echo[1] = <<<<r.algo, "edited">>>>]
      [] label = "noEcho" -> [r EXCEPT !.echo = NoEcho]

ModelVariant(algo, label) ==
    LET r == HonestReport(algo, "cvm")
    IN CASE label \in CommonLabels \ {"otherAlgo"} -> CommonVariant(r, label)
         [] label = "otherAlgo" -> HonestReport(Other(algo), "cvm")
         [] label \in ManagerLabels -> [r EXCEPT !.manager = <<Manager(label)>>]
         [] label = "otherCompose" -> [r EXCEPT !.compose = "beta", !.quote.config = <<1, "beta">>]
         [] label = "noKey" -> [r EXCEPT !.key = NoKey]
         [] label = "alienKey" -> [r EXCEPT !.key = <<algo, "impostor">>]
         [] label = "noGpu" -> [r EXCEPT !.gpu = NoGpu]
         [] label = "staleGpu" -> [r EXCEPT !.gpu.nonce = "stale"]
         [] label = "rejectedGpu" -> [r EXCEPT !.gpu.genuine = FALSE]
         [] label = "pinned" -> [r EXCEPT !.fingerprint = "model"]
         [] label = "sibling" -> HonestReport(algo, "sibling")
         [] label = "siblingNoKey" -> [HonestReport(algo, "sibling") EXCEPT !.key = NoKey]

\* A report whose quote binds the TLS key bound and which states the TLS key shown.
Binding(r, bound, shown) ==
    [Quoting(r, [r.quote EXCEPT !.head = <<r.address, bound>>]) EXCEPT !.fingerprint = shown]

\* The TLS peer of the evidence request has the key "gateway".
Peer == "gateway"

GatewayVariant(o, label) ==
    LET algo == IF label = "otherAlgo" THEN Other(o.algo) ELSE o.algo
        plain == HonestReport(algo, "gateway")
        r == IF o.tls THEN Binding(plain, Peer, Peer) ELSE plain
    IN CASE label = "otherAlgo" -> r
         [] label \in CommonLabels \ {"otherAlgo"} -> CommonVariant(r, label)
         [] label = "unpinned" -> plain
         [] label = "surplusPin" -> Binding(plain, Peer, Peer)
         [] label = "swappedPin" -> Binding(plain, "elsewhere", Peer)
         [] label = "otherPeer" -> Binding(plain, "elsewhere", "elsewhere")

OhttpLabels == {"good", "none", "otherKey", "badSignature", "unsupported"}
OhttpVariant(signer, label) ==
    [present |-> label # "none", algo |-> signer.algo,
     key |-> IF label = "otherKey" THEN <<signer.algo, "impostor">> ELSE signer.address,
     signed |-> label # "badSignature", supported |-> label # "unsupported"]

-----------------------------------------------------------------------------
(* A case: o, the options; gateway, models, ohttp, the labels of what is    *)
(* returned; vllm, whether the catalog lists a NEAR-attested model; moved,  *)
(* whether connections after the first meet another TLS key; listed,        *)
(* whether a direct endpoint lists its serving report among all reports.    *)

GatewayOf(i) == GatewayVariant(i.o, i.gateway)
ModelOf(i, p) == ModelVariant(i.o.algo, i.models[p])
Reports(i) == DOMAIN i.models
\* The service lists the serving report of a direct endpoint first.
Serving == 1
=============================================================================
