# TLA+ specification of the NEAR AI inference SDK

The repository holds one SDK four times: in Rust (`rs/`), Go (`go/`),
JavaScript (`js/`) and Python (`py/`). An inference client verifies the
deployment that will answer (a TDX quote, its event log, GPU evidence, image
provenance), sends the request over a connection bound to that evidence,
captures the exact bytes of request and response, and later verifies the
signature that the service publishes for them.

These modules model two things. The first is the part of the SDK whose
correctness depends on the order in which things happen: the two caches every
client keeps, who shares which piece of running work, what a late answer may still
change, what closing or clearing a client leaves behind; and the preflight, the
verification that must be complete before anything confidential is sent. Each
language has its own modules for these, because each has its own concurrency
(threads with a mutex and droppable futures, goroutines, promise callbacks,
asyncio tasks) and its own code. The second is what one call does with what a server tells it: records cut
anywhere by the network, sealed fields, encapsulated answers that may stop at any
byte, signatures, provenance pages and GPU tokens. That part is modelled for
the Rust client.

## Inventory

### Components, their state and operations

| Component | State | Operations | What makes it correct |
|---|---|---|---|
| Session cache (each client) | verified sessions with expiry, pending checks, and in Go and Python a pool of transports | `session` / `getSession` / `startVerification` / `_start_verification`, expiry, close | one check per model at a time; only successful checks are cached; a late waiter never replaces a newer result; after close nothing is cached and nothing runs |
| Response cache (each client) | retained records by completion ID, a generation counter, per record: bytes, expiry, shared verification | `register`, `verify_response`, `clear_response_cache`, expiry, close | a running verification has its bytes; one terminal verdict; bytes kept exactly while a retry may need them; nothing sent before a clear survives it; a valid record is never displaced |
| Preflight (`create_session` / `createSession`) | none that outlives the call; while it runs, the calls it awaits | gateway, model, compose-manager and GPU checks in order, reports in parallel | no credential leaves before the Gateway is authenticated; any failure fails the session; no acceptable deployment is refused |
| Stream capture and SSE | unfinished record and scan offset, captured bytes, completion ID, Messages lifecycle | push a chunk, read a record, end of body | records do not depend on chunk boundaries; a receipt belongs to one completion, whole |
| OHTTP transport | bytes not yet parsed, position in the Binary HTTP message | encapsulate, decrypting reader, body reader | no truncated or unauthenticated body ends cleanly, no honest one is refused |
| Field-level E2EE | one response key per request | prepare request, decrypt response | no protected field travels in the clear; a clear response field is refused; a ciphertext opens in its own field only |
| Response signatures | none | fetch, judge a signature against request, response and evidence | only an attested signer, in its role, over the exact bytes, is accepted |
| Image and deployment provenance | page cursor, byte and page counts | select images, paginate, choose a bundle that satisfies the policy | pagination stays where it was sent and ends; every image that runs was built as one policy says |
| Event log (RTMR3) | running digest, latest runtime events | replay | metadata returned is covered by the quoted register |
| NVIDIA GPU evidence | none that outlives the check | submit, fetch keys, judge the token | the verdict is NVIDIA's, for this nonce, and still valid when it is used |
| Quotes, DCAP, TLS pinning | none | parse and verify | cryptographic; not a matter of order |
| Cloud API, direct API, System One, HTTPX2 adapter | none | HTTP requests and schema checks | error mapping |

### How they interact

A caller's `send` (`fetch`, `RoundTrip`) reads the response generation, obtains a
session from the session cache (which may start or join a preflight), sends over
that session's transport, and wraps the body. The body's end, or in JavaScript and
Python its first event with an ID, registers the captured completion in the
response cache together with the session it was sent under. `verify_response`
finds the record and starts or joins one signature lookup. A timer, a ticker
goroutine or the next access expires entries. `clear_response_cache` and `close`
may come at any point of all this.

### Where it is hard

- Shared work: several callers wait for one check or lookup; any of them may be
  cancelled, dropped or time out while the others still need it.
- State used after an await or an unlock: a waiter that settles a check relocks
  and must recognise that it is late.
- Callbacks and timers that outlive the record they were made for.
- Responses that end after a clear or a close.
- Identifiers chosen by the service, which may repeat.
- Close racing new work, and waiting for work that never ends.
- Limits: the pool of sixteen transports in Go, the longest timer in JavaScript.
- Bytes that arrive in any pieces and may stop anywhere.
- Servers that answer with anything: other links, other fields, other signers.

`PROJECT.json` lists each of these hazards at the line where it bites, with the
properties that cover it.

## Modules

| Module | Models | State and actions in the code |
|---|---|---|
| `Receipts` | the promise all four response caches make | abstract, no code: `Send`, `Retain`, `Lapse`, `Drop`, `Clear`; `Ask`, `Retry`, `Decide`, `Release` |
| `Sessions` | the promise the session caches make | abstract, no code: `Launch`, `Finish`, `Cache`, `Lapse`, `Drop`, `Close` |
| `RustReceipts` | `rs/src/inference.rs`: `send`'s fence, `register`, `verify_response`, `clear_response_cache` | `responses` is `State.responses`; `captured` and `verification` are `RecordState`; `pc`, `rec`, `fut` place each task inside `verify_response`. An action ends where a lock is released or a future awaited; `Cancel` drops a task at an await |
| `RustSessions` | `rs/src/inference.rs`: `session` | `pending[m]` is the weak reference, alive while a caller holds the future (`Held`) |
| `JsSessions` | `js/src/core/inference-client.ts`: `startVerification`, `removeExpiredVerifications`, `clearPendingVerification` | `run` is the shared promise; a settled one is `ok` or `failed` until `startVerification`'s own handler has run |
| `PySessions` | `py/.../core/inference_client.py`: `_start_verification`, `_create_session`'s HTTP clients, `aclose` | `run` is the shared task, `awaited` the tasks `aclose` has cancelled, `clients` the keys of `_http_clients`, `unclosed` those whose client is open |
| `GoSessions` | `go/client.go`: `getSession`, `createSession`'s pools, `prune`, `Close` | an action is a critical section of `c.mu`, a channel receive, or the end of a goroutine; `transports` is the bounded pool map, `idle` the pools that hold an idle connection |
| `GoReceipts` | `go/client.go`: `register`, `VerifyResponse`, `ClearResponseCache`, `Close` | as above; `verifying` is `responseRecord.verifying` |
| `JsReceipts` | `js/src/core/inference-client.ts`: `registerResponse`, `verifyResponse`, `clearResponseCache` | an action is a stretch of code between two awaits; `timer` is the pending `setTimeout`, `started` says the body's callback has run |
| `PyReceipts` | `py/.../core/inference_client.py`: `_register_response`, `verify_response`, drains, `aclose` | tasks that `aclose` has cancelled are `doomed`; `callbacks` holds done callbacks scheduled but not yet run |
| `Evidence` | what the service shows a preflight | symbolic reports, quotes, event logs, compose-manager and OHTTP evidence, and every single deviation of them under a label; the steps a verification is made of |
| `Preflight` | the promise all preflights make | abstract, no code: `GoOn`, `Grant`, `Refuse`, `GiveUp` |
| `RustPreflight` | `rs/src/inference.rs` and `direct.rs`: `create_session`, with `attestation.rs`, `bindings.rs`, `model.rs`, `gateway.rs`, `event_log.rs`, `compose_manager.rs` | one operator per verifying function; `inflight` is the calls a future of `create_session` awaits; an action runs one future from the answer to its next call |
| `GoPreflight` | `go/client.go`: `createSession`, with `verification.go`, `compose_manager.go`, `gpu.go`, `api.go` | as above, with one goroutine and so one call at a time |
| `JsPreflight` | `js/src/core`: `createVerificationState` of both clients and the verifiers | as above; two tracks per report start together, and none stops when another fails |
| `PyPreflight` | `py/.../core`: `_create_session` of both clients and the verifiers | as above; `faults` is the reports with a failed track whose gather has not raised yet |
| `Preflights` | no code of its own: the four preflights | one set of variables, `language` says whose preflight it is; their common properties, among them `ImplementsPreflight` and `NeverStranded`, and the order of steps behind them (`GrantedIsVerified`, `KeyIsGuarded`) |
| `RustSend` | `rs/src/inference.rs`: `send`, its Chat, Responses and Messages wrappers, `systemone_create` (with `systemone.rs`), the byte-level helpers of `e2ee.rs` | one call from the caller's request to a verified receipt: `pc` is the place in it, `stream` the capturing transform, `wire` the bytes that arrived, `receipt` what is registered, `signature` what the signature endpoint answered; all properties of a call |
| `RustSse` | `rs/src/sse.rs` | `push` scans cells from an offset as `SseDecoder::push` does; parsing of records, `MessageStreamState` |
| `RustE2ee` | `rs/src/e2ee.rs` | documents as functions from paths to values, with several elements in an array; which field a path leads to (`Shape`); sealing, associated data, decryption of a response |
| `RustSignature` | `rs/src/cloud_api.rs`, `response.rs`, `direct.rs` | the signature endpoint's answer and its errors; the judgement on a signature, as the first failing check |
| `RustOhttp` | `rs/src/ohttp.rs` | which request is encapsulated; an action reads one integer, text or piece of content of the answer, which the sender chooses cell by cell; below it, from the sender's side, what a whole answer is, and the property `CleanEndIsWhole` |
| `RustProvenance` | `rs/src/provenance.rs` | one request of GitHub's attestation pages, link resolution, limits, and the checks of a bundle |
| `RustImages` | `rs/src/deployment_provenance.rs`, `compose_manager_provenance.rs` | which images of a deployment must be checked |
| `RustNras` | `rs/src/nvidia.rs`, `model.rs` | when GPU evidence is needed and what NVIDIA's answers must say |
| `RustDeployment` | the three above, run one after the other on one deployment, as `verify_model_with_tls` and a deployment verifier do; its properties | `deployed` the measured deployment, `stage` in the run, `queue` the images still to check, `url`, `bytes`, `visited` the pagination, `now` the time; `oddities` counts the unusual inputs |
| `ClientSessions` | no code of its own | the session caches of JavaScript and Python under one set of variables (`language` says whose behaviour it is), beside Go's for liveness; their common properties and `ImplementsSessions` |
| `SendCases` | no code | the inputs TLC gives `RustSend`, with the assumption that their documents are JSON |
| `DeploymentCases` | no code | the inputs TLC gives `RustDeployment` |
| `GoReceipts_proofs`, `GoSessions_proofs`, `JsReceipts_proofs`, `PyReceipts_proofs`, `ClientSessions_proofs` | theorems and proofs about the module each is named after | |
| `Sessions_proofs` | theorems and proofs about `RustSessions` and `Preflights` | |
| `RustAnswers_proofs` | theorems and proofs about `RustReceipts` and `RustOhttp` | |
| `Verification_proofs` | theorems and proofs about `RustSend` (with `RustSse` and `RustE2ee`) and `RustDeployment` | |
| `MC_*` | the instances TLC checks; `MC_Preflight` and `MC_RustCalls` put several components beside each other, and `MC_RustCalls` compares the OHTTP reader with the set of all whole messages; the others give values only | |

The `map` in `PROJECT.json` gives, for each definition, the lines it translates.
Definitions named `Bad...` stand before the definition they distort; they are used
by nobody and exist to show that each property can fail.

### The three abstract specifications

`Receipts` says in one place what a reader of any client relies on. A completion
whose request was sent before a clear is fenced and never retained; one that is
retained keeps its ID until its time is over or the cache is cleared, so no other
completion displaces it; one lookup at a time asks about it, and only while its
bytes are kept and it is undecided; it is decided once; its bytes go only after
that. Each of the four models maps its own variables to these six
(`ImplementsReceipts`); TLC checks on an instance, and TLAPS proves for all of them,
that every step of it is a step of `Receipts` or a stutter. Time, timers, locks, tasks and the way a waiter settles a result are
all below that line, which is why one specification serves four programs.

`Sessions` says the same of deployment checks: one running check of a model, a
check starts only when no unexpired session of its model is cached, a cached session
is the result of a successful check of that very model and stays until it lapses
or the client closes, and a closed client starts and caches nothing. A check
may be reused as an object once nothing refers to it. All four session caches
implement it. A Python client counts as closed when `aclose` returns: before that
the callback of a cancelled check may still cache a session, which `aclose` then
forgets.

`Preflight` judges a preflight by what really happened to the evidence it was
shown, never by the checks it ran. Each case of `Evidence` carries labels
(`forged`, `staleGpu`, `legacyClaim`, ...); `Evidence` turns a label into a report
with symbolic cryptography, on which the four clients run their checks; `Preflight`
decides from the labels alone what a client may do. It may send the API key
(`Credentialed`) only to a Gateway that was authenticated and approved, over a
connection to the key that Gateway attested. It may show a deployment to the
caller's verifier only if an authenticated quote measured it. It may grant a
session only for acceptable evidence and after every call the options require
was answered, and may refuse only what is not acceptable. So a check that is
missing, that comes too late or that looks at the wrong field is a step
`Preflight` does not have, and so is an honest deployment turned away. How
many calls are in progress at once, and which error is first, is left open: the
four clients differ in it.

### What is abstracted

- In the caches the result of a check or of a signature lookup is a
  nondeterministic choice among the outcomes the code distinguishes: success,
  terminal failure, retryable failure. What the bytes say is not modelled there,
  only whether they are still there; `RustSend` and `RustSignature` model the rest.
- A body is a sequence of cells. In a stream a cell is a CR, an LF, a byte-order mark
  or the text of one line: the splitter looks at nothing else, and what a line's
  JSON says is a record of the members the code reads. In an OHTTP answer a cell
  stands for a byte of two bits, so that integers of one and two cells, lengths
  beyond the limits and reserved values all occur within thirteen cells.
- A JSON document is a function from paths to kinds of values. A step of a path is
  the name of a member or an element of an array (`Elements`, two of them in the
  run). The labels under which fields are sealed carry no index
  (`e2ee.rs:275, 289, 311`), so elements share them, in the model as in the code. What
  opens as `logprobs[].bytes` is text that is JSON of some kind or none.
- Whether a line is UTF-8 is part of its cell. JSON and YAML parsing, HPKE, the field
  ciphers, Sigstore's and JWT's signatures are flags: a value parses or not, a
  signature was made by a key over a text, a ciphertext names its key and associated
  data.
- A receipt and a signature are about the body of the request alone, as in the code;
  its headers are part of what is sent and of nothing that is signed.
- A field of an OHTTP answer is read cell by cell. One value of a cell stands for every
  byte that may stand in no name and no content. `MaxNames` stands for the capacity
  of `HeaderMap`, beyond which a section has "too many BHTTP fields"
  (`ohttp.rs:484-489`), `MaxLength` for `usize::MAX` in a content length.
- Servers are free, but inputs and answers differ from the usual ones in one place
  at a time (calls and signatures) or in at most `MaxFaults` places together
  (deployments), so that the number of cases stays small while every check meets a
  case that only it refuses.
- Evidence is symbolic. A hash is the tuple it is computed from, RTMR3 the sequence
  of digests it was extended with, a signing address a pair of algorithm and machine.
  A quote is genuine or it is not, and the party asked for it (Intel, NVIDIA, the
  caller's verifier) says so or cannot be reached. Hexadecimal, JSON and lengths
  are one label each (`oddForeign`, `unparsed`, `malformedAddress`).
- The preflight models show every await of `create_session` and of the functions it
  calls. Requests for quote collateral count as one call.
- Time is a counter. An entry is fresh while the clock is below (Go, JavaScript,
  Python) or its age is below (Rust) the code's bound, with the code's own
  comparison. In the JavaScript and Python models time does not advance while a
  callback is due, as an event loop runs callbacks before it sleeps.
- `aclose` in Python is called once and is not itself cancelled. The drains and
  lookups it awaits are in `PyReceipts`, the checks and HTTP clients in `PySessions`.
  A drain that it cancels before the drain's first step never enters `_drain`
  (`inference_client.py:999-1011`), so its body is never settled and stays pending;
  `WaitersAnswered` speaks of calls whose body was settled.
- Stream, ID, caller, check, lookup and pool are members of small sets. A stream
  that has been retained doubles as its record.
- A lookup that fails retryably needs a fresh lookup object to retry; the bound on
  lookups ends the retries, so `retryable` is only chosen while one is left where
  the model would otherwise stop.

## Runs

| Run | Question | Distinct states |
|---|---|---|
| `rust_receipts` | does the Rust response cache implement `Receipts` and keep bytes exactly as long as needed? is every waiter answered when the task that drives a lookup is dropped? | 503,090 |
| `go_receipts` | does the Go response cache implement `Receipts`? does nothing start after `Close`, is every caller answered, does `Close` return? | 243,018 |
| `js_receipts` | does the JavaScript response cache implement `Receipts`, leave no timer behind, and forget every settled completion, also with a TTL longer than a timer? | 242,498 |
| `py_receipts` | the same safety for Python, with drains, late done callbacks and `aclose` at any point | 816,998 |
| `py_receipts_live` | expiry, waiters, and that `aclose` returns | 33,204 |
| `rust_sessions` | does the Rust session cache implement `Sessions`? single flight, late waiters, does every waiter return? | 299,443 |
| `rust_sessions_zero` | does a zero TTL disable reuse, as the guide says? (**no**) | violation |
| `go_sessions` | does the Go session cache implement `Sessions`? the pool bound, and the pool map once `Close` has read it | 722,651 |
| `client_sessions` | do the JavaScript and Python session caches implement `Sessions`? is a check pending exactly until its callback or handler has run, so that no call joins one whose outcome was handed out before, does `aclose` leave nothing open, do `Close` and `aclose` return, and every caller who is owed an answer (in Go too, whose refinement is `go_sessions`)? | 283,804 |
| `preflight` | do all four preflights keep the promise of `Preflight`, and does none leave its caller waiting for nothing? can GitHub, a proxy of it or NVIDIA's services make the Rust client approve an image nobody attested, ask elsewhere or without end, or accept a stale GPU verdict? | 254,638 |
| `rust_calls` | can a server make the Rust client split a stream differently, file or accept a receipt that is not whole, leak a sealed field, or take a cut answer for a whole one? | 390,850 |
| `go_sessions_idle` | does `Close` close every owned idle connection, as the reference says? (**no**) | violation |

### Bounds and why they are enough

Two streams that may be given the same ID are needed for duplicates and for a
stale callback meeting its successor; two callers for sharing and for one leaving
while the other waits; two lookups for a retry; one or two ticks beyond the TTL
for an entry that expires and is replaced. One call of clear (`MaxGeneration` 1)
separates "before" from "after". In the session models two models and three or
four checks allow a check to be superseded by a newer one while an old waiter is
still to settle. The pool limit is 1 with two keys, so that a third request for a
pool evicts one in use. JavaScript's `TTL` is twice `MaxDelay`, so that a timer
must be re-armed. In `py_receipts` one caller suffices: tasks outlive their
callers, and `GiveUp` then frees the caller to start or join again; the live run
has two callers and one stream.

`preflight` checks the preflights and, beside them, the deployment checks of the Rust client.
The first start from 2,772 states: seven sets of options (Gateway and direct
endpoint, TLS binding, OHTTP, E2EE, both algorithms, policies and verifiers on and
off), and for each an honest service and every single deviation of it in its
Gateway report, its OHTTP key, its catalog, one model report or the later
connection. Pairs of reports are taken under the two richest sets of options, with
the deviation in either place, because there two verifications run beside each
other; a third report would only repeat the second. A deviation is one at a time
since what a check refuses does not become acceptable through another fault;
the pairs `noKey, sibling` and the like are listed because the choice of a key
depends on two reports at once. The deployment checks run with two pages of two
attestations, totals one beyond what two pages may hold, three ticks of time around
a token's validity, and any three things out of place.

`client_sessions` has one model and two checks for Go, whose larger safety run is
`go_sessions`, and two models and three checks for the others: a running check of
each model and a cached session that has expired.

`rust_calls` checks two parts that share no state, so a behaviour moves one of
them. *Calls*: streams of up to six cells cut into pieces of one or two
(`MaxCells`, `Part`), which is every placement of CR, LF and BOM around two
records; streams of up to four whole records (`MaxEvents`), enough for a Messages
start, an event between, a stop and one too many; every one-place deviation of a
sealed request and of a sealed response, in arrays of one and of two elements (clear,
another kind, another key, other associated data, no JSON inside); every choice of who supplies each
credential header; every signer, kind and text of a signature, with its transport
errors. *Reader*: every answer of at most 13 cells (`MaxAnswer`), with content up
to `Limit` 3 and fields up to `FieldsLimit` 4, of known and of indeterminate
length, with one informational response, ended or broken after any cell. `MaxNames`
is 2, so that a third name is one too many; `MaxLength` is 9, so that a
content length may be no number, too large a number, another number than the length,
or contradict a second one. Every
element of an answer takes every size it may have, one and two cells for an integer,
up to two fields in a section, content in one to three pieces; only answers with
several of them at their longest do not fit.

Symmetry is used only without liveness and only over sets whose members the
specification treats alike: all sets in `go_sessions`, the streams in
`py_receipts`. Where a fresh lookup or check is picked by `CHOOSE`, that set is
not symmetric and the run declares none.

Deadlock is checked except where the modelled program may really stop: a closed Go
client, which refuses every call, and a JavaScript program whose calls are over.

### Fairness

Weak fairness is assumed of what a scheduler owes: a task that is not dropped is
polled (Rust), a goroutine runs (Go), due callbacks and timers run (JavaScript,
Python). A check or lookup of the Go client ends because its context lasts two
minutes and is cancelled by Close. The JavaScript and Python clients set no timeout
of their own (Python's `httpx` clients have `timeout=None`), so `client_sessions`
assumes only that a Python check ends once `aclose` has cancelled it, and promises an
answer only to the callers of a check that has ended. `js_receipts`,
`py_receipts_live` and the Rust runs do assume that the service answers or fails every
request: what they show is that a service which answers leaves nobody waiting.
Nothing obliges a consumer to read a body, a caller to call, or a client to be
closed. Time advances fairly only in the models whose properties are about
expiry.

### What the runs found

- `rust_sessions_zero`: with `attestation_cache_ttl` zero a request may be served
  by a check completed before the request began. `pending` still upgrades the
  finished check until its first waiter reacquires the state lock
  (`inference.rs:271-273, 293-309`); the guide says completed checks are not
  reused, and the README says every request is verified.
- `go_sessions_idle`: a transport pool evicted from the map while sessions use it
  (`client.go:331-339`) regains an idle connection later, and `Close` visits only
  the pools still in the map. The connection is left to its 90-second idle
  timeout.
- Read but not turned into a run: `py/docs/verification-guide.md:62-64` describes
  gateway verification as running alongside model evidence retrieval; the code
  awaits the one before the other.

## Proofs

TLAPS proves the following for every choice of the constants that satisfies the
module's assumption: any number of models, callers, completions, lookups and keys,
any documents, answers, evidence and options, any TTL and limit.

| Module | Theorems |
|---|---|
| `RustAnswers_proofs`, retained responses | `TypeCorrect`; `NoMissingBytes`, that the `expect` in `verify_response` cannot fail; `SharedLookup`; `SingleVerdict`; `ReleaseDiscipline`, bytes released exactly for decided completions; `ClearIsFinal`; `KeepsUnexpired`; `RefinesReceipts`, that the cache implements `Receipts` |
| `GoReceipts_proofs` | `TypeCorrect`; `ClosedStartsNothing`, that no lookup starts once `Close` has begun, which is what its `WaitGroup` needs; `RefinesReceipts` |
| `JsReceipts_proofs` | `TimersAreOwned`, that every pending timer belongs to a record in the cache; `RefinesReceipts` |
| `PyReceipts_proofs` | `BytesAndTimers`, that the bytes of a decided completion stay only until the done callback of its task, and that timers are owned; `RefinesReceipts` |
| `Sessions_proofs`, the Rust cache | `TypeCorrect`; `OneCheckPerModel`; `CacheIsVerified`; `NeverReplaced`; `RefinesSessions`, that the cache implements `Sessions` |
| `GoSessions_proofs` | `BoundedPools`; `ClosedFreezesPools`, so that `Close` may iterate the map without the lock; `RefinesSessions` |
| `ClientSessions_proofs` | for JavaScript and Python: `PendingTillHandled`, that a check is pending exactly until its own callback or handler has run and that `aclose` leaves nothing open; `RefinesSessions` |
| `Verification_proofs`, calls | `SignedAsDelivered`, `BoundSeals`, `OwnHeaders`: what verifies was signed as it was sent and read; what is sealed is bound to its field (not to the element of an array: contents of two messages share their associated data), to the reply key and to the model's key, and what stays clear in a protected field is null or a content that is neither text nor a list of parts; a request carries the client's credentials |
| `Verification_proofs`, streams | `WholeRecords`, that a consumer of a clear stream is given the records of the bytes so far, whole and in order, however both are cut; `OneIdPerReceipt`; `WholeMessage`, that a receipt of a Messages stream is for one whole message |
| `Verification_proofs`, sealed bodies | `OnlySealedIsShown`, that no text of a protected field reaches the consumer but what arrived at that very place as a ciphertext to this request's key, for any document the service answers with; a response has no associated data, so this says nothing of the field or the model it was sealed for |
| `Verification_proofs`, deployments | `ConfinedFetch`, `ApprovedImages`, `FreshVerdict`: what the run `preflight` checks of GitHub's pages, of approved images and of NVIDIA's tokens, with any pages, files, policies and limits |
| `RustAnswers_proofs`, encapsulated answers | `WholeAnswersOnly`, that the content ends without an error only as that of a whole message of which every cell authenticated, with any framing, limits, statuses, fields and cuts |
| `Sessions_proofs`, preflights | `NobodyIsStranded` for all four clients; `VerifiedBeforeGranted` and `GuardedKey` for Rust, JavaScript and Python |

The seven `Refines...` theorems, about eight caches, are the strongest of the first
seven modules: what `Receipts` and `Sessions` say contains the single
facts beside them. Those stay because they are the reason the refinements hold and
name the code's own concerns: an `expect`, a fence, a `ptr_eq`, a wait group.

### Assumptions

The caches assume that an empty slot is no member of the sets (and in JavaScript and
Python no number), that TTLs and bounds are natural numbers, that the limit on
pools and the longest timer are positive, and that TLS keys are finitely many. The
bounds on time and generations are part of the specification, but arbitrary.
`RustDeployment` assumes at least one page, sequences where the code has lists, and
that the keys NVIDIA's endpoint serves over TLS are NVIDIA's. `RustSend` assumes what
a caller and a preflight can hand it: default headers are the client's own, the
low-level helper that seals has a key, an unsealed request holds nothing sealed and a
sealed one has a reply key. The theorems on streams and sealed bodies are about chunks
over any set of cells whatever; `OnlySealedIsShown` adds that the JSON of a cell is a document,
every path of which leads through containers, as TLC confirms of every document of
`SendCases` (`DocumentsAssumption`). Of the elements of an array `RustE2ee` assumes only that
`"[]"` is one, the name labels use for any. Stating that hypothesis showed that some deviations of
a response were no documents: an array where an object belongs lacked its element. They
are now.
`RustOhttp` assumes that its limits are natural numbers, that a chunk is not empty and a
section may hold one name, that field texts are made of cells, and that no status is both informational and final. How
large an answer may grow (`MaxAnswer`) and how many informational responses are
accepted are arbitrary.
`Preflights` assumes that the reports of a model are counted from one.
What a party says about evidence is not an assumption but part of the case.

### The arguments

*Response caches.* No safety property is inductive alone: that the bytes are there when
a caller starts a lookup depends on every other caller that may settle the record
between its two critical sections. All four invariants state that a lookup which runs
or has decided is the one installed in its record (`Installed`), that a record without
an installed lookup has its bytes (`RecordOK`), and that no call has read a generation
still to come (`SentBefore`, in Python `GenerationOK`), so that a fenced one stays
fenced. Then each adds what its runtime needs. In Rust each caller inside `verify_response`
holds a retained record and a lookup that was used (`CallerOK`); cancellation preserves
it because it only removes a caller, and settling because it changes the slot only if
the caller's lookup is still the installed one, the code's `ptr_eq`. In Go a closed client
retains nothing (`Emptied`), which is why `VerifyResponse` starts nothing although it never
looks at `closed`. In JavaScript a cached record is filed under its own ID, hence
the timer that is cleared is the right one. In Python only an ended task has a
callback (`CallbacksOK`), so that a callback that comes after a retry releases nothing
the retry needs.

*Session caches.* A running check is the pending one of its model and, while it lives,
nothing fresh is cached for that model, so its result replaces only what has expired
(`LiveIsPending`, `NothingFresh`). In Rust this holds only of checks somebody holds,
because a weak reference no longer upgrades otherwise (`RunningIsPending`). An entry that
has outlived its TTL maps to a lapsed one, and a running check that nobody holds any
more to an idle one. For Python's `aclose` the invariant follows its stages: once tasks
are cancelled what lives is awaited (`LiveIsAwaited`), nothing lives when the HTTP
clients are closed (`EndedIsQuiet`), and an open client is a known one
(`UnclosedIsKnown`).

*Calls.* `CallInv` follows a call from its admission: the request on the wire is the one
the admitted call asks for, a receipt holds that request and all that has arrived, and a
result was reached from that receipt and from a signature over both. What is sealed is
a fact about one operator, `Sealing`, for any document: a path belongs to the field its
`Shape` names, whichever elements it passes through, and has one label, which no other
field has (`SealedFor`).

*Streams.* What arrived has its records by definition: they are the pieces between two
cuts, the ends of blank lines. The loop of `scan_records` keeps the last line end and the
last cut before its offset, so what it has told so far are the pieces up to there
(`Scanned`); between two chunks the decoder is `Ready` to go on from them, which holds
also when a chunk ends between CR and LF. `DeliveredOK` says of the generator, record by
record, that what it yielded, the one ID and the lifecycle are those of the records
read, and `StreamInv` that the decoder and the generator have read the same bytes as the
receipt will hold. Loops are recursive functions over the natural numbers; an
invariant is carried through them by a least counterexample (`Induction`).

*Sealed bodies.* A protected value may sit below anything: in a list of lists, in an object
that should be a text, in any element. Every proper prefix of the path of a protected field is a place
that `decrypt_response` requires to be a container of a kind it has looked into
(`FieldsContained`), whichever elements the path passes through (`ArrayWanted`,
`ObjectWanted`), so a document it passes has no protected field that it did not open
(`NothingAstray`), and what it opened was sealed there to the reply key
(`DecryptClear`). The record rewritten around the opened body has no other data than it
(`TransformClear`). `ClearInv` then says that everything yielded so far was sealed in the bytes
so far, which more bytes cannot undo (`ClearStays`).

*Encapsulated answers.* Whole messages are defined from the sender's side, as heads,
sections, pieces and padding put one behind another (`WholeMessages`); the reader has
only a place, a count and the last list of fields. `ReaderInv` says at each place which beginning
of a whole message has been read: a series of informational answers with an open
status (`PreambleOf`), of fields behind it (`Reaches`), of pieces of content (`InContent`,
`InPiece`), or zeros behind the trailers (`InPadding`). A turn that reads one more element makes the
series longer (`SeriesGrows`), within its limit because the reader checks the same one;
a turn that closes a part makes it a whole part of that message. A section of known length is read at
once; that the fields which the loop of `slice_vector` finds in it are ones it is an
encoding of is an invariant of its recursive function (`KnownSection`). An end is taken
only where the rest of a whole message may be missing; `ended` then stands for
the parts that are absent.

*Deployments.* `FetchOK` ties `visited` to the requests: they are the same addresses
and as many, so no page is asked for twice and the limit on pages is one on requests; every
address is about the image in hand. `ImagesOK` says that until approval each image
that had to be checked is in the queue or was verified, and `ServedOK` that the bundles in
hand were served for the current digest. That the image selected is that of the latest
logged action needs the well-foundedness of the order on positions.

*Preflights.* The models of `create_session` are sequences of steps that a client runs
until it must wait. `PreflightInv` says that a running preflight awaits a call or a
failed task. `PreflightOrder` says where: every pending call stands at one place of
one verification with all steps before it passed (`At`), and each verification not
stopped by a failure has been passed or has one pending call (`Spread`, or `Solo`
where no two run at once). That a join is left only when all have passed then follows
from the calls of two verifications being distinct (`Apart`), a fact about the step
operators of each language. `HaltAfter`, the next place a client waits or fails at, is a
least element and is treated by well-founded minimum.

`VerifiedBeforeGranted` and `GuardedKey` state `GrantedIsVerified` and `KeyIsGuarded`, which
hold in every state of `preflight`'s instance but are not among its properties: in that
run `ImplementsPreflight` says more.

### Model-checked only

- All liveness: `WaitersAnswered`, `WaitersReturn`, `CallsReturn`, `CloseReturns`,
  `EventuallyExpires`. The proof system treats neither fairness nor `ENABLED`.
- `ImplementsPreflight`. It compares the checks of each client with every label of
  `Evidence`; with the invariant above, what is left of a proof is one case per label,
  client and check. The order of the steps is proved, that together they refuse
  every label is checked.
- `GrantedIsVerified` and `KeyIsGuarded` for Go, whose steps for all reports are one
  concatenation built by recursion over the reports: induction over data.
- `HonestIsAccepted`, the only invariant of a passing run without a theorem. It says that
  what the reader rejects begins no whole message, so its proof needs every way in
  which a beginning can be continued: that two whole messages with a common
  beginning agree on what stands there, which `CleanEndIsWhole` does not need.
- The two violations.

## Not modelled, and the plan

What the four languages do alike but in separate programs is modelled once, in
Rust. Not modelled of the others: their record splitters and stream lifecycles,
among them Go's completion sentinel, which must not overtake the last frame of an
encrypted stream (`go/stream.go:138`); their OHTTP readers, with the counters of
`go/ohttp.go:372` and the truncated ends of `go/ohttp.go:554`; their field
encryption, signature judgement, image provenance (`go/provenance.go:83`) and GPU
tokens. Each would be one more language behind the same properties, as the
preflights are behind `Preflight`.

Not covered by a property, because the code promises nothing about it: the TTL of
a cached Rust check starts when a waiter stores it and not when it was verified
(`inference.rs:306`); a JavaScript record whose body never settles has no deadline
(`inference-client.ts:482`); Python keeps one HTTP client for every fingerprint it
ever met (`inference_client.py:737`), as Go did before its bound; a Go `Close`
called from a verifier's callback waits for itself, and one that meets a verifier
which swallows its cancellation for ever waits as long; and since labels carry no index,
a party on the way may exchange the same field of two messages, tool calls or tools
(`e2ee.rs:275, 289, 311`), and a `content` that is neither text nor a list of parts
travels in the clear (`e2ee.rs:287-292`): `SealsAreBound` states both limits.

Later work, in order of importance:

1. The refinement of `Preflight` proved for `RustPreflight`, from the order of steps
   that `PreflightOrder` gives and one lemma per label of `Evidence`.
2. `GrantedIsVerified` for Go, with the steps of its reports stated by position
   instead of by recursion.
3. The other languages' readers, as above.
4. A composed client: a call of `RustSend` over `RustSessions` and into
   `RustReceipts`, with a clear between any two of its steps.

Out of reach or without state worth checking: cryptography and binary parsing
(quotes, certificates, HPKE, Sigstore bundles, JWTs), the text of JSON, YAML and
HTTP, the HTTPX2 adapter, types and errors. Their outcomes are the flags and
choices above.
