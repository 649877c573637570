-------------------------- MODULE PyReceipts_proofs --------------------------
(***************************************************************************)
(* Proofs about PyReceipts for any set of inference calls, IDs, callers    *)
(* and tasks and any TTL.                                                  *)
(*                                                                         *)
(* The done callback of a task runs after the task has ended, when a retry *)
(* may already be installed.  Installed and CallbacksOK say why it still   *)
(* releases the right bytes: the task installed in a record is the one     *)
(* that runs, has decided or was cancelled, and only an ended task has a   *)
(* callback.                                                               *)
(***************************************************************************)
EXTENDS PyReceipts, TLAPS

Installable == Terminal \cup {"running", "cancelled"}

RecordOK ==
    \A s \in Streams :
        /\ stream[s] # "retained" =>
               /\ ~started[s]
               /\ \A l \in Lookups : outcome[s][l] = "unused"
        /\ stream[s] = "retained" => idOf[s] \in Ids
        /\ stream[s] = "retained" /\ verification[s] = None => captured[s]
        /\ \A l \in Lookups : outcome[s][l] = "running" => captured[s]

ExpiryOK ==
    \A s \in Streams :
        /\ ~started[s] => expiresAt[s] = None
        /\ timer[s] \in {None, expiresAt[s]}

Installed ==
    \A s \in Streams, l \in Lookups :
        outcome[s][l] \in Installable <=> verification[s] = l

CallbacksOK ==
    \A s \in Streams, l \in Lookups :
        /\ <<s, l>> \in callbacks => outcome[s][l] \notin {"unused", "running"}
        /\ <<s, l>> \in doomed => outcome[s][l] = "running"

RetainedOK ==
    \A id \in Ids :
        responses[id] # None => /\ stream[responses[id]] = "retained"
                                /\ idOf[responses[id]] = id

GenerationOK ==
    /\ close # "closed" => generation <= MaxGeneration
    /\ \A s \in Streams : sentGeneration[s] <= generation

IInv ==
    /\ TypeOK
    /\ DecidedReleases
    /\ NoStrayTimers
    /\ RecordOK
    /\ ExpiryOK
    /\ Installed
    /\ CallbacksOK
    /\ RetainedOK
    /\ GenerationOK

LEMMA InitInv == Init => IInv
<1> SUFFICES ASSUME Init PROVE IInv
  OBVIOUS
<1> USE PyReceiptsAssumption DEF Init
<1>1. TypeOK
  BY DEF TypeOK
<1>2. DecidedReleases /\ NoStrayTimers /\ RecordOK /\ ExpiryOK
  BY DEF DecidedReleases, Terminal, NoStrayTimers, RecordOK, ExpiryOK
<1>3. Installed /\ CallbacksOK
  BY DEF Installed, Installable, Terminal, CallbacksOK
<1>4. RetainedOK /\ GenerationOK
  BY DEF RetainedOK, GenerationOK
<1> QED  BY <1>1, <1>2, <1>3, <1>4 DEF IInv

-----------------------------------------------------------------------------
(***************************************************************************)
(* _get_response_record drops the record it finds expired, and its timer.  *)
(***************************************************************************)
LEMMA PurgedOK ==
    ASSUME IInv, NEW id \in Ids
    PROVE  /\ Purged(id) \in [Ids -> Streams \cup {None}]
           /\ \A i \in Ids : Purged(id)[i] \in {None, responses[i]}
           /\ TimerPurged(id) \in [Streams -> 0..(MaxClock + TTL) \cup {None}]
           /\ \A s \in Streams : TimerPurged(id)[s] \in {None, timer[s]}
           /\ \A s \in Streams :
                 TimerPurged(id)[s] # None => Purged(id)[idOf[s]] = s
<1> USE DEF IInv, Purged, TimerPurged, Stale
<1>1. \A i \in Ids : responses[i] # None => responses[i] \in Streams
  BY DEF TypeOK
<1>2. /\ Purged(id) \in [Ids -> Streams \cup {None}]
      /\ \A i \in Ids : Purged(id)[i] \in {None, responses[i]}
  BY DEF TypeOK
<1>3. /\ TimerPurged(id) \in [Streams -> 0..(MaxClock + TTL) \cup {None}]
      /\ \A s \in Streams : TimerPurged(id)[s] \in {None, timer[s]}
  BY <1>1 DEF TypeOK
<1>4. ASSUME NEW s \in Streams, TimerPurged(id)[s] # None
      PROVE  Purged(id)[idOf[s]] = s
  <2>1. timer[s] # None /\ responses[idOf[s]] = s
    BY <1>3, <1>4 DEF NoStrayTimers, Owns
  <2>2. idOf[s] \in Ids
    BY <2>1 DEF RecordOK, ExpiryOK
  <2>3. CASE Stale(id)
    <3>1. responses[id] # s
      BY <1>1, <1>4, <2>3 DEF TypeOK
    <3> QED  BY <2>1, <2>2, <2>3, <3>1 DEF TypeOK
  <2> QED  BY <2>1, <2>3
<1> QED  BY <1>2, <1>3, <1>4

-----------------------------------------------------------------------------
(***************************************************************************)
(* A call that is not retained, and the body of any call, change nothing   *)
(* but stream, body and the drains to cancel.                              *)
(***************************************************************************)
LEMMA UnretainedInv ==
    ASSUME IInv, NEW s \in Streams,
           NEW x \in {"open", "unretained", "refused"},
           stream[s] # "retained",
           stream' = [stream EXCEPT ![s] = x],
           body' \in [Streams -> {"flowing", "draining"} \cup Unread \cup Settled],
           doomedDrains' \subseteq Streams,
           \/ sentGeneration' = sentGeneration
           \/ sentGeneration' = [sentGeneration EXCEPT ![s] = generation],
           UNCHANGED <<clock, close, doomed, generation, responses, idOf,
                       expiryVars, verifyVars, callerVars>>
    PROVE  IInv'
<1> USE DEF IInv, expiryVars, verifyVars, callerVars
<1>1. sentGeneration' \in [Streams -> 0..(MaxGeneration + 1)]
  BY DEF TypeOK
<1>2. stream' \in [Streams -> {"idle", "open", "retained", "unretained",
                              "refused"}]
  BY DEF TypeOK
<1>3. TypeOK'
  BY <1>1, <1>2 DEF TypeOK
<1>4. NoStrayTimers' /\ ExpiryOK' /\ Installed' /\ CallbacksOK'
  BY DEF NoStrayTimers, Owns, ExpiryOK, Installed, CallbacksOK
<1>5. DecidedReleases'
  BY DEF DecidedReleases
<1>6. RecordOK'
  BY DEF RecordOK, TypeOK
<1>7. RetainedOK'
  BY DEF RetainedOK, TypeOK
<1>8. GenerationOK'
  <2>1. generation \in Nat
    BY PyReceiptsAssumption DEF TypeOK
  <2>2. \A t \in Streams : sentGeneration'[t] \in {sentGeneration[t], generation}
    BY DEF TypeOK
  <2> QED  BY <2>1, <2>2 DEF GenerationOK
<1> QED  BY <1>3, <1>4, <1>5, <1>6, <1>7, <1>8

LEMMA BodyInv ==
    ASSUME IInv, NEW s \in Streams,
           StartDrain(s) \/ EnterDrain(s) \/ BodyCompletes(s) \/ BodyFails(s)
               \/ DrainEnds(s)
    PROVE  IInv'
<1> USE DEF StartDrain, EnterDrain, BodyCompletes, BodyFails, DrainEnds,
            DrainCancelled, DrainSkipped, Fails, closeVars
<1>1. body' \in [Streams -> {"flowing", "draining"} \cup Unread \cup Settled]
  BY DEF IInv, TypeOK, Settled, Unread
<1>2. doomedDrains' \subseteq Streams
  BY DEF IInv, TypeOK
<1>3. UNCHANGED <<clock, close, doomed, generation, responses, sentGeneration,
                  idOf, expiryVars, verifyVars, callerVars>>
  OBVIOUS
<1>4. CASE stream' = stream
  BY <1>1, <1>2, <1>3, <1>4
     DEF expiryVars, verifyVars, callerVars, IInv, TypeOK, DecidedReleases,
         NoStrayTimers, Owns, RecordOK, ExpiryOK, Installed, CallbacksOK,
         RetainedOK, GenerationOK
<1>5. CASE stream' # stream
  <2>1. stream[s] = "open" /\ stream' = [stream EXCEPT ![s] = "unretained"]
    BY <1>5 DEF IInv, TypeOK
  <2> QED  BY <1>1, <1>2, <1>3, <2>1, UnretainedInv
<1> QED  BY <1>4, <1>5

LEMMA RegisterNewInv ==
    ASSUME IInv, NEW s \in Streams, NEW id \in Ids, RegisterNew(s, id)
    PROVE  IInv'
<1> USE DEF IInv, RegisterNew, callerVars, closeVars
<1>1. TypeOK'
  BY PurgedOK DEF TypeOK
<1>2. responses' = [Purged(id) EXCEPT ![id] = s] /\ timer[s] = None
  BY DEF Purged, RecordOK, ExpiryOK, TypeOK
<1>3. ASSUME NEW t \in Streams, timer'[t] # None
      PROVE  responses'[idOf'[t]] = t
  <2>1. t # s /\ idOf'[t] = idOf[t] /\ Purged(id)[idOf[t]] = t
    BY <1>2, <1>3, PurgedOK DEF TypeOK
  <2>2. timer[t] # None /\ idOf[t] \in Ids
    BY <1>2, <1>3, <2>1, PurgedOK DEF RecordOK, ExpiryOK
  <2>3. idOf[t] # id
    <3>1. Purged(id)[id] = None
      BY PyReceiptsAssumption DEF Purged, Present, Stale, TypeOK
    <3> QED  BY <2>1, <3>1, PyReceiptsAssumption
  <2> QED  BY <1>2, <2>1, <2>2, <2>3, PurgedOK
<1>4. NoStrayTimers'
  BY <1>3 DEF NoStrayTimers, Owns
<1>5. RecordOK' /\ DecidedReleases'
  BY DEF RecordOK, DecidedReleases, Terminal, TypeOK
<1>6. ExpiryOK'
  BY PurgedOK DEF ExpiryOK
<1>7. Installed' /\ CallbacksOK' /\ GenerationOK'
  BY DEF Installed, CallbacksOK, GenerationOK
<1>8. RetainedOK'
  BY DEF RetainedOK, TypeOK
<1> QED  BY <1>1, <1>4, <1>5, <1>6, <1>7, <1>8

-----------------------------------------------------------------------------
(***************************************************************************)
(* The callbacks of a record: its TTL starts, its timer fires.             *)
(***************************************************************************)
LEMMA ExpireInv ==
    ASSUME IInv, NEW s \in Streams, Expire(s)
    PROVE  IInv'
<1> USE DEF IInv, Expire, Due, Arms, streamVars, verifyVars, callerVars,
            closeVars
<1>1. Expiry \in 0..(MaxClock + TTL)
  BY PyReceiptsAssumption DEF TypeOK, Expiry
<1>2. /\ expiresAt' \in [Streams -> 0..(MaxClock + TTL) \cup {None}]
      /\ timer' \in [Streams -> 0..(MaxClock + TTL) \cup {None}]
  BY <1>1 DEF TypeOK
<1>3. TypeOK'
  BY <1>2 DEF TypeOK
<1>4. NoStrayTimers'
  BY DEF NoStrayTimers, Owns, TypeOK
<1>5. ExpiryOK'
  BY DEF ExpiryOK, TypeOK
<1>6. DecidedReleases' /\ Installed' /\ CallbacksOK'
  BY DEF DecidedReleases, Installed, CallbacksOK
<1>7. RecordOK' /\ RetainedOK' /\ GenerationOK'
  BY DEF RecordOK, RetainedOK, GenerationOK, TypeOK
<1> QED  BY <1>3, <1>4, <1>5, <1>6, <1>7

LEMMA ReleaseInv ==
    ASSUME IInv, NEW s \in Streams, Release(s)
    PROVE  IInv'
<1> USE DEF IInv, Release, streamVars, verifyVars, callerVars, closeVars
<1>1. idOf[s] \in Ids /\ responses[idOf[s]] = s /\ Owns(s)
  BY DEF NoStrayTimers, Owns, RecordOK, ExpiryOK
<1>2. /\ responses' \in [Ids -> Streams \cup {None}]
      /\ \A id \in Ids : responses'[id] \in {None, responses[id]}
  BY <1>1 DEF TypeOK
<1>3. TypeOK'
  BY <1>2 DEF TypeOK
<1>4. NoStrayTimers'
  <2> SUFFICES ASSUME NEW t \in Streams, timer'[t] # None
               PROVE  responses'[idOf[t]] = t
    BY DEF NoStrayTimers, Owns
  <2>1. t # s /\ timer[t] # None
    BY DEF TypeOK
  <2>2. responses[idOf[t]] = t /\ idOf[t] \in Ids
    BY <2>1 DEF NoStrayTimers, Owns, RecordOK, ExpiryOK
  <2> QED  BY <1>1, <2>1, <2>2 DEF TypeOK
<1>5. ExpiryOK'
  BY DEF ExpiryOK, TypeOK
<1>6. RetainedOK'
  BY <1>2 DEF RetainedOK
<1>7. DecidedReleases' /\ RecordOK' /\ Installed' /\ CallbacksOK'
  BY DEF DecidedReleases, RecordOK, Installed, CallbacksOK
<1>8. GenerationOK'
  BY DEF GenerationOK
<1> QED  BY <1>3, <1>4, <1>5, <1>6, <1>7, <1>8

LEMMA StreamInv ==
    ASSUME IInv, NEW s \in Streams, StreamStep(s)
    PROVE  IInv'
<1> USE DEF closeVars
<1>1. /\ body \in [Streams -> {"flowing", "draining"} \cup Unread \cup Settled]
      /\ doomedDrains \subseteq Streams
  BY DEF IInv, TypeOK
<1>2. CASE Send(s) \/ Abandon(s) \/ RegisterNothing(s)
  BY <1>1, <1>2, UnretainedInv DEF Send, Abandon, RegisterNothing
<1>3. ASSUME NEW id \in Ids, RegisterRefused(s, id) PROVE IInv'
  <2>1. /\ body' \in [Streams -> {"flowing", "draining"} \cup Unread \cup Settled]
        /\ doomedDrains' \subseteq Streams
    BY <1>1, <1>3 DEF RegisterRefused, Settled
  <2> QED  BY <1>3, <2>1, UnretainedInv DEF RegisterRefused
<1> QED
  BY <1>2, <1>3, BodyInv, RegisterNewInv, ExpireInv, ReleaseInv
     DEF StreamStep, Register

-----------------------------------------------------------------------------
(***************************************************************************)
(* Verification: a task starts, ends, and its done callback runs.          *)
(***************************************************************************)
LEMMA StartInv ==
    ASSUME IInv, NEW c \in Callers, NEW id \in Ids, Start(c, id)
    PROVE  IInv'
<1> DEFINE s == responses[id]
<1> USE DEF IInv, Start, Present, NeedsLookup, streamVars, expiryVars,
            closeVars
<1>1. s \in Streams /\ stream[s] = "retained" /\ captured[s]
  BY DEF TypeOK, RetainedOK, RecordOK
<1>2. PICK l \in Unused(s) :
         /\ verification' = [verification EXCEPT ![s] = l]
         /\ outcome' = [outcome EXCEPT ![s][l] = "running"]
         /\ fut' = [fut EXCEPT ![c] = l]
  OBVIOUS
<1>3. l \in Lookups /\ outcome[s][l] = "unused"
  BY <1>2 DEF Unused
<1>4. TypeOK'
  BY <1>1, <1>2, <1>3 DEF TypeOK
<1>5. NoStrayTimers' /\ ExpiryOK' /\ RetainedOK' /\ GenerationOK'
  BY DEF NoStrayTimers, Owns, ExpiryOK, RetainedOK, GenerationOK
<1>6. RecordOK' /\ DecidedReleases'
  BY <1>1, <1>2, <1>3, PyReceiptsAssumption
     DEF RecordOK, DecidedReleases, Terminal, TypeOK
<1>7. Installed'
  <2>1. \A k \in Lookups : outcome[s][k] \notin Installable
    BY <1>1, PyReceiptsAssumption DEF Installed
  <2> QED  BY <1>1, <1>2, <1>3, <2>1 DEF Installed, Installable, TypeOK
<1>8. CallbacksOK'
  <2>1. <<s, l>> \notin callbacks /\ <<s, l>> \notin doomed
    BY <1>1, <1>3 DEF CallbacksOK
  <2>2. \A t \in Streams, k \in Lookups :
            <<t, k>> # <<s, l>> => outcome'[t][k] = outcome[t][k]
    BY <1>2 DEF TypeOK
  <2>3. callbacks' = callbacks /\ doomed' = doomed
    OBVIOUS
  <2> HIDE DEF Start, s
  <2> QED  BY <2>1, <2>2, <2>3 DEF CallbacksOK
<1> QED  BY <1>4, <1>5, <1>6, <1>7, <1>8

LEMMA CallerInv ==
    ASSUME IInv, NEW c \in Callers, CallerStep(c)
    PROVE  IInv'
<1> USE DEF streamVars, expiryVars, verifyVars, callerVars, closeVars
<1>1. ASSUME NEW id \in Ids, NotFound(c, id) PROVE IInv'
  <2> USE <1>1 DEF IInv, NotFound
  <2>1. TypeOK'
    BY PurgedOK DEF TypeOK
  <2>2. NoStrayTimers'
    BY PurgedOK DEF NoStrayTimers, Owns
  <2>3. ExpiryOK' /\ RetainedOK'
    BY PurgedOK DEF ExpiryOK, RetainedOK
  <2>4. DecidedReleases' /\ RecordOK' /\ Installed' /\ CallbacksOK'
    BY DEF DecidedReleases, RecordOK, Installed, CallbacksOK
  <2>5. GenerationOK'
    BY DEF GenerationOK
  <2> QED  BY <2>1, <2>2, <2>3, <2>4, <2>5
<1>2. ASSUME NEW id \in Ids, Start(c, id) PROVE IInv'
  BY <1>2, StartInv
<1>3. ASSUME Return(c) \/ \E id \in Ids : Join(c, id) PROVE IInv'
  <2>1. UNCHANGED <<clock, closeVars, generation, responses, streamVars, idOf,
                    expiryVars, verifyVars>>
    BY <1>3 DEF Return, Join
  <2>2. /\ rec' \in [Callers -> Streams \cup {None}]
        /\ fut' \in [Callers -> Lookups \cup {None}]
    <3>1. CASE Return(c)
      BY <3>1 DEF Return, IInv, TypeOK
    <3>2. ASSUME NEW id \in Ids, Join(c, id)
          PROVE  /\ rec' \in [Callers -> Streams \cup {None}]
                 /\ fut' \in [Callers -> Lookups \cup {None}]
      <4>1. responses[id] \in Streams
        BY <3>2 DEF Join, Present, IInv, TypeOK
      <4>2. verification[responses[id]] \in Lookups
        BY <3>2, <4>1 DEF Join, NeedsLookup, IInv, TypeOK
      <4> QED  BY <3>2, <4>1, <4>2 DEF Join, IInv, TypeOK
    <3> QED  BY <1>3, <3>1, <3>2
  <2> QED
    BY <2>1, <2>2
       DEF IInv, TypeOK, DecidedReleases, NoStrayTimers, Owns, RecordOK,
           ExpiryOK, Installed, CallbacksOK, RetainedOK, GenerationOK
<1> QED  BY <1>1, <1>2, <1>3 DEF CallerStep, Receive, GiveUp

(***************************************************************************)
(* A task that ends is the installed one; it stays installed unless it     *)
(* failed retryably.                                                       *)
(***************************************************************************)
LEMMA EndInv ==
    ASSUME IInv, NEW s \in Streams, NEW l \in Lookups,
           NEW o \in Terminal \cup {"retryable", "cancelled"},
           outcome[s][l] = "running",
           outcome' = [outcome EXCEPT ![s][l] = o],
           verification' = [verification EXCEPT
               ![s] = IF o = "retryable" THEN None ELSE @],
           callbacks' = callbacks \cup {<<s, l>>},
           doomed' = doomed \ {<<s, l>>},
           UNCHANGED <<clock, close, doomedDrains, generation, responses,
                       streamVars, idOf, expiryVars, captured, callerVars>>
    PROVE  IInv'
<1> USE DEF IInv, streamVars, expiryVars, callerVars
<1>1. stream[s] = "retained" /\ captured[s] /\ verification[s] = l
  BY DEF RecordOK, Installed, Installable
<1>2. \A k \in Lookups \ {l} : outcome[s][k] \notin Installable
  BY <1>1 DEF Installed
<1>3. TypeOK'
  BY DEF TypeOK, Terminal
<1>4. NoStrayTimers' /\ ExpiryOK' /\ RetainedOK' /\ GenerationOK'
  BY DEF NoStrayTimers, Owns, ExpiryOK, RetainedOK, GenerationOK
<1>5. RecordOK'
  BY <1>1, <1>2, PyReceiptsAssumption DEF RecordOK, TypeOK, Terminal
<1>6. DecidedReleases'
  BY <1>1, <1>2 DEF DecidedReleases, Installable, TypeOK
<1>7. Installed'
  <2>1. \A t \in Streams \ {s}, k \in Lookups :
            outcome'[t][k] = outcome[t][k] /\ verification'[t] = verification[t]
    BY DEF TypeOK
  <2>2. \A k \in Lookups \ {l} : outcome'[s][k] = outcome[s][k]
    BY DEF TypeOK
  <2>3. /\ outcome'[s][l] = o
        /\ verification'[s] = IF o = "retryable" THEN None ELSE l
    BY <1>1 DEF TypeOK
  <2>4. o \in Installable <=> o # "retryable"
    BY DEF Installable, Terminal
  <2> QED
    BY <1>1, <1>2, <2>1, <2>2, <2>3, <2>4, PyReceiptsAssumption DEF Installed
<1>8. CallbacksOK'
  BY DEF CallbacksOK, Terminal, TypeOK
<1> QED  BY <1>3, <1>4, <1>5, <1>6, <1>7, <1>8

LEMMA ReleaseCaptureInv ==
    ASSUME IInv, NEW s \in Streams, NEW l \in Lookups, ReleaseCapture(s, l)
    PROVE  IInv'
<1> USE DEF IInv, ReleaseCapture, Current, streamVars, expiryVars, callerVars,
            closeVars
<1>1. TypeOK'
  BY DEF TypeOK
<1>2. NoStrayTimers' /\ ExpiryOK' /\ RetainedOK' /\ GenerationOK'
  BY DEF NoStrayTimers, Owns, ExpiryOK, RetainedOK, GenerationOK
<1>3. Installed' /\ CallbacksOK'
  BY DEF Installed, CallbacksOK
<1>4. outcome[s][l] \notin {"unused", "running"}
  BY DEF CallbacksOK
<1>5. RecordOK'
  BY <1>4, PyReceiptsAssumption DEF RecordOK, Installed, Installable, TypeOK
<1>6. DecidedReleases'
  BY DEF DecidedReleases, Installed, Installable, TypeOK
<1> QED  BY <1>1, <1>2, <1>3, <1>5, <1>6

LEMMA TaskInv ==
    ASSUME IInv, NEW s \in Streams, NEW l \in Lookups, TaskStep(s, l)
    PROVE  IInv'
<1> USE DEF closeVars
<1>1. CASE Finish(s, l)
  <2>1. PICK o \in Verdicts(s) :
           /\ outcome' = [outcome EXCEPT ![s][l] = o]
           /\ verification' = [verification EXCEPT
                  ![s] = IF o = "retryable" THEN None ELSE @]
    BY <1>1 DEF Finish
  <2>2. o \in Terminal \cup {"retryable", "cancelled"}
    BY DEF Verdicts, Terminal
  <2>3. doomed' = doomed \ {<<s, l>>}
    BY <1>1 DEF Finish
  <2> QED  BY <1>1, <2>1, <2>2, <2>3, EndInv DEF Finish
<1>2. CASE Cancelled(s, l)
  <2>1. outcome[s][l] = "running"
    BY <1>2 DEF Cancelled, IInv, CallbacksOK
  <2>2. verification' = [verification EXCEPT ![s] = @]
    BY <1>2 DEF Cancelled, IInv, TypeOK
  <2> QED  BY <1>2, <2>1, <2>2, EndInv DEF Cancelled
<1> QED  BY <1>1, <1>2, ReleaseCaptureInv DEF TaskStep

-----------------------------------------------------------------------------
(***************************************************************************)
(* The cache as a whole, aclose and time.                                  *)
(***************************************************************************)
LEMMA ClearInv ==
    ASSUME IInv, ClearResponseCache \/ CloseClears
    PROVE  IInv'
<1> USE DEF IInv, ClearResponseCache, CloseClears, Clear, streamVars,
            expiryVars, verifyVars, callerVars
<1>1. generation' \in 0..(MaxGeneration + 1)
  BY PyReceiptsAssumption DEF TypeOK, GenerationOK
<1>2. timer' \in [Streams -> 0..(MaxClock + TTL) \cup {None}]
  BY DEF TypeOK, Disarmed
<1>3. TypeOK'
  BY <1>1, <1>2 DEF TypeOK
<1>4. NoStrayTimers'
  <2> SUFFICES ASSUME NEW s \in Streams, timer'[s] # None
               PROVE  FALSE
    BY DEF NoStrayTimers, Owns
  <2>1. timer[s] # None /\ \A id \in Ids : responses[id] # s
    BY DEF Disarmed
  <2> QED  BY <2>1 DEF NoStrayTimers, Owns, RecordOK, ExpiryOK
<1>5. ExpiryOK'
  BY DEF ExpiryOK, Disarmed
<1>6. RetainedOK' /\ GenerationOK'
  BY PyReceiptsAssumption DEF RetainedOK, GenerationOK, TypeOK
<1>7. DecidedReleases' /\ RecordOK' /\ Installed' /\ CallbacksOK'
  BY DEF DecidedReleases, RecordOK, Installed, CallbacksOK
<1> QED  BY <1>3, <1>4, <1>5, <1>6, <1>7

LEMMA QuietInv ==
    ASSUME IInv, CloseShut \/ CancelTasks \/ Tick \/ UNCHANGED vars
    PROVE  IInv'
<1> USE DEF IInv, CloseShut, CancelTasks, Tick, vars, streamVars, expiryVars,
            verifyVars, callerVars, closeVars
<1>1. /\ clock' \in 0..MaxClock
      /\ close' \in {"open", "shut", "gathering", "closed"}
  BY PyReceiptsAssumption DEF TypeOK
<1>2. doomed' \subseteq Streams \X Lookups /\ doomedDrains' \subseteq Streams
  BY DEF TypeOK
<1>3. TypeOK'
  BY <1>1, <1>2 DEF TypeOK
<1>4. CallbacksOK'
  <2>1. outcome' = outcome /\ callbacks' = callbacks
    OBVIOUS
  <2>2. \A s \in Streams, l \in Lookups :
            <<s, l>> \in doomed' => outcome[s][l] = "running"
    <3>1. CASE CancelTasks
      BY <3>1
    <3>2. CASE doomed' = doomed
      BY <3>2 DEF CallbacksOK
    <3> QED  BY <3>1, <3>2
  <2> QED  BY <2>1, <2>2 DEF CallbacksOK
<1>5. DecidedReleases' /\ NoStrayTimers' /\ RecordOK' /\ ExpiryOK'
  BY DEF DecidedReleases, NoStrayTimers, Owns, RecordOK, ExpiryOK
<1>6. Installed' /\ RetainedOK' /\ GenerationOK'
  BY DEF Installed, RetainedOK, GenerationOK
<1> QED  BY <1>3, <1>4, <1>5, <1>6

LEMMA StepInv == IInv /\ [Next]_vars => IInv'
BY StreamInv, TaskInv, CallerInv, ClearInv, QuietInv DEF Next, Close

LEMMA Invariance == Spec => []IInv
BY InitInv, StepInv, PTL DEF Spec

(***************************************************************************)
(* Every variable of the response cache keeps its type, a decided record   *)
(* keeps its bytes only until the done callback of its task, and no armed  *)
(* timer keeps a record reachable that the cache has dropped.              *)
(***************************************************************************)
THEOREM BytesAndTimers == Spec => []Inv
BY Invariance, PTL DEF IInv, Inv

-----------------------------------------------------------------------------
(***************************************************************************)
(* Refinement: the cache implements the abstract Receipts.  The lemmas     *)
(* relate the abstract variables before and after a step of each kind.     *)
(***************************************************************************)
Age == [s \in Streams |-> AgeOf(s)]
Seen == {s \in Streams : stream[s] = "retained"}
Late == {s \in Streams : Expired(s)}
Bytes == {s \in Streams : captured[s]}
Asking == [s \in Streams |-> {l \in Lookups : outcome[s][l] = "running"}]
Ended == Terminal \cup {"cancelled"}
Verdict == [s \in Streams |-> VerdictOf(s)]

LEMMA InitRefines == Init => Promise!Init
BY PyReceiptsAssumption DEF Init, Promise!Init, VerdictOf, AgeOf, Expired

LEMMA SameVerdict ==
    ASSUME \A s \in Streams, l \in Lookups :
               \A v \in Ended : outcome'[s][l] = v <=> outcome[s][l] = v
    PROVE  Verdict' = Verdict
BY DEF Verdict, VerdictOf, Ended, Terminal

LEMMA SameVerification ==
    ASSUME UNCHANGED <<captured, outcome>>
    PROVE  Bytes' = Bytes /\ Asking' = Asking /\ Verdict' = Verdict
BY SameVerdict DEF Bytes, Asking

LEMMA SameCalls ==
    ASSUME UNCHANGED <<stream, sentGeneration, generation>>,
           (close = "closed")' <=> close = "closed"
    PROVE  Age' = Age /\ Seen' = Seen
BY DEF Age, AgeOf, Seen

LEMMA SameLate ==
    ASSUME UNCHANGED <<expiresAt, clock>>
    PROVE  Late' = Late
BY DEF Late, Expired

LEMMA StutterRefines ==
    ASSUME responses' = responses, Age' = Age, Seen' = Seen, Late' = Late,
           Bytes' = Bytes, Asking' = Asking, Verdict' = Verdict
    PROVE  UNCHANGED Promise!vars
BY DEF Promise!vars, Promise!retention, Promise!verification, Age, Seen,
       Late, Bytes, Asking, Verdict

LEMMA LapseRefines ==
    ASSUME NEW more \in SUBSET Seen, Late' = Late \cup more,
           responses' = responses, Age' = Age, Seen' = Seen,
           Bytes' = Bytes, Asking' = Asking, Verdict' = Verdict
    PROVE  Promise!Lapse
BY DEF Promise!Lapse, Promise!verification, Age, Seen, Late, Bytes, Asking,
       Verdict

(***************************************************************************)
(* A step that drops at most one record, which has expired.                *)
(***************************************************************************)
LEMMA DropOne ==
    ASSUME IInv, NEW id \in Ids, NEW new,
           \/ new = responses
           \/ Stale(id) /\ new = [responses EXCEPT ![id] = None]
    PROVE  \E gone \in SUBSET Promise!Lapsed : new = Promise!Without(gone)
<1> USE DEF IInv
<1>1. CASE new = responses
  <2>1. responses = Promise!Without({})
    BY DEF Promise!Without, TypeOK
  <2>2. {} \in SUBSET Promise!Lapsed
    OBVIOUS
  <2> QED  BY <1>1, <2>1, <2>2
<1>2. CASE Stale(id) /\ new = [responses EXCEPT ![id] = None]
  <2>1. {id} \in SUBSET Promise!Lapsed
    BY <1>2 DEF Promise!Lapsed, Stale, TypeOK
  <2>2. new = Promise!Without({id})
    BY <1>2 DEF Promise!Without, TypeOK
  <2> QED  BY <2>1, <2>2
<1> QED  BY <1>1, <1>2

LEMMA DropRefines ==
    ASSUME IInv, NEW id \in Ids,
           \/ responses' = responses
           \/ Stale(id) /\ responses' = [responses EXCEPT ![id] = None],
           Age' = Age, Seen' = Seen, Late' = Late, UNCHANGED <<captured, outcome>>
    PROVE  Promise!Drop
<1>1. \E gone \in SUBSET Promise!Lapsed : responses' = Promise!Without(gone)
  BY DropOne
<1> QED
  BY <1>1, SameVerification
     DEF Promise!Drop, Promise!verification, Age, Seen, Late, Bytes, Asking,
         Verdict

-----------------------------------------------------------------------------
(***************************************************************************)
(* Inference calls.  A request sent by a client whose aclose has ended is  *)
(* fenced at once.                                                         *)
(***************************************************************************)
LEMMA SendRefines ==
    ASSUME IInv, NEW s \in Streams, Send(s)
    PROVE  Promise!Send(s)
<1> USE DEF IInv, Send, expiryVars, verifyVars, closeVars
<1>1. Bytes' = Bytes /\ Asking' = Asking /\ Verdict' = Verdict
  BY SameVerification
<1>2. Seen' = Seen /\ Late' = Late
  BY SameLate DEF Seen, TypeOK
<1>3. Age[s] = "unsent"
  BY DEF Age, AgeOf
<1>4. Age' = [Age EXCEPT
                 ![s] = IF close = "closed" THEN "fenced" ELSE "current"]
  BY DEF Age, AgeOf, TypeOK
<1>5. Age' \in {[Age EXCEPT ![s] = a] : a \in {"current", "fenced"}}
  BY <1>4
<1> QED
  BY <1>1, <1>2, <1>3, <1>5
     DEF Promise!Send, Promise!verification, Age, Seen, Late, Bytes, Asking,
         Verdict

LEMMA UnretainedRefines ==
    ASSUME IInv, NEW s \in Streams, NEW x \in {"unretained", "refused"},
           \/ stream' = stream
           \/ stream[s] = "open" /\ stream' = [stream EXCEPT ![s] = x],
           UNCHANGED <<clock, close, generation, responses, sentGeneration,
                       expiryVars, verifyVars>>
    PROVE  UNCHANGED Promise!vars
<1> USE DEF IInv, expiryVars, verifyVars
<1>1. Age' = Age /\ Seen' = Seen
  BY DEF Age, AgeOf, Seen, TypeOK
<1> QED  BY <1>1, SameVerification, SameLate, StutterRefines

LEMMA RetainRefines ==
    ASSUME IInv, NEW s \in Streams, NEW id \in Ids, RegisterNew(s, id)
    PROVE  Promise!Retain(s, id)
<1> USE DEF IInv, RegisterNew, closeVars
<1>1. PICK gone \in SUBSET Promise!Lapsed : Purged(id) = Promise!Without(gone)
  BY DropOne DEF Purged
<1>2. /\ Promise!Without(gone)[id] = None
      /\ responses' = [Promise!Without(gone) EXCEPT ![id] = s]
  BY <1>1 DEF Purged, Present, Stale, TypeOK
<1>3. Seen' = Seen \cup {s} /\ s \notin Seen
  BY DEF Seen, TypeOK
<1>4. Bytes' = Bytes \cup {s}
  BY DEF Bytes, TypeOK
<1>5. Asking' = Asking /\ Verdict' = Verdict /\ Late' = Late
  BY SameVerdict, SameLate DEF Asking
<1>6. Age[s] = "current" /\ Age' = Age
  BY DEF Age, AgeOf, Fenced, Shut, is_closed, TypeOK
<1> QED
  BY <1>2, <1>3, <1>4, <1>5, <1>6
     DEF Promise!Retain, Age, Seen, Late, Bytes, Asking, Verdict

LEMMA ExpireRefines ==
    ASSUME IInv, NEW s \in Streams, Expire(s)
    PROVE  Promise!Lapse
<1> USE DEF IInv, Expire, Due, streamVars, verifyVars, closeVars
<1>1. s \in Seen /\ s \notin Late
  BY DEF Seen, Late, Expired, ExpiryOK
<1>2. \A t \in Streams \ {s} : t \in Late' <=> t \in Late
  BY DEF Late, Expired, TypeOK
<1>3. Late' = Late \cup (Late' \cap {s}) /\ Late' \cap {s} \in SUBSET Seen
  BY <1>1, <1>2 DEF Late
<1> QED  BY <1>3, SameCalls, SameVerification, LapseRefines

LEMMA ReleaseRefines ==
    ASSUME IInv, NEW s \in Streams, Release(s)
    PROVE  Promise!Drop
<1> USE DEF IInv, Release, streamVars, verifyVars, closeVars
<1>1. idOf[s] \in Ids /\ responses[idOf[s]] = s
  BY DEF NoStrayTimers, Owns, RecordOK, ExpiryOK
<1>2. Stale(idOf[s])
  BY <1>1, PyReceiptsAssumption DEF Stale, Expired, ExpiryOK
<1>3. responses' = [responses EXCEPT ![idOf[s]] = None]
  BY <1>1 DEF Owns
<1> QED  BY <1>1, <1>2, <1>3, SameCalls, SameLate, DropRefines

LEMMA StreamRefines ==
    ASSUME IInv, NEW s \in Streams, StreamStep(s)
    PROVE  Promise!Next \/ UNCHANGED Promise!vars
<1> USE DEF closeVars
<1>1. CASE Abandon(s) \/ RegisterNothing(s)
  BY <1>1, UnretainedRefines DEF Abandon, RegisterNothing
<1>2. CASE StartDrain(s) \/ EnterDrain(s) \/ DrainSkipped(s) \/ BodyCompletes(s)
  BY <1>2, UnretainedRefines DEF StartDrain, EnterDrain, DrainSkipped, BodyCompletes
<1>3. CASE BodyFails(s) \/ DrainCancelled(s)
  <2>1. \/ stream' = stream
        \/ stream[s] = "open" /\ stream' = [stream EXCEPT ![s] = "unretained"]
    BY <1>3 DEF BodyFails, DrainCancelled, Fails, IInv, TypeOK
  <2> QED
    BY <1>3, <2>1, UnretainedRefines DEF BodyFails, DrainCancelled, Fails
<1>4. ASSUME NEW id \in Ids, RegisterRefused(s, id)
      PROVE  UNCHANGED Promise!vars
  BY <1>4, UnretainedRefines DEF RegisterRefused
<1>5. ASSUME NEW id \in Ids, RegisterNew(s, id) PROVE Promise!Next
  BY <1>5, RetainRefines DEF Promise!Next
<1>6. CASE Send(s) \/ Expire(s) \/ Release(s)
  BY <1>6, SendRefines, ExpireRefines, ReleaseRefines DEF Promise!Next
<1> QED  BY <1>1, <1>2, <1>3, <1>4, <1>5, <1>6 DEF StreamStep, Register, DrainEnds

-----------------------------------------------------------------------------
(***************************************************************************)
(* Verification.                                                           *)
(***************************************************************************)
LEMMA StartRefines ==
    ASSUME IInv, NEW c \in Callers, NEW id \in Ids, Start(c, id),
           NEW s \in Streams, s = responses[id]
    PROVE  \E l \in Lookups : Promise!Ask(s, l)
<1> USE DEF IInv, Start, Present, NeedsLookup, streamVars, expiryVars,
            closeVars
<1>1. s \in Bytes
  BY DEF Bytes, RetainedOK, RecordOK
<1>2. PICK l \in Unused(s) : outcome' = [outcome EXCEPT ![s][l] = "running"]
  OBVIOUS
<1>3. \A k \in Lookups : outcome[s][k] \notin Installable
  BY PyReceiptsAssumption DEF Installed
<1>4. Verdict[s] = "undecided" /\ Asking[s] = {}
  BY <1>3 DEF Verdict, VerdictOf, Asking, Installable, Terminal
<1>5. Asking' = [Asking EXCEPT ![s] = {l}]
  <2>1. Asking'[s] = {l}
    BY <1>2, <1>3 DEF Asking, Unused, Installable, TypeOK
  <2>2. \A t \in Streams \ {s} : Asking'[t] = Asking[t]
    BY <1>2 DEF Asking, TypeOK
  <2> QED  BY <2>1, <2>2 DEF Asking
<1>6. Verdict' = Verdict
  <2>1. \A t \in Streams, k \in Lookups :
            \A v \in Ended : outcome'[t][k] = v <=> outcome[t][k] = v
    BY <1>2 DEF Unused, TypeOK, Ended, Terminal
  <2> QED  BY <2>1, SameVerdict
<1>7. Age' = Age /\ Seen' = Seen /\ Late' = Late
  BY SameCalls, SameLate
<1>8. Bytes' = Bytes /\ responses' = responses
  BY DEF Bytes
<1>9. Promise!Ask(s, l)
  BY <1>1, <1>4, <1>5, <1>6, <1>7, <1>8
     DEF Promise!Ask, Promise!retention, Age, Seen, Late, Bytes, Asking,
         Verdict
<1> QED  BY <1>2, <1>9 DEF Unused

LEMMA CallerRefines ==
    ASSUME IInv, NEW c \in Callers, CallerStep(c)
    PROVE  Promise!Next \/ UNCHANGED Promise!vars
<1> USE DEF streamVars, expiryVars, verifyVars, closeVars
<1>1. ASSUME NEW id \in Ids, Start(c, id) PROVE Promise!Next
  <2>1. PICK s \in Streams : s = responses[id]
    BY <1>1 DEF Start, Present, IInv, TypeOK
  <2> QED  BY <1>1, <2>1, StartRefines DEF Promise!Next
<1>2. ASSUME NEW id \in Ids, NotFound(c, id) PROVE Promise!Next
  <2>1. Promise!Drop
    BY <1>2, SameCalls, SameLate, DropRefines DEF NotFound, Purged
  <2> QED  BY <2>1 DEF Promise!Next
<1>3. ASSUME Return(c) \/ \E id \in Ids : Join(c, id)
      PROVE  UNCHANGED Promise!vars
  <2>1. UNCHANGED <<clock, closeVars, generation, responses, streamVars,
                    expiryVars, verifyVars>>
    BY <1>3 DEF Join, Return
  <2> QED
    BY <2>1, SameCalls, SameLate, SameVerification, StutterRefines
<1> QED  BY <1>1, <1>2, <1>3 DEF CallerStep, Receive, GiveUp

(***************************************************************************)
(* A task that ends decides, unless it failed retryably.                   *)
(***************************************************************************)
LEMMA EndRefines ==
    ASSUME IInv, NEW s \in Streams, NEW l \in Lookups,
           NEW o \in Ended \cup {"retryable"},
           outcome[s][l] = "running",
           outcome' = [outcome EXCEPT ![s][l] = o],
           UNCHANGED <<clock, close, generation, responses, streamVars,
                       expiryVars, captured>>
    PROVE  Promise!Retry(s) \/ Promise!Decide(s)
<1> USE DEF IInv, streamVars, expiryVars
<1>1. \A k \in Lookups \ {l} : outcome[s][k] \notin Installable
  BY DEF Installed, Installable
<1>2. Asking[s] # {} /\ Asking' = [Asking EXCEPT ![s] = {}]
  <2>1. l \in Asking[s]
    BY DEF Asking
  <2>2. Asking'[s] = {}
    BY <1>1 DEF Asking, TypeOK, Installable, Ended, Terminal
  <2>3. \A t \in Streams \ {s} : Asking'[t] = Asking[t]
    BY DEF Asking, TypeOK
  <2> QED  BY <2>1, <2>2, <2>3 DEF Asking
<1>3. /\ Age' = Age /\ Seen' = Seen /\ Late' = Late
      /\ responses' = responses /\ Bytes' = Bytes
  BY SameCalls, SameLate DEF Bytes
<1>4. CASE o = "retryable"
  <2>1. \A t \in Streams, k \in Lookups :
            \A v \in Ended : outcome'[t][k] = v <=> outcome[t][k] = v
    BY <1>4 DEF TypeOK, Ended, Terminal
  <2>2. Verdict' = Verdict
    BY <2>1, SameVerdict
  <2> QED
    BY <1>2, <1>3, <2>2
       DEF Promise!Retry, Promise!retention, Age, Seen, Late, Bytes, Asking,
           Verdict
<1>5. CASE o \in Ended
  <2>1. VerdictOf(s)' = o
    BY <1>1, <1>5 DEF VerdictOf, Ended, Installable, Terminal, TypeOK
  <2>2. \A t \in Streams \ {s} : VerdictOf(t)' = VerdictOf(t)
    BY DEF VerdictOf, TypeOK
  <2>3. Verdict' = [Verdict EXCEPT ![s] = o]
    BY <2>1, <2>2 DEF Verdict
  <2>4. Verdict' \in {[Verdict EXCEPT ![s] = v] :
                          v \in {"ok", "failed", "cancelled"}}
    BY <1>5, <2>3 DEF Ended, Terminal
  <2> QED
    BY <1>2, <1>3, <2>4
       DEF Promise!Decide, Promise!retention, Age, Seen, Late, Bytes, Asking,
           Verdict
<1> QED  BY <1>4, <1>5

(***************************************************************************)
(* A done callback releases the bytes of the record its task decided; that *)
(* of a task which failed retryably finds its slot cleared or taken.       *)
(***************************************************************************)
LEMMA ReleaseCaptureRefines ==
    ASSUME IInv, NEW s \in Streams, NEW l \in Lookups, ReleaseCapture(s, l)
    PROVE  Promise!Release(s) \/ UNCHANGED Promise!vars
<1> USE DEF IInv, ReleaseCapture, Current, streamVars, expiryVars, closeVars
<1>1. /\ Age' = Age /\ Seen' = Seen /\ Late' = Late
      /\ responses' = responses
  BY SameCalls, SameLate
<1>2. Asking' = Asking /\ Verdict' = Verdict
  BY SameVerdict DEF Asking
<1>3. CASE verification[s] = l
  <2>1. outcome[s][l] \in Ended
    BY <1>3 DEF Installed, Installable, CallbacksOK, Ended
  <2>2. Verdict[s] # "undecided"
    BY <2>1 DEF Verdict, VerdictOf, Ended, Terminal
  <2>3. Bytes' = Bytes \ {s}
    BY <1>3 DEF Bytes, TypeOK
  <2> QED
    BY <1>1, <1>2, <2>2, <2>3
       DEF Promise!Release, Promise!retention, Age, Seen, Late, Bytes, Asking,
           Verdict
<1>4. CASE verification[s] # l
  <2>1. captured' = captured
    BY <1>4 DEF TypeOK
  <2> QED  BY <1>1, <2>1, SameVerification, StutterRefines
<1> QED  BY <1>3, <1>4

LEMMA TaskRefines ==
    ASSUME IInv, NEW s \in Streams, NEW l \in Lookups, TaskStep(s, l)
    PROVE  Promise!Next \/ UNCHANGED Promise!vars
<1> USE DEF closeVars
<1>1. CASE Finish(s, l)
  <2>1. PICK o \in Verdicts(s) : outcome' = [outcome EXCEPT ![s][l] = o]
    BY <1>1 DEF Finish
  <2>2. o \in Ended \cup {"retryable"}
    BY DEF Verdicts, Ended, Terminal
  <2> QED  BY <1>1, <2>1, <2>2, EndRefines DEF Finish, Promise!Next
<1>2. CASE Cancelled(s, l)
  <2>1. outcome[s][l] = "running" /\ "cancelled" \in Ended
    BY <1>2 DEF Cancelled, IInv, CallbacksOK, Ended
  <2> QED  BY <1>2, <2>1, EndRefines DEF Cancelled, Promise!Next
<1> QED  BY <1>1, <1>2, ReleaseCaptureRefines DEF TaskStep, Promise!Next

-----------------------------------------------------------------------------
(***************************************************************************)
(* The cache as a whole.  A clear fences every call sent so far because no *)
(* call has read a generation that is still to come, and so does aclose.   *)
(***************************************************************************)
LEMMA ClearRefines == IInv /\ (ClearResponseCache \/ CloseClears) => Promise!Clear
<1> SUFFICES ASSUME IInv, ClearResponseCache \/ CloseClears PROVE Promise!Clear
  OBVIOUS
<1> USE DEF IInv, ClearResponseCache, CloseClears, Clear, streamVars,
            verifyVars
<1>1. Seen' = Seen /\ Late' = Late
  BY SameLate DEF Seen
<1>2. Age' = [s \in Streams |->
                 IF Age[s] = "current" THEN "fenced" ELSE Age[s]]
  BY PyReceiptsAssumption DEF Age, AgeOf, GenerationOK, TypeOK
<1> QED
  BY <1>1, <1>2, SameVerification
     DEF Promise!Clear, Promise!verification, Age, Seen, Late, Bytes, Asking,
         Verdict

LEMMA TickRefines == IInv /\ Tick => Promise!Lapse
<1> SUFFICES ASSUME IInv, Tick PROVE Promise!Lapse
  OBVIOUS
<1> USE DEF IInv, Tick, streamVars, expiryVars, verifyVars, closeVars
<1>1. expiresAt' = expiresAt /\ clock' = clock + 1 /\ clock \in Nat
  BY PyReceiptsAssumption DEF TypeOK
<1>2. \A s \in Streams : expiresAt[s] \in Nat \cup {None}
  BY PyReceiptsAssumption DEF TypeOK
<1>3. Late \subseteq Late'
  BY <1>1, <1>2 DEF Late, Expired
<1>4. Late' \subseteq Seen
  BY <1>1 DEF Late, Expired, Seen, RecordOK, ExpiryOK
<1>5. Late' = Late \cup Late'
  BY <1>3
<1> QED  BY <1>4, <1>5, SameCalls, SameVerification, LapseRefines

LEMMA QuietRefines ==
    ASSUME CloseShut \/ CancelTasks \/ UNCHANGED vars
    PROVE  UNCHANGED Promise!vars
<1>1. /\ UNCHANGED <<clock, generation, responses, streamVars, expiryVars,
                     verifyVars>>
      /\ (close = "closed")' <=> close = "closed"
  BY DEF CloseShut, CancelTasks, vars, closeVars
<1> QED
  BY <1>1, SameCalls, SameLate, SameVerification, StutterRefines
     DEF streamVars, expiryVars, verifyVars

(***************************************************************************)
(* Every behaviour of the Python cache is one the abstract Receipts allow: *)
(* one task per completion, bytes kept while one may need them, a verdict  *)
(* that is final, and nothing retained across a clear or aclose.           *)
(***************************************************************************)
THEOREM RefinesReceipts == Spec => ImplementsReceipts
<1>1. IInv /\ [Next]_vars => [Promise!Next]_(Promise!vars)
  <2> SUFFICES ASSUME IInv, [Next]_vars
               PROVE  Promise!Next \/ UNCHANGED Promise!vars
    OBVIOUS
  <2>1. CASE ClearResponseCache \/ CloseClears \/ Tick
    BY <2>1, ClearRefines, TickRefines DEF Promise!Next
  <2> QED
    BY <2>1, StreamRefines, TaskRefines, CallerRefines, QuietRefines
       DEF Next, Close
<1> QED
  BY <1>1, InitRefines, Invariance, PTL
     DEF Spec, Promise!Spec, ImplementsReceipts
=============================================================================
