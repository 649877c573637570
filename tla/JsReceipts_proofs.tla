-------------------------- MODULE JsReceipts_proofs --------------------------
(***************************************************************************)
(* Proofs about JsReceipts for any set of inference calls, IDs, callers    *)
(* and lookups, any TTL and any longest timer.                             *)
(*                                                                         *)
(* A timer belongs to the record the cache holds under the ID it was       *)
(* registered with (NoStrayTimers, RetainedOK): wherever the code drops a  *)
(* record it also clears the timer, because the record it drops is the     *)
(* only one that can own that ID.                                          *)
(***************************************************************************)
EXTENDS JsReceipts, TLAPS

RecordOK ==
    \A s \in Streams :
        /\ stream[s] # "retained" =>
               /\ ~started[s]
               /\ verification[s] = None
               /\ \A l \in Lookups : outcome[s][l] = "unused"
        /\ stream[s] = "retained" => idOf[s] \in Ids
        /\ stream[s] = "retained" /\ verification[s] = None => captured[s]
        /\ \A l \in Lookups : outcome[s][l] = "running" => captured[s]

ExpiryOK ==
    \A s \in Streams :
        /\ ~started[s] => expiresAt[s] = None
        /\ expiresAt[s] = None => timer[s] = None

Installed ==
    \A s \in Streams, l \in Lookups :
        outcome[s][l] \in Terminal \cup {"running"} => verification[s] = l

RetainedOK ==
    \A id \in Ids :
        responses[id] # None => /\ stream[responses[id]] = "retained"
                                /\ idOf[responses[id]] = id

SentBefore == \A s \in Streams : sentGeneration[s] <= generation

IInv ==
    /\ TypeOK
    /\ NoStrayTimers
    /\ RecordOK
    /\ ExpiryOK
    /\ Installed
    /\ RetainedOK
    /\ SentBefore

LEMMA InitInv == Init => IInv
<1> SUFFICES ASSUME Init PROVE IInv
  OBVIOUS
<1> USE JsReceiptsAssumption DEF Init
<1>1. TypeOK
  BY DEF TypeOK
<1>2. NoStrayTimers /\ RecordOK /\ ExpiryOK
  BY DEF NoStrayTimers, RecordOK, ExpiryOK
<1>3. Installed /\ RetainedOK /\ SentBefore
  BY DEF Installed, RetainedOK, SentBefore, Terminal
<1> QED  BY <1>1, <1>2, <1>3 DEF IInv

-----------------------------------------------------------------------------
(***************************************************************************)
(* getResponseRecord drops the record it finds expired, with its timer.    *)
(***************************************************************************)
LEMMA PurgedOK ==
    ASSUME IInv, NEW id \in Ids
    PROVE  /\ Purged(id) \in [Ids -> Streams \cup {None}]
           /\ \A i \in Ids : Purged(id)[i] \in {None, responses[i]}
           /\ TimerPurged(id) \in [Streams -> 0..(MaxClock + MaxDelay)
                                                 \cup {None}]
           /\ \A s \in Streams : TimerPurged(id)[s] \in {None, timer[s]}
           /\ \A s \in Streams :
                 TimerPurged(id)[s] # None => Purged(id)[idOf[s]] = s
<1> USE DEF IInv, Purged, TimerPurged, Stale
<1>1. \A i \in Ids : responses[i] # None => responses[i] \in Streams
  BY DEF TypeOK
<1>2. /\ Purged(id) \in [Ids -> Streams \cup {None}]
      /\ \A i \in Ids : Purged(id)[i] \in {None, responses[i]}
  BY DEF TypeOK
<1>3. /\ TimerPurged(id) \in [Streams -> 0..(MaxClock + MaxDelay) \cup {None}]
      /\ \A s \in Streams : TimerPurged(id)[s] \in {None, timer[s]}
  BY <1>1 DEF TypeOK
<1>4. ASSUME NEW s \in Streams, TimerPurged(id)[s] # None
      PROVE  Purged(id)[idOf[s]] = s
  <2>1. timer[s] # None /\ responses[idOf[s]] = s
    BY <1>3, <1>4 DEF NoStrayTimers, Owns
  <2>2. idOf[s] \in Ids
    BY <2>1 DEF RecordOK, ExpiryOK
  <2>3. CASE Stale(id)
    <3>1. responses[id] # s
      BY <1>1, <1>4, <2>3 DEF TypeOK
    <3> QED  BY <2>1, <2>2, <2>3, <3>1 DEF TypeOK
  <2> QED  BY <2>1, <2>3
<1> QED  BY <1>2, <1>3, <1>4

-----------------------------------------------------------------------------
(***************************************************************************)
(* A call that is not retained, and the body of any call, change nothing   *)
(* but stream and body.                                                    *)
(***************************************************************************)
LEMMA UnretainedInv ==
    ASSUME IInv, NEW s \in Streams,
           NEW x \in {"open", "unretained", "duplicate"},
           stream[s] # "retained",
           stream' = [stream EXCEPT ![s] = x],
           body' \in [Streams -> {"flowing", "complete", "failed"}],
           \/ sentGeneration' = sentGeneration
           \/ sentGeneration' = [sentGeneration EXCEPT ![s] = generation],
           UNCHANGED <<clock, generation, responses, idOf, expiryVars,
                       verifyVars, callerVars>>
    PROVE  IInv'
<1> USE DEF IInv, expiryVars, verifyVars, callerVars
<1>1. TypeOK'
  <2>1. sentGeneration' \in [Streams -> 0..MaxGeneration]
    BY DEF TypeOK
  <2>2. stream' \in [Streams -> {"idle", "open", "retained", "unretained",
                                "duplicate"}]
    BY DEF TypeOK
  <2> QED  BY <2>1, <2>2 DEF TypeOK
<1>2. NoStrayTimers' /\ ExpiryOK' /\ Installed'
  BY DEF NoStrayTimers, Owns, ExpiryOK, Installed
<1>3. RecordOK'
  BY DEF RecordOK, TypeOK
<1>4. RetainedOK'
  BY DEF RetainedOK, TypeOK
<1>5. SentBefore'
  <2>1. generation \in Nat
    BY JsReceiptsAssumption DEF TypeOK
  <2>2. \A t \in Streams : sentGeneration'[t] \in {sentGeneration[t], generation}
    BY DEF TypeOK
  <2> QED  BY <2>1, <2>2 DEF SentBefore
<1> QED  BY <1>1, <1>2, <1>3, <1>4, <1>5

LEMMA BodyInv ==
    ASSUME IInv, NEW s \in Streams, BodyCompletes(s) \/ BodyFails(s)
    PROVE  IInv'
<1>1. body' \in [Streams -> {"flowing", "complete", "failed"}]
  BY DEF IInv, TypeOK, BodyCompletes, BodyFails
<1>2. CASE stream[s] = "open" /\ BodyFails(s)
  BY <1>1, <1>2, UnretainedInv DEF BodyFails
<1>3. CASE ~(stream[s] = "open" /\ BodyFails(s))
  <2>1. stream' = stream
    BY <1>3 DEF BodyCompletes, BodyFails, IInv, TypeOK
  <2>2. UNCHANGED <<clock, generation, responses, sentGeneration, idOf,
                    expiryVars, verifyVars, callerVars>>
    BY DEF BodyCompletes, BodyFails
  <2> QED
    BY <1>1, <2>1, <2>2
       DEF expiryVars, verifyVars, callerVars, IInv, TypeOK, NoStrayTimers,
           Owns, RecordOK, ExpiryOK, Installed, RetainedOK, SentBefore
<1> QED  BY <1>2, <1>3

LEMMA RegisterNewInv ==
    ASSUME IInv, NEW s \in Streams, NEW id \in Ids, RegisterNew(s, id)
    PROVE  IInv'
<1> USE DEF IInv, RegisterNew, callerVars
<1>1. TypeOK'
  BY PurgedOK DEF TypeOK
<1>2. responses' = [Purged(id) EXCEPT ![id] = s] /\ timer[s] = None
  BY DEF Purged, RecordOK, ExpiryOK, TypeOK
<1>3. ASSUME NEW t \in Streams, timer'[t] # None
      PROVE  responses'[idOf'[t]] = t
  <2>1. t # s /\ idOf'[t] = idOf[t] /\ Purged(id)[idOf[t]] = t
    BY <1>2, <1>3, PurgedOK DEF TypeOK
  <2>2. timer[t] # None /\ idOf[t] \in Ids
    BY <1>2, <1>3, <2>1, PurgedOK DEF RecordOK, ExpiryOK
  <2>3. idOf[t] # id
    <3>1. Purged(id)[id] = None
      BY JsReceiptsAssumption DEF Purged, Present, Stale, TypeOK
    <3> QED  BY <2>1, <3>1, JsReceiptsAssumption
  <2> QED  BY <1>2, <2>1, <2>2, <2>3, PurgedOK
<1>4. NoStrayTimers'
  BY <1>3 DEF NoStrayTimers, Owns
<1>5. RecordOK'
  BY DEF RecordOK, TypeOK
<1>6. ExpiryOK'
  BY PurgedOK DEF ExpiryOK
<1>7. Installed' /\ SentBefore'
  BY DEF Installed, SentBefore
<1>8. RetainedOK'
  BY DEF RetainedOK, TypeOK
<1> QED  BY <1>1, <1>4, <1>5, <1>6, <1>7, <1>8

-----------------------------------------------------------------------------
(***************************************************************************)
(* The callbacks of a record: its TTL starts, its timer fires.             *)
(***************************************************************************)
LEMMA ExpireInv ==
    ASSUME IInv, NEW s \in Streams, Expire(s)
    PROVE  IInv'
<1> USE DEF IInv, Expire, Due, streamVars, verifyVars, callerVars
<1>1. /\ clock + TTL \in 0..(MaxClock + TTL)
      /\ clock + Shorter(TTL, MaxDelay) \in 0..(MaxClock + MaxDelay)
  BY JsReceiptsAssumption DEF TypeOK, Shorter
<1>2. expiresAt' \in [Streams -> 0..(MaxClock + TTL) \cup {None}]
  BY <1>1 DEF TypeOK, Expiry
<1>3. timer' \in [Streams -> 0..(MaxClock + MaxDelay) \cup {None}]
  BY <1>1 DEF TypeOK
<1>4. TypeOK'
  BY <1>2, <1>3 DEF TypeOK
<1>5. NoStrayTimers'
  BY DEF NoStrayTimers, Owns, TypeOK
<1>6. ExpiryOK'
  BY <1>1, JsReceiptsAssumption DEF ExpiryOK, TypeOK, Expiry
<1>7. RecordOK' /\ Installed' /\ RetainedOK' /\ SentBefore'
  BY DEF RecordOK, Installed, RetainedOK, SentBefore, TypeOK
<1> QED  BY <1>4, <1>5, <1>6, <1>7

LEMMA ReleaseInv ==
    ASSUME IInv, NEW s \in Streams, Release(s)
    PROVE  IInv'
<1> USE DEF IInv, Release, streamVars, verifyVars, callerVars
<1>1. idOf[s] \in Ids /\ responses[idOf[s]] = s /\ Owns(s)
  BY DEF NoStrayTimers, Owns, RecordOK, ExpiryOK
<1>2. ~Expired(s) => Rearmed(s) \in 0..(MaxClock + MaxDelay)
  <2>1. expiresAt[s] \in Nat
    BY JsReceiptsAssumption DEF ExpiryOK, TypeOK
  <2> QED
    BY <2>1, JsReceiptsAssumption DEF Expired, Rearmed, Shorter, TypeOK
<1>3. /\ responses' \in [Ids -> Streams \cup {None}]
      /\ \A id \in Ids : responses'[id] \in {None, responses[id]}
  BY <1>1 DEF TypeOK
<1>4. timer' \in [Streams -> 0..(MaxClock + MaxDelay) \cup {None}]
  BY <1>1, <1>2 DEF TypeOK
<1>5. TypeOK'
  BY <1>3, <1>4 DEF TypeOK
<1>6. NoStrayTimers'
  <2> SUFFICES ASSUME NEW t \in Streams, timer'[t] # None
               PROVE  responses'[idOf[t]] = t
    BY DEF NoStrayTimers, Owns
  <2>1. CASE t = s
    BY <1>1, <2>1 DEF TypeOK
  <2>2. CASE t # s
    <3>1. timer[t] # None
      BY <2>2 DEF TypeOK
    <3>2. responses[idOf[t]] = t /\ idOf[t] \in Ids
      BY <3>1 DEF NoStrayTimers, Owns, RecordOK, ExpiryOK
    <3> QED  BY <1>1, <2>2, <3>2 DEF TypeOK
  <2> QED  BY <2>1, <2>2
<1>7. ExpiryOK'
  BY DEF ExpiryOK, TypeOK
<1>8. RetainedOK'
  BY <1>3 DEF RetainedOK
<1>9. RecordOK' /\ Installed' /\ SentBefore'
  BY DEF RecordOK, Installed, SentBefore
<1> QED  BY <1>5, <1>6, <1>7, <1>8, <1>9

LEMMA StreamInv ==
    ASSUME IInv, NEW s \in Streams, StreamStep(s)
    PROVE  IInv'
<1> USE DEF Send, Abandon, RegisterNothing, RegisterDuplicate
<1>1. body \in [Streams -> {"flowing", "complete", "failed"}]
  BY DEF IInv, TypeOK
<1>2. CASE Send(s) \/ Abandon(s) \/ RegisterNothing(s)
  BY <1>1, <1>2, UnretainedInv
<1>3. ASSUME NEW id \in Ids, RegisterDuplicate(s, id) PROVE IInv'
  BY <1>1, <1>3, UnretainedInv
<1> QED
  BY <1>2, <1>3, BodyInv, RegisterNewInv, ExpireInv, ReleaseInv
     DEF StreamStep, Register

-----------------------------------------------------------------------------
(***************************************************************************)
(* Verification.                                                           *)
(***************************************************************************)
LEMMA StartInv ==
    ASSUME IInv, NEW c \in Callers, NEW id \in Ids, Start(c, id)
    PROVE  IInv'
<1> DEFINE s == responses[id]
<1> USE DEF IInv, Start, Verifiable, Present, NeedsLookup, streamVars,
            expiryVars
<1>1. s \in Streams /\ stream[s] = "retained" /\ captured[s]
  BY DEF TypeOK, RetainedOK
<1>2. PICK l \in Unused(s) :
         /\ verification' = [verification EXCEPT ![s] = l]
         /\ outcome' = [outcome EXCEPT ![s][l] = "running"]
         /\ fut' = [fut EXCEPT ![c] = l]
  OBVIOUS
<1>3. l \in Lookups /\ outcome[s][l] = "unused"
  BY <1>2 DEF Unused
<1>4. TypeOK'
  BY <1>1, <1>2, <1>3 DEF TypeOK
<1>5. NoStrayTimers' /\ ExpiryOK' /\ RetainedOK' /\ SentBefore'
  BY DEF NoStrayTimers, Owns, ExpiryOK, RetainedOK, SentBefore
<1>6. RecordOK'
  BY <1>1, <1>2, <1>3, JsReceiptsAssumption DEF RecordOK, TypeOK
<1>7. Installed'
  <2>1. \A k \in Lookups : outcome[s][k] \notin Terminal \cup {"running"}
    BY <1>1, JsReceiptsAssumption DEF Installed
  <2> QED  BY <1>1, <1>2, <1>3, <2>1 DEF Installed, TypeOK
<1> QED  BY <1>4, <1>5, <1>6, <1>7

LEMMA CallerInv ==
    ASSUME IInv, NEW c \in Callers, CallerStep(c)
    PROVE  IInv'
<1> USE DEF streamVars, expiryVars, verifyVars, callerVars
<1>1. ASSUME NEW id \in Ids, NotFound(c, id) PROVE IInv'
  <2> USE <1>1 DEF IInv, NotFound
  <2>1. TypeOK'
    BY PurgedOK DEF TypeOK
  <2>2. NoStrayTimers'
    BY PurgedOK DEF NoStrayTimers, Owns
  <2>3. ExpiryOK' /\ RetainedOK'
    BY PurgedOK DEF ExpiryOK, RetainedOK
  <2>4. RecordOK' /\ Installed' /\ SentBefore'
    BY DEF RecordOK, Installed, SentBefore
  <2> QED  BY <2>1, <2>2, <2>3, <2>4
<1>2. ASSUME NEW id \in Ids, Start(c, id) PROVE IInv'
  BY <1>2, StartInv
<1>3. ASSUME NEW id \in Ids, Join(c, id) PROVE IInv'
  BY <1>3
     DEF Join, Present, NeedsLookup, IInv, TypeOK, NoStrayTimers, Owns,
         RecordOK, ExpiryOK, Installed, RetainedOK, SentBefore
<1>4. CASE Receive(c)
  BY <1>4
     DEF Receive, IInv, TypeOK, NoStrayTimers, Owns, RecordOK, ExpiryOK,
         Installed, RetainedOK, SentBefore
<1> QED  BY <1>1, <1>2, <1>3, <1>4 DEF CallerStep

LEMMA SettleInv ==
    ASSUME IInv, NEW s \in Streams, NEW l \in Lookups, Settle(s, l)
    PROVE  IInv'
<1> USE DEF IInv, Settle, streamVars, expiryVars, callerVars
<1>1. PICK o \in Verdicts(s) :
         /\ outcome' = [outcome EXCEPT ![s][l] = o]
         /\ verification' = [verification EXCEPT
                ![s] = IF o = "retryable" THEN None ELSE @]
         /\ captured' = [captured EXCEPT ![s] = IF Releases(o) THEN FALSE ELSE @]
  OBVIOUS
<1>2. o \in Terminal \cup {"retryable"}
  BY DEF Verdicts, Terminal
<1>3. stream[s] = "retained" /\ captured[s] /\ verification[s] = l
  BY DEF RecordOK, Installed
<1>4. \A k \in Lookups \ {l} : outcome[s][k] \notin Terminal \cup {"running"}
  BY <1>3 DEF Installed
<1>5. TypeOK'
  BY <1>1, <1>2 DEF TypeOK, Terminal
<1>6. NoStrayTimers' /\ ExpiryOK' /\ RetainedOK' /\ SentBefore'
  BY DEF NoStrayTimers, Owns, ExpiryOK, RetainedOK, SentBefore
<1>7. RecordOK'
  BY <1>1, <1>2, <1>3, <1>4, JsReceiptsAssumption
     DEF RecordOK, TypeOK, Releases, Terminal
<1>8. Installed'
  BY <1>1, <1>2, <1>3, <1>4 DEF Installed, TypeOK, Terminal
<1> QED  BY <1>5, <1>6, <1>7, <1>8

-----------------------------------------------------------------------------
(***************************************************************************)
(* Time, and the cache as a whole.                                         *)
(***************************************************************************)
LEMMA CacheInv ==
    ASSUME IInv, ClearResponseCache \/ Tick \/ UNCHANGED vars
    PROVE  IInv'
<1> USE DEF IInv, ClearResponseCache, Tick, vars, streamVars, expiryVars,
            verifyVars, callerVars
<1>1. TypeOK'
  BY JsReceiptsAssumption DEF TypeOK, Disarmed
<1>2. NoStrayTimers'
  <2> SUFFICES ASSUME NEW s \in Streams, timer'[s] # None
               PROVE  responses'[idOf[s]] = s
    BY DEF NoStrayTimers, Owns
  <2>1. CASE ClearResponseCache
    <3>1. timer[s] # None /\ \A id \in Ids : responses[id] # s
      BY <2>1 DEF Disarmed
    <3> QED  BY <3>1 DEF NoStrayTimers, Owns, RecordOK, ExpiryOK
  <2> QED  BY <2>1 DEF NoStrayTimers, Owns
<1>3. ExpiryOK'
  BY DEF ExpiryOK, Disarmed
<1>4. RetainedOK'
  BY DEF RetainedOK
<1>5. RecordOK' /\ Installed'
  BY DEF RecordOK, Installed
<1>6. SentBefore'
  BY JsReceiptsAssumption DEF SentBefore, TypeOK
<1> QED  BY <1>1, <1>2, <1>3, <1>4, <1>5, <1>6

LEMMA StepInv == IInv /\ [Next]_vars => IInv'
BY StreamInv, SettleInv, CallerInv, CacheInv DEF Next

LEMMA Invariance == Spec => []IInv
BY InitInv, StepInv, PTL DEF Spec

(***************************************************************************)
(* Every variable of the response cache keeps its type, and no armed timer *)
(* keeps a record reachable that the cache has dropped.                    *)
(***************************************************************************)
THEOREM TimersAreOwned == Spec => []Inv
BY Invariance, PTL DEF IInv, Inv

-----------------------------------------------------------------------------
(***************************************************************************)
(* Refinement: the cache implements the abstract Receipts.  The lemmas     *)
(* relate the abstract variables before and after a step of each kind.     *)
(***************************************************************************)
Age == [s \in Streams |-> AgeOf(s)]
Seen == {s \in Streams : stream[s] = "retained"}
Late == {s \in Streams : Expired(s)}
Bytes == {s \in Streams : captured[s]}
Asking == [s \in Streams |-> {l \in Lookups : outcome[s][l] = "running"}]
Verdict == [s \in Streams |-> VerdictOf(s)]

LEMMA InitRefines == Init => Promise!Init
BY JsReceiptsAssumption DEF Init, Promise!Init, VerdictOf, AgeOf, Expired

LEMMA SameVerdict ==
    ASSUME \A s \in Streams, l \in Lookups :
               \A v \in Terminal : outcome'[s][l] = v <=> outcome[s][l] = v
    PROVE  Verdict' = Verdict
BY DEF Verdict, VerdictOf, Terminal

LEMMA SameVerification ==
    ASSUME UNCHANGED verifyVars
    PROVE  Bytes' = Bytes /\ Asking' = Asking /\ Verdict' = Verdict
BY SameVerdict DEF Bytes, Asking, verifyVars

LEMMA SameCalls ==
    ASSUME UNCHANGED <<stream, sentGeneration, generation>>
    PROVE  Age' = Age /\ Seen' = Seen
BY DEF Age, AgeOf, Seen

LEMMA SameLate ==
    ASSUME UNCHANGED <<expiresAt, clock>>
    PROVE  Late' = Late
BY DEF Late, Expired

LEMMA StutterRefines ==
    ASSUME responses' = responses, Age' = Age, Seen' = Seen, Late' = Late,
           Bytes' = Bytes, Asking' = Asking, Verdict' = Verdict
    PROVE  UNCHANGED Promise!vars
BY DEF Promise!vars, Promise!retention, Promise!verification, Age, Seen,
       Late, Bytes, Asking, Verdict

LEMMA LapseRefines ==
    ASSUME NEW more \in SUBSET Seen, Late' = Late \cup more,
           responses' = responses, Age' = Age, Seen' = Seen,
           Bytes' = Bytes, Asking' = Asking, Verdict' = Verdict
    PROVE  Promise!Lapse
BY DEF Promise!Lapse, Promise!verification, Age, Seen, Late, Bytes, Asking,
       Verdict

(***************************************************************************)
(* A step that drops at most one record, which has expired.                *)
(***************************************************************************)
LEMMA DropOne ==
    ASSUME IInv, NEW id \in Ids, NEW new,
           \/ new = responses
           \/ Stale(id) /\ new = [responses EXCEPT ![id] = None]
    PROVE  \E gone \in SUBSET Promise!Lapsed : new = Promise!Without(gone)
<1> USE DEF IInv
<1>1. CASE new = responses
  <2>1. responses = Promise!Without({})
    BY DEF Promise!Without, TypeOK
  <2>2. {} \in SUBSET Promise!Lapsed
    OBVIOUS
  <2> QED  BY <1>1, <2>1, <2>2
<1>2. CASE Stale(id) /\ new = [responses EXCEPT ![id] = None]
  <2>1. {id} \in SUBSET Promise!Lapsed
    BY <1>2 DEF Promise!Lapsed, Stale, TypeOK
  <2>2. new = Promise!Without({id})
    BY <1>2 DEF Promise!Without, TypeOK
  <2> QED  BY <2>1, <2>2
<1> QED  BY <1>1, <1>2

LEMMA DropRefines ==
    ASSUME IInv, NEW id \in Ids,
           \/ responses' = responses
           \/ Stale(id) /\ responses' = [responses EXCEPT ![id] = None],
           Age' = Age, Seen' = Seen, Late' = Late, UNCHANGED verifyVars
    PROVE  Promise!Drop
<1>1. \E gone \in SUBSET Promise!Lapsed : responses' = Promise!Without(gone)
  BY DropOne
<1> QED
  BY <1>1, SameVerification
     DEF Promise!Drop, Promise!verification, Age, Seen, Late, Bytes, Asking,
         Verdict

-----------------------------------------------------------------------------
(***************************************************************************)
(* Inference calls.                                                        *)
(***************************************************************************)
LEMMA SendRefines ==
    ASSUME IInv, NEW s \in Streams, Send(s)
    PROVE  Promise!Send(s)
<1> USE DEF IInv, Send, expiryVars
<1>1. Bytes' = Bytes /\ Asking' = Asking /\ Verdict' = Verdict
  BY SameVerification
<1>2. Seen' = Seen /\ Late' = Late
  BY SameLate DEF Seen, TypeOK
<1>3. Age[s] = "unsent" /\ Age' = [Age EXCEPT ![s] = "current"]
  BY DEF Age, AgeOf, TypeOK
<1>4. Age' \in {[Age EXCEPT ![s] = a] : a \in {"current", "fenced"}}
  BY <1>3
<1> QED
  BY <1>1, <1>2, <1>3, <1>4
     DEF Promise!Send, Promise!verification, Age, Seen, Late, Bytes, Asking,
         Verdict

LEMMA UnretainedRefines ==
    ASSUME IInv, NEW s \in Streams,
           NEW x \in {"unretained", "duplicate"},
           stream[s] = "open", stream' = [stream EXCEPT ![s] = x],
           UNCHANGED <<clock, generation, responses, sentGeneration,
                       expiryVars, verifyVars>>
    PROVE  UNCHANGED Promise!vars
<1> USE DEF IInv, expiryVars
<1>1. Age' = Age /\ Seen' = Seen
  BY DEF Age, AgeOf, Seen, TypeOK
<1> QED  BY <1>1, SameVerification, SameLate, StutterRefines

LEMMA BodyRefines ==
    ASSUME IInv, NEW s \in Streams, BodyCompletes(s) \/ BodyFails(s)
    PROVE  UNCHANGED Promise!vars
<1>1. UNCHANGED <<clock, generation, responses, sentGeneration, expiryVars,
                  verifyVars>>
  BY DEF BodyCompletes, BodyFails
<1>2. CASE stream[s] = "open" /\ BodyFails(s)
  BY <1>1, <1>2, UnretainedRefines DEF BodyFails
<1>3. CASE ~(stream[s] = "open" /\ BodyFails(s))
  <2>1. stream' = stream
    BY <1>3 DEF BodyCompletes, BodyFails, IInv, TypeOK
  <2> QED
    BY <1>1, <2>1, SameCalls, SameVerification, SameLate, StutterRefines
       DEF expiryVars
<1> QED  BY <1>2, <1>3

LEMMA RetainRefines ==
    ASSUME IInv, NEW s \in Streams, NEW id \in Ids, RegisterNew(s, id)
    PROVE  Promise!Retain(s, id)
<1> USE DEF IInv, RegisterNew
<1>1. PICK gone \in SUBSET Promise!Lapsed : Purged(id) = Promise!Without(gone)
  BY DropOne DEF Purged
<1>2. /\ Promise!Without(gone)[id] = None
      /\ responses' = [Promise!Without(gone) EXCEPT ![id] = s]
  BY <1>1 DEF Purged, Present, Stale, TypeOK
<1>3. Seen' = Seen \cup {s} /\ s \notin Seen
  BY DEF Seen, TypeOK
<1>4. Bytes' = Bytes \cup {s}
  BY DEF Bytes, TypeOK
<1>5. Asking' = Asking /\ Verdict' = Verdict /\ Late' = Late
  BY SameVerdict, SameLate DEF Asking
<1>6. Age[s] = "current" /\ Age' = Age
  BY DEF Age, AgeOf, Fenced, TypeOK
<1> QED
  BY <1>2, <1>3, <1>4, <1>5, <1>6
     DEF Promise!Retain, Age, Seen, Late, Bytes, Asking, Verdict

LEMMA ExpireRefines ==
    ASSUME IInv, NEW s \in Streams, Expire(s)
    PROVE  Promise!Lapse
<1> USE DEF IInv, Expire, Due, streamVars
<1>1. s \in Seen /\ s \notin Late
  BY DEF Seen, Late, Expired, ExpiryOK
<1>2. \A t \in Streams \ {s} : t \in Late' <=> t \in Late
  BY DEF Late, Expired, TypeOK
<1>3. Late' = Late \cup (Late' \cap {s}) /\ Late' \cap {s} \in SUBSET Seen
  BY <1>1, <1>2 DEF Late
<1> QED  BY <1>3, SameCalls, SameVerification, LapseRefines

LEMMA ReleaseRefines ==
    ASSUME IInv, NEW s \in Streams, Release(s)
    PROVE  Promise!Drop
<1> USE DEF IInv, Release, streamVars
<1>1. idOf[s] \in Ids /\ responses[idOf[s]] = s
  BY DEF NoStrayTimers, Owns, RecordOK, ExpiryOK
<1>2. \/ responses' = responses
      \/ /\ Stale(idOf[s])
         /\ responses' = [responses EXCEPT ![idOf[s]] = None]
  BY <1>1, JsReceiptsAssumption DEF Stale
<1> QED  BY <1>1, <1>2, SameCalls, SameLate, DropRefines

LEMMA StreamRefines ==
    ASSUME IInv, NEW s \in Streams, StreamStep(s)
    PROVE  Promise!Next \/ UNCHANGED Promise!vars
<1>1. CASE Abandon(s) \/ RegisterNothing(s)
  BY <1>1, UnretainedRefines DEF Abandon, RegisterNothing
<1>2. ASSUME NEW id \in Ids, RegisterDuplicate(s, id)
      PROVE  UNCHANGED Promise!vars
  BY <1>2, UnretainedRefines DEF RegisterDuplicate
<1>3. ASSUME NEW id \in Ids, RegisterNew(s, id) PROVE Promise!Next
  BY <1>3, RetainRefines DEF Promise!Next
<1>4. CASE Send(s) \/ Expire(s) \/ Release(s)
  BY <1>4, SendRefines, ExpireRefines, ReleaseRefines DEF Promise!Next
<1> QED  BY <1>1, <1>2, <1>3, <1>4, BodyRefines DEF StreamStep, Register

-----------------------------------------------------------------------------
(***************************************************************************)
(* Verification.  A lookup that runs or has decided is the installed one,  *)
(* so a record without an installed lookup is neither asking nor decided.  *)
(***************************************************************************)
LEMMA StartRefines ==
    ASSUME IInv, NEW c \in Callers, NEW id \in Ids, Start(c, id),
           NEW s \in Streams, s = responses[id]
    PROVE  \E l \in Lookups : Promise!Ask(s, l)
<1> USE DEF IInv, Start, Verifiable, NeedsLookup, streamVars, expiryVars
<1>1. s \in Bytes
  BY DEF Bytes
<1>2. PICK l \in Unused(s) : outcome' = [outcome EXCEPT ![s][l] = "running"]
  OBVIOUS
<1>3. \A k \in Lookups : outcome[s][k] \notin Terminal \cup {"running"}
  BY JsReceiptsAssumption DEF Installed
<1>4. Verdict[s] = "undecided" /\ Asking[s] = {}
  BY <1>3 DEF Verdict, VerdictOf, Asking, Terminal
<1>5. Asking' = [Asking EXCEPT ![s] = {l}]
  <2>1. Asking'[s] = {l}
    BY <1>2, <1>3 DEF Asking, Unused, TypeOK
  <2>2. \A t \in Streams \ {s} : Asking'[t] = Asking[t]
    BY <1>2 DEF Asking, TypeOK
  <2> QED  BY <2>1, <2>2 DEF Asking
<1>6. Verdict' = Verdict
  <2>1. \A t \in Streams, k \in Lookups :
            \A v \in Terminal : outcome'[t][k] = v <=> outcome[t][k] = v
    BY <1>2 DEF Unused, TypeOK, Terminal
  <2> QED  BY <2>1, SameVerdict
<1>7. Age' = Age /\ Seen' = Seen /\ Late' = Late
  BY SameCalls, SameLate
<1>8. Bytes' = Bytes /\ responses' = responses
  BY DEF Bytes
<1>9. Promise!Ask(s, l)
  BY <1>1, <1>4, <1>5, <1>6, <1>7, <1>8
     DEF Promise!Ask, Promise!retention, Age, Seen, Late, Bytes, Asking,
         Verdict
<1> QED  BY <1>2, <1>9 DEF Unused

LEMMA CallerRefines ==
    ASSUME IInv, NEW c \in Callers, CallerStep(c)
    PROVE  Promise!Next \/ UNCHANGED Promise!vars
<1> USE DEF streamVars, expiryVars
<1>1. ASSUME NEW id \in Ids, Start(c, id) PROVE Promise!Next
  <2>1. PICK s \in Streams : s = responses[id]
    BY <1>1 DEF Start, Verifiable, Present, IInv, TypeOK
  <2> QED  BY <1>1, <2>1, StartRefines DEF Promise!Next
<1>2. ASSUME NEW id \in Ids, NotFound(c, id) PROVE Promise!Next
  <2>1. Promise!Drop
    BY <1>2, SameCalls, SameLate, DropRefines DEF NotFound, Purged
  <2> QED  BY <2>1 DEF Promise!Next
<1>3. ASSUME Receive(c) \/ \E id \in Ids : Join(c, id)
      PROVE  UNCHANGED Promise!vars
  <2>1. UNCHANGED <<clock, generation, responses, streamVars, expiryVars,
                    verifyVars>>
    BY <1>3 DEF Join, Receive
  <2> QED
    BY <2>1, SameCalls, SameLate, SameVerification, StutterRefines
<1> QED  BY <1>1, <1>2, <1>3 DEF CallerStep

LEMMA SettleRefines ==
    ASSUME IInv, NEW s \in Streams, NEW l \in Lookups, Settle(s, l)
    PROVE  Promise!Retry(s) \/ Promise!Decide(s)
<1> USE DEF IInv, Settle, streamVars, expiryVars
<1>1. PICK o \in Verdicts(s) :
         /\ outcome' = [outcome EXCEPT ![s][l] = o]
         /\ captured' = [captured EXCEPT ![s] = IF Releases(o) THEN FALSE ELSE @]
  OBVIOUS
<1>2. \A k \in Lookups \ {l} : outcome[s][k] \notin Terminal \cup {"running"}
  BY DEF Installed
<1>3. Asking[s] # {} /\ Asking' = [Asking EXCEPT ![s] = {}]
  <2>1. l \in Asking[s]
    BY DEF Asking
  <2>2. Asking'[s] = {}
    BY <1>1, <1>2 DEF Asking, TypeOK, Terminal, Verdicts
  <2>3. \A t \in Streams \ {s} : Asking'[t] = Asking[t]
    BY <1>1 DEF Asking, TypeOK
  <2> QED  BY <2>1, <2>2, <2>3 DEF Asking
<1>4. Age' = Age /\ Seen' = Seen /\ Late' = Late /\ responses' = responses
  BY SameCalls, SameLate
<1>5. CASE o = "retryable"
  <2>1. \A t \in Streams, k \in Lookups :
            \A v \in Terminal : outcome'[t][k] = v <=> outcome[t][k] = v
    BY <1>1, <1>5 DEF TypeOK, Terminal
  <2>2. Verdict' = Verdict
    BY <2>1, SameVerdict
  <2>3. Bytes' = Bytes
    BY <1>1, <1>5 DEF Bytes, Releases, TypeOK
  <2> QED
    BY <1>3, <1>4, <2>2, <2>3
       DEF Promise!Retry, Promise!retention, Age, Seen, Late, Bytes, Asking,
           Verdict
<1>6. CASE o \in Terminal
  <2>1. VerdictOf(s)' = o
    BY <1>1, <1>2, <1>6 DEF VerdictOf, Terminal, TypeOK
  <2>2. \A t \in Streams \ {s} : VerdictOf(t)' = VerdictOf(t)
    BY <1>1 DEF VerdictOf, TypeOK
  <2>3. Verdict' = [Verdict EXCEPT ![s] = o]
    BY <2>1, <2>2 DEF Verdict
  <2>4. Verdict' \in {[Verdict EXCEPT ![s] = v] :
                          v \in {"ok", "failed", "cancelled"}}
    BY <1>6, <2>3 DEF Terminal
  <2>5. Bytes' \in {Bytes, Bytes \ {s}}
    BY <1>1 DEF Bytes, TypeOK
  <2> QED
    BY <1>3, <1>4, <2>4, <2>5
       DEF Promise!Decide, Promise!retention, Age, Seen, Late, Bytes, Asking,
           Verdict
<1> QED  BY <1>1, <1>5, <1>6 DEF Verdicts, Terminal

-----------------------------------------------------------------------------
(***************************************************************************)
(* The cache as a whole.  A clear fences every call sent so far because no *)
(* call has read a generation that is still to come.                       *)
(***************************************************************************)
LEMMA ClearRefines == IInv /\ ClearResponseCache => Promise!Clear
<1> SUFFICES ASSUME IInv, ClearResponseCache PROVE Promise!Clear
  OBVIOUS
<1> USE DEF IInv, ClearResponseCache, streamVars
<1>1. Seen' = Seen /\ Late' = Late
  BY SameLate DEF Seen
<1>2. Age' = [s \in Streams |->
                 IF Age[s] = "current" THEN "fenced" ELSE Age[s]]
  BY JsReceiptsAssumption DEF Age, AgeOf, SentBefore, TypeOK
<1> QED
  BY <1>1, <1>2, SameVerification
     DEF Promise!Clear, Promise!verification, Age, Seen, Late, Bytes, Asking,
         Verdict

LEMMA TickRefines == IInv /\ Tick => Promise!Lapse
<1> SUFFICES ASSUME IInv, Tick PROVE Promise!Lapse
  OBVIOUS
<1> USE DEF IInv, Tick, streamVars, expiryVars
<1>1. expiresAt' = expiresAt /\ clock' = clock + 1 /\ clock \in Nat
  BY JsReceiptsAssumption DEF TypeOK
<1>2. \A s \in Streams : expiresAt[s] \in Nat \cup {None}
  BY JsReceiptsAssumption DEF TypeOK
<1>3. Late \subseteq Late'
  BY <1>1, <1>2 DEF Late, Expired
<1>4. Late' \subseteq Seen
  BY <1>1 DEF Late, Expired, Seen, RecordOK, ExpiryOK
<1>5. Late' = Late \cup Late'
  BY <1>3
<1> QED  BY <1>4, <1>5, SameCalls, SameVerification, LapseRefines

(***************************************************************************)
(* Every behaviour of the JavaScript cache is one the abstract Receipts    *)
(* allow: one lookup per completion, bytes kept while one may need them, a *)
(* verdict that is final, and nothing retained across a clear.             *)
(***************************************************************************)
THEOREM RefinesReceipts == Spec => ImplementsReceipts
<1>1. IInv /\ [Next]_vars => [Promise!Next]_(Promise!vars)
  <2> SUFFICES ASSUME IInv, [Next]_vars
               PROVE  Promise!Next \/ UNCHANGED Promise!vars
    OBVIOUS
  <2>1. ASSUME NEW s \in Streams, NEW l \in Lookups, Settle(s, l)
        PROVE  Promise!Next
    BY <2>1, SettleRefines DEF Promise!Next
  <2>2. CASE ClearResponseCache \/ Tick
    BY <2>2, ClearRefines, TickRefines DEF Promise!Next
  <2>3. CASE UNCHANGED vars
    BY <2>3, SameCalls, SameLate, SameVerification, StutterRefines
       DEF vars, streamVars, expiryVars
  <2> QED  BY <2>1, <2>2, <2>3, StreamRefines, CallerRefines DEF Next
<1> QED
  BY <1>1, InitRefines, Invariance, PTL
     DEF Spec, Promise!Spec, ImplementsReceipts
=============================================================================
