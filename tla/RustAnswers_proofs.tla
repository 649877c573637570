------------------------- MODULE RustAnswers_proofs -------------------------
(***************************************************************************)
(* Proofs about the answers the Rust client gets: how it retains and       *)
(* verifies their receipts (RustReceipts), for any set of inference calls, *)
(* IDs, callers and lookups and any TTL, and how it reads those that are   *)
(* encapsulated (RustOhttp), for any requests, answers, cuts and bounds.   *)
(***************************************************************************)
EXTENDS RustReceipts, RustOhttp, SequenceTheorems, WellFoundedInduction, TLAPS

-----------------------------------------------------------------------------
(***************************************************************************)
(* Retained responses (RustReceipts).                                      *)
(*                                                                         *)
(* None of the safety invariants is inductive by itself.  What the code    *)
(* maintains is that a lookup which is outstanding or terminal is the one  *)
(* installed in its record (Installed), that a record without an installed *)
(* lookup has its bytes (RecordOK), and that every caller inside           *)
(* verify_response holds a record of that kind (CallerOK).                 *)
(***************************************************************************)
CallerOK ==
    \A c \in Callers :
        /\ pc[c] # "idle" => rec[c] \in Streams /\ stream[rec[c]] = "retained"
        /\ pc[c] \in {"awaiting", "ready"} =>
               /\ fut[c] \in Lookups
               /\ outcome[rec[c]][fut[c]] # "unused"
        /\ pc[c] = "ready" => outcome[rec[c]][fut[c]] # "pending"

RecordOK ==
    \A s \in Streams :
        /\ stream[s] # "retained" =>
               /\ verification[s] = None
               /\ \A l \in Lookups : outcome[s][l] = "unused"
        /\ stream[s] = "retained" /\ verification[s] = None => captured[s]
        /\ verification[s] # None => outcome[s][verification[s]] # "unused"

Installed ==
    \A s \in Streams, l \in Lookups :
        outcome[s][l] \in Terminal \cup {"pending"} => verification[s] = l

RetainedOK ==
    \A id \in Ids : responses[id] # None => stream[responses[id]] = "retained"

IInv ==
    /\ TypeOK
    /\ CallerOK
    /\ RecordOK
    /\ Installed
    /\ RetainedOK
    /\ ReleasedOnlyWhenDecided
    /\ DecidedReleases
    /\ ClearFence

(***************************************************************************)
(* Pruning only ever removes entries.                                      *)
(***************************************************************************)
LEMMA PrunedOK ==
    ASSUME TypeOK
    PROVE  /\ Pruned \in [Ids -> Streams \cup {None}]
           /\ \A id \in Ids : Pruned[id] \in {None, responses[id]}
BY DEF Pruned, TypeOK

LEMMA InitType == Init => TypeOK
BY RustReceiptsAssumption
   DEF Init, TypeOK, StreamStates, Outcomes, Places

LEMMA StreamType ==
    ASSUME TypeOK, NEW s \in Streams, StreamStep(s)
    PROVE  TypeOK'
<1> USE RustReceiptsAssumption DEF TypeOK, StreamStates
<1>1. CASE Send(s)
  BY <1>1 DEF Send, recordVars, callerVars
<1>2. CASE Abandon(s)
  BY <1>2 DEF Abandon, recordVars, callerVars
<1>3. CASE RegisterNothing(s)
  BY <1>3, PrunedOK DEF RegisterNothing, recordVars, callerVars
<1>4. ASSUME NEW id \in Ids, RegisterDuplicate(s, id) PROVE TypeOK'
  BY <1>4, PrunedOK DEF RegisterDuplicate, recordVars, callerVars
<1>5. ASSUME NEW id \in Ids, RegisterNew(s, id) PROVE TypeOK'
  BY <1>5, PrunedOK DEF RegisterNew, FinishTime, callerVars
<1> QED  BY <1>1, <1>2, <1>3, <1>4, <1>5 DEF StreamStep, Register

LEMMA CallerType ==
    ASSUME TypeOK, CallerOK, NEW c \in Callers, CallerStep(c)
    PROVE  TypeOK'
<1> USE RustReceiptsAssumption DEF TypeOK, CallerOK, Places, Outcomes, Terminal
<1>1. ASSUME NEW id \in Ids, Lookup(c, id) PROVE TypeOK'
  BY <1>1, PrunedOK DEF Lookup, streamVars, recordVars
<1>2. CASE Start(c)
  BY <1>2 DEF Start, Unused, streamVars
<1>3. CASE Join(c)
  BY <1>3 DEF Join, NeedsLookup, streamVars, recordVars
<1>4. CASE Drive(c)
  BY <1>4 DEF Drive, streamVars
<1>5. CASE Observe(c)
  BY <1>5 DEF Observe, streamVars, recordVars
<1>6. CASE Settle(c)
  BY <1>6 DEF Settle, Return, streamVars
<1>7. CASE Cancel(c)
  BY <1>7 DEF Cancel, Return, streamVars, recordVars
<1> QED
  BY <1>1, <1>2, <1>3, <1>4, <1>5, <1>6, <1>7 DEF CallerStep, Advance

-----------------------------------------------------------------------------
(***************************************************************************)
(* Retention.  Pruning and registering touch neither callers nor lookups,  *)
(* so the record a caller holds stays as it was after it left the cache.   *)
(***************************************************************************)
LEMMA StreamInv ==
    ASSUME IInv, NEW s \in Streams, StreamStep(s)
    PROVE  IInv'
<1> USE DEF IInv
<1>1. TypeOK'
  BY StreamType
<1>2. CASE Send(s)
  BY <1>1, <1>2 DEF Send, recordVars, callerVars, TypeOK, CallerOK, RecordOK,
     Installed, RetainedOK, ReleasedOnlyWhenDecided, DecidedReleases, ClearFence
<1>3. CASE Abandon(s)
  BY <1>1, <1>3 DEF Abandon, recordVars, callerVars, TypeOK, CallerOK, RecordOK,
     Installed, RetainedOK, ReleasedOnlyWhenDecided, DecidedReleases, ClearFence
<1>4. CASE RegisterNothing(s)
  BY <1>1, <1>4, PrunedOK
     DEF RegisterNothing, recordVars, callerVars, TypeOK, CallerOK, RecordOK,
     Installed, RetainedOK, ReleasedOnlyWhenDecided, DecidedReleases, ClearFence
<1>5. ASSUME NEW id \in Ids, RegisterDuplicate(s, id) PROVE IInv'
  BY <1>1, <1>5, PrunedOK
     DEF RegisterDuplicate, recordVars, callerVars, TypeOK, CallerOK, RecordOK,
     Installed, RetainedOK, ReleasedOnlyWhenDecided, DecidedReleases, ClearFence
<1>6. ASSUME NEW id \in Ids, RegisterNew(s, id) PROVE IInv'
  <2> USE <1>6, RustReceiptsAssumption DEF RegisterNew, callerVars, TypeOK
  <2>1. CallerOK' /\ RecordOK' /\ Installed'
    BY DEF CallerOK, RecordOK, Installed
  <2>2. RetainedOK' /\ ClearFence'
    BY PrunedOK DEF RetainedOK, ClearFence, Fenced
  <2>3. ReleasedOnlyWhenDecided' /\ DecidedReleases'
    BY DEF RecordOK, ReleasedOnlyWhenDecided, DecidedReleases, Terminal
  <2> QED  BY <1>1, <2>1, <2>2, <2>3
<1> QED  BY <1>2, <1>3, <1>4, <1>5, <1>6 DEF StreamStep, Register

-----------------------------------------------------------------------------
(***************************************************************************)
(* Verification.                                                           *)
(***************************************************************************)
LEMMA CallerInv ==
    ASSUME IInv, NEW c \in Callers, CallerStep(c)
    PROVE  IInv'
<1> USE RustReceiptsAssumption DEF IInv
<1>1. TypeOK'
  BY CallerType
<1>2. ASSUME NEW id \in Ids, Lookup(c, id) PROVE IInv'
  <2> USE <1>2, PrunedOK DEF Lookup, streamVars, recordVars, TypeOK
  <2>1. CallerOK'
    BY DEF CallerOK, RetainedOK
  <2>2. RecordOK' /\ Installed' /\ RetainedOK' /\ ReleasedOnlyWhenDecided'
    BY DEF RecordOK, Installed, RetainedOK, ReleasedOnlyWhenDecided
  <2>3. DecidedReleases' /\ ClearFence'
    BY DEF DecidedReleases, ClearFence
  <2> QED  BY <1>1, <2>1, <2>2, <2>3
<1>3. CASE Start(c)
  <2> USE <1>3 DEF Start, NeedsLookup, Unused, streamVars, TypeOK
  <2>1. CallerOK' /\ RecordOK'
    BY DEF CallerOK, RecordOK
  <2>2. Installed' /\ ReleasedOnlyWhenDecided' /\ DecidedReleases'
    BY DEF CallerOK, Installed, ReleasedOnlyWhenDecided, DecidedReleases,
           Terminal
  <2>3. RetainedOK' /\ ClearFence'
    BY DEF RetainedOK, ClearFence
  <2> QED  BY <1>1, <2>1, <2>2, <2>3
<1>4. CASE Join(c)
  <2> USE <1>4 DEF Join, NeedsLookup, streamVars, recordVars, TypeOK
  <2>1. CallerOK' /\ RecordOK' /\ Installed'
    BY DEF CallerOK, RecordOK, Installed
  <2>2. ReleasedOnlyWhenDecided' /\ DecidedReleases'
    BY DEF ReleasedOnlyWhenDecided, DecidedReleases
  <2>3. RetainedOK' /\ ClearFence'
    BY DEF RetainedOK, ClearFence
  <2> QED  BY <1>1, <2>1, <2>2, <2>3
<1>5. CASE Drive(c)
  <2> USE <1>5 DEF Drive, streamVars, TypeOK, Terminal
  <2>1. CallerOK' /\ RecordOK' /\ Installed'
    BY DEF CallerOK, RecordOK, Installed
  <2>2. ReleasedOnlyWhenDecided' /\ DecidedReleases'
    BY DEF CallerOK, ReleasedOnlyWhenDecided, DecidedReleases
  <2>3. RetainedOK' /\ ClearFence'
    BY DEF RetainedOK, ClearFence
  <2> QED  BY <1>1, <2>1, <2>2, <2>3
<1>6. CASE Observe(c)
  <2> USE <1>6 DEF Observe, Woken, streamVars, recordVars, TypeOK
  <2>1. CallerOK' /\ RecordOK' /\ Installed'
    BY DEF CallerOK, RecordOK, Installed
  <2>2. ReleasedOnlyWhenDecided' /\ DecidedReleases'
    BY DEF ReleasedOnlyWhenDecided, DecidedReleases
  <2>3. RetainedOK' /\ ClearFence'
    BY DEF RetainedOK, ClearFence
  <2> QED  BY <1>1, <2>1, <2>2, <2>3
<1>7. CASE Settle(c)
  <2> USE <1>7 DEF Settle, Current, Releases, Return, streamVars, TypeOK
  <2>1. CallerOK'
    BY DEF CallerOK
  <2>2. RecordOK'
    BY DEF CallerOK, RecordOK, ReleasedOnlyWhenDecided, Terminal
  <2>3. Installed'
    BY DEF CallerOK, Installed, Terminal
  <2>4. ReleasedOnlyWhenDecided' /\ DecidedReleases'
    BY DEF CallerOK, Installed, Outcomes, Terminal, ReleasedOnlyWhenDecided,
           DecidedReleases
  <2>5. RetainedOK' /\ ClearFence'
    BY DEF RetainedOK, ClearFence
  <2> QED  BY <1>1, <2>1, <2>2, <2>3, <2>4, <2>5
<1>8. CASE Cancel(c)
  <2> USE <1>8 DEF Cancel, Cancellable, Return, streamVars, recordVars, TypeOK
  <2>1. CallerOK' /\ RecordOK' /\ Installed'
    BY DEF CallerOK, RecordOK, Installed
  <2>2. ReleasedOnlyWhenDecided' /\ DecidedReleases'
    BY DEF ReleasedOnlyWhenDecided, DecidedReleases
  <2>3. RetainedOK' /\ ClearFence'
    BY DEF RetainedOK, ClearFence
  <2> QED  BY <1>1, <2>1, <2>2, <2>3
<1> QED
  BY <1>2, <1>3, <1>4, <1>5, <1>6, <1>7, <1>8 DEF CallerStep, Advance

LEMMA ClearInv == IInv /\ ClearResponseCache => IInv'
BY RustReceiptsAssumption
   DEF IInv, ClearResponseCache, streamVars, recordVars, callerVars, TypeOK,
   CallerOK, RecordOK, Installed, RetainedOK, ReleasedOnlyWhenDecided,
   DecidedReleases, ClearFence

LEMMA TickInv == IInv /\ Tick => IInv'
BY RustReceiptsAssumption
   DEF IInv, Tick, streamVars, recordVars, callerVars, TypeOK,
   CallerOK, RecordOK, Installed, RetainedOK, ReleasedOnlyWhenDecided,
   DecidedReleases, ClearFence

LEMMA StutterInv == IInv /\ UNCHANGED vars => IInv'
BY DEF IInv, vars, streamVars, recordVars, callerVars, TypeOK,
   CallerOK, RecordOK, Installed, RetainedOK, ReleasedOnlyWhenDecided,
   DecidedReleases, ClearFence

-----------------------------------------------------------------------------
LEMMA InitInv == Init => IInv
BY InitType
   DEF IInv, Init, CallerOK, RecordOK, Installed, RetainedOK,
       ReleasedOnlyWhenDecided, DecidedReleases, ClearFence, Terminal

LEMMA StepInv == IInv /\ [Next]_vars => IInv'
BY StreamInv, CallerInv, ClearInv, TickInv, StutterInv DEF Next

LEMMA Invariance == Spec => []IInv
BY InitInv, StepInv, PTL DEF Spec

(***************************************************************************)
(* Every variable of the response cache keeps its type.                    *)
(***************************************************************************)
THEOREM TypeCorrect == Spec => []TypeOK
BY Invariance, PTL DEF IInv

(***************************************************************************)
(* verify_response never reaches expect("unverified response bytes")       *)
(* without the bytes, however many callers share, retry and drop lookups.  *)
(***************************************************************************)
THEOREM NoMissingBytes == Spec => []CaptureAvailable
<1>1. IInv => CaptureAvailable
  BY DEF IInv, CallerOK, RecordOK, CaptureAvailable
<1> QED  BY <1>1, Invariance, PTL

(***************************************************************************)
(* At most one signature request per retained completion is outstanding.   *)
(***************************************************************************)
THEOREM SharedLookup == Spec => []SingleLookup
<1>1. IInv => SingleLookup
  BY DEF IInv, Installed, SingleLookup
<1> QED  BY <1>1, Invariance, PTL

(***************************************************************************)
(* No two callers are ever told different terminal results.                *)
(***************************************************************************)
THEOREM SingleVerdict == Spec => []OneVerdict
<1>1. IInv => OneVerdict
  BY DEF IInv, Installed, OneVerdict
<1> QED  BY <1>1, Invariance, PTL

(***************************************************************************)
(* Bytes are released only after a terminal result, and a terminal result  *)
(* always leads a caller to release them: cancellation cannot come between. *)
(***************************************************************************)
THEOREM ReleaseDiscipline == Spec => [](ReleasedOnlyWhenDecided /\ DecidedReleases)
BY Invariance, PTL DEF IInv

(***************************************************************************)
(* A completion sent before clear_response_cache never enters the cleared  *)
(* cache.                                                                  *)
(***************************************************************************)
THEOREM ClearIsFinal == Spec => []ClearFence
BY Invariance, PTL DEF IInv

-----------------------------------------------------------------------------
(***************************************************************************)
(* The only step that puts another completion under an ID is a register    *)
(* that found the ID free after pruning.                                   *)
(***************************************************************************)
LEMMA StepKeeps ==
    ASSUME TypeOK, [Next]_vars, NEW id \in Ids,
           responses[id] # None, responses'[id] # None,
           responses[id] # responses'[id]
    PROVE  ~Unexpired(responses[id])
<1> USE DEF TypeOK
<1>1. ASSUME NEW s \in Streams, StreamStep(s) PROVE ~Unexpired(responses[id])
  BY <1>1, PrunedOK
     DEF StreamStep, Register, Send, Abandon, RegisterNothing,
         RegisterDuplicate, RegisterNew, Taken, Pruned
<1>2. ASSUME NEW c \in Callers, CallerStep(c) PROVE FALSE
  BY <1>2, PrunedOK
     DEF CallerStep, Lookup, Advance, Start, Join, Drive, Observe, Settle,
         Cancel
<1>3. ~ClearResponseCache /\ ~Tick /\ ~UNCHANGED vars
  BY DEF ClearResponseCache, Tick, vars
<1> QED  BY <1>1, <1>2, <1>3 DEF Next

(***************************************************************************)
(* A retained completion is never displaced before its TTL.                *)
(***************************************************************************)
THEOREM KeepsUnexpired == Spec => NeverDisplaced
<1>1. TypeOK /\ [Next]_vars =>
        [\A id \in Ids :
            LET old == responses[id]
                new == responses'[id]
            IN (old # None /\ new # None /\ old # new) => ~Unexpired(old)]_vars
  BY StepKeeps
<1> QED  BY <1>1, TypeCorrect, PTL DEF Spec, NeverDisplaced

-----------------------------------------------------------------------------
(***************************************************************************)
(* Refinement: the cache implements the abstract Receipts.  The lemmas     *)
(* relate the abstract variables before and after a step of each kind.     *)
(***************************************************************************)
Age == [s \in Streams |-> AgeOf(s)]
Seen == {s \in Streams : stream[s] = "retained"}
Lapsed == {s \in Streams : stream[s] = "retained" /\ ~Unexpired(s)}
Bytes == {s \in Streams : captured[s]}
Asking == [s \in Streams |-> {l \in Lookups : outcome[s][l] = "pending"}]
Verdict == [s \in Streams |-> VerdictOf(s)]

LEMMA InitRefines == Init => Promise!Init
BY RustReceiptsAssumption
   DEF Init, Promise!Init, VerdictOf, AgeOf, StreamStates, Unexpired

(***************************************************************************)
(* A step that decides nothing leaves every verdict as it is.              *)
(***************************************************************************)
LEMMA SameVerdict ==
    ASSUME \A s \in Streams, l \in Lookups :
               \A v \in Terminal : outcome'[s][l] = v <=> outcome[s][l] = v
    PROVE  Verdict' = Verdict
BY DEF Verdict, VerdictOf, Terminal

LEMMA SameVerification ==
    ASSUME captured' = captured, outcome' = outcome
    PROVE  Bytes' = Bytes /\ Asking' = Asking /\ Verdict' = Verdict
BY SameVerdict DEF Bytes, Asking

LEMMA SameRetention ==
    ASSUME stream' = stream, sentGeneration' = sentGeneration,
           generation' = generation, finished' = finished, clock' = clock
    PROVE  Age' = Age /\ Seen' = Seen /\ Lapsed' = Lapsed
BY DEF Age, AgeOf, Seen, Lapsed, Unexpired

(***************************************************************************)
(* Pruning is a Drop: what it removes has lapsed.                          *)
(***************************************************************************)
LEMMA PrunedDrops ==
    ASSUME TypeOK, RetainedOK
    PROVE  \E gone \in SUBSET Promise!Lapsed : Pruned = Promise!Without(gone)
<1> DEFINE gone == {id \in Ids : Pruned[id] = None /\ responses[id] # None}
<1>1. gone \subseteq Promise!Lapsed
  BY DEF Promise!Lapsed, Pruned, TypeOK, RetainedOK
<1>2. Pruned = Promise!Without(gone)
  BY PrunedOK DEF Promise!Without, TypeOK
<1> QED  BY <1>1, <1>2

LEMMA DropRefines ==
    ASSUME TypeOK, RetainedOK, responses' \in {responses, Pruned},
           Age' = Age, Seen' = Seen, Lapsed' = Lapsed,
           Bytes' = Bytes, Asking' = Asking, Verdict' = Verdict
    PROVE  Promise!Drop
<1>1. responses = Promise!Without({})
  BY DEF Promise!Without, TypeOK
<1>2. \E gone \in SUBSET Promise!Lapsed : responses' = Promise!Without(gone)
  BY <1>1, PrunedDrops
<1> QED
  BY <1>2 DEF Promise!Drop, Promise!verification, Age, Seen, Lapsed, Bytes,
              Asking, Verdict

LEMMA StutterRefines ==
    ASSUME responses' = responses, Age' = Age, Seen' = Seen, Lapsed' = Lapsed,
           Bytes' = Bytes, Asking' = Asking, Verdict' = Verdict
    PROVE  UNCHANGED Promise!vars
BY DEF Promise!vars, Promise!retention, Promise!verification, Age, Seen,
       Lapsed, Bytes, Asking, Verdict

LEMMA SendRefines ==
    ASSUME IInv, NEW s \in Streams, Send(s)
    PROVE  Promise!Send(s)
<1> USE DEF IInv, Send, recordVars
<1>1. Bytes' = Bytes /\ Asking' = Asking /\ Verdict' = Verdict
  BY SameVerification
<1>2. Seen' = Seen /\ Lapsed' = Lapsed
  BY DEF Seen, Lapsed, Unexpired, TypeOK
<1>3. Age[s] = "unsent" /\ Age' = [Age EXCEPT ![s] = "current"]
  BY DEF Age, AgeOf, TypeOK
<1> QED
  BY <1>1, <1>2, <1>3
     DEF Promise!Send, Promise!verification, Age, Seen, Lapsed, Bytes, Asking,
         Verdict

(***************************************************************************)
(* A registration that does not retain, and an abandoned call.             *)
(***************************************************************************)
LEMMA UnretainedRefines ==
    ASSUME IInv, NEW s \in Streams, stream[s] = "open",
           \E why \in {"unretained", "duplicate"} :
               stream' = [stream EXCEPT ![s] = why],
           responses' \in {responses, Pruned},
           UNCHANGED <<clock, generation, sentGeneration, recordVars>>
    PROVE  Promise!Drop
<1> USE DEF IInv, recordVars
<1>1. Bytes' = Bytes /\ Asking' = Asking /\ Verdict' = Verdict
  BY SameVerification
<1>2. Seen' = Seen /\ Lapsed' = Lapsed
  BY DEF Seen, Lapsed, Unexpired, TypeOK
<1>3. Age' = Age
  BY DEF Age, AgeOf, TypeOK
<1> QED  BY <1>1, <1>2, <1>3, DropRefines

LEMMA RetainRefines ==
    ASSUME IInv, NEW s \in Streams, NEW id \in Ids, RegisterNew(s, id)
    PROVE  Promise!Retain(s, id)
<1> USE DEF IInv, RegisterNew
<1>1. PICK gone \in SUBSET Promise!Lapsed : Pruned = Promise!Without(gone)
  BY PrunedDrops
<1>2. /\ Promise!Without(gone)[id] = None
      /\ responses' = [Promise!Without(gone) EXCEPT ![id] = s]
  BY <1>1 DEF Taken
<1>3. Seen' = Seen \cup {s} /\ s \notin Seen
  BY DEF Seen, TypeOK
<1>4. Lapsed' = Lapsed
  BY RustReceiptsAssumption DEF Lapsed, Unexpired, FinishTime, TypeOK
<1>5. Bytes' = Bytes \cup {s}
  BY DEF Bytes, TypeOK
<1>6. Asking' = Asking /\ Verdict' = Verdict
  BY SameVerdict DEF Asking
<1>7. Age[s] = "current" /\ Age' = Age
  BY DEF Age, AgeOf, Fenced, TypeOK
<1> QED
  BY <1>2, <1>3, <1>4, <1>5, <1>6, <1>7
     DEF Promise!Retain, Age, Seen, Lapsed, Bytes, Asking, Verdict

LEMMA StreamRefines ==
    ASSUME IInv, NEW s \in Streams, StreamStep(s)
    PROVE  Promise!Next
<1>1. CASE Send(s)
  BY <1>1, SendRefines DEF Promise!Next
<1>2. CASE Abandon(s)
  BY <1>2, UnretainedRefines DEF Abandon, Promise!Next
<1>3. CASE RegisterNothing(s)
  BY <1>3, UnretainedRefines DEF RegisterNothing, Promise!Next
<1>4. ASSUME NEW id \in Ids, RegisterDuplicate(s, id) PROVE Promise!Next
  BY <1>4, UnretainedRefines DEF RegisterDuplicate, Promise!Next
<1>5. ASSUME NEW id \in Ids, RegisterNew(s, id) PROVE Promise!Next
  BY <1>5, RetainRefines DEF Promise!Next
<1> QED  BY <1>1, <1>2, <1>3, <1>4, <1>5 DEF StreamStep, Register

(***************************************************************************)
(* Verification.  An outstanding or terminal lookup is the installed one,  *)
(* so a record without an installed lookup is neither asking nor decided.  *)
(***************************************************************************)
LEMMA Undecided ==
    ASSUME IInv, NEW s \in Streams,
           \A l \in Lookups : outcome[s][l] \notin Terminal
    PROVE  Verdict[s] = "undecided"
BY DEF Verdict, VerdictOf, Terminal

LEMMA AskRefines ==
    ASSUME IInv, NEW c \in Callers, Start(c), NEW s \in Streams, s = rec[c]
    PROVE  \E l \in Lookups : Promise!Ask(s, l)
<1> USE DEF IInv, Start, NeedsLookup
<1>1. s \in Bytes
  BY DEF Bytes
<1>2. PICK l \in Unused(s) :
         /\ verification' = [verification EXCEPT ![s] = l]
         /\ outcome' = [outcome EXCEPT ![s][l] = "pending"]
  OBVIOUS
<1>3. \A k \in Lookups : outcome[s][k] \notin Terminal \cup {"pending"}
  BY <1>1, RustReceiptsAssumption DEF Installed
<1>4. Verdict[s] = "undecided" /\ Asking[s] = {}
  BY <1>1, <1>3, Undecided DEF Asking
<1>5. Asking' = [Asking EXCEPT ![s] = {l}]
  <2>1. Asking'[s] = {l}
    BY <1>2, <1>3 DEF Asking, Unused, TypeOK
  <2>2. \A t \in Streams \ {s} : Asking'[t] = Asking[t]
    BY <1>2 DEF Asking, TypeOK
  <2> QED  BY <2>1, <2>2 DEF Asking
<1>6. Verdict' = Verdict
  <2>1. \A t \in Streams, k \in Lookups :
            \A v \in Terminal : outcome'[t][k] = v <=> outcome[t][k] = v
    BY <1>1, <1>2 DEF Unused, TypeOK, Terminal
  <2> QED  BY <2>1, SameVerdict
<1>7. Age' = Age /\ Seen' = Seen /\ Lapsed' = Lapsed
  BY SameRetention DEF streamVars
<1>8. Bytes' = Bytes /\ responses' = responses
  BY DEF Bytes
<1>9. Promise!Ask(s, l)
  BY <1>1, <1>4, <1>5, <1>6, <1>7, <1>8
     DEF Promise!Ask, Promise!retention, Age, Seen, Lapsed, Bytes, Asking,
         Verdict
<1> QED  BY <1>1, <1>2, <1>9 DEF Unused

LEMMA DriveRefines ==
    ASSUME IInv, NEW c \in Callers, Drive(c), NEW s \in Streams, s = rec[c]
    PROVE  Promise!Retry(s) \/ Promise!Decide(s)
<1> DEFINE l == fut[c]
<1> USE DEF IInv, Drive
<1>1. l \in Lookups
  BY DEF CallerOK
<1>2. \A k \in Lookups \ {l} : outcome[s][k] \notin Terminal \cup {"pending"}
  BY <1>1 DEF Installed
<1>3. PICK o \in Terminal \cup {"retryable"} :
          outcome' = [outcome EXCEPT ![s][l] = o]
  OBVIOUS
<1>4. Asking[s] # {} /\ Asking' = [Asking EXCEPT ![s] = {}]
  <2>1. l \in Asking[s]
    BY <1>1 DEF Asking
  <2>2. Asking'[s] = {}
    BY <1>1, <1>2, <1>3 DEF Asking, TypeOK, Terminal
  <2>3. \A t \in Streams \ {s} : Asking'[t] = Asking[t]
    BY <1>3 DEF Asking, TypeOK
  <2>4. Asking = [t \in Streams |-> Asking[t]] /\ Asking' = [t \in Streams |-> Asking'[t]]
    BY DEF Asking
  <2> QED  BY <2>1, <2>2, <2>3, <2>4
<1>5. Age' = Age /\ Seen' = Seen /\ Lapsed' = Lapsed
  BY SameRetention DEF streamVars
<1>6. Bytes' = Bytes /\ responses' = responses
  BY DEF Bytes
<1>7. CASE o = "retryable"
  <2>1. \A t \in Streams, k \in Lookups :
            \A v \in Terminal : outcome'[t][k] = v <=> outcome[t][k] = v
    BY <1>1, <1>3, <1>7 DEF TypeOK, Terminal
  <2>2. Verdict' = Verdict
    BY <2>1, SameVerdict
  <2> QED
    BY <1>1, <1>4, <1>5, <1>6, <2>2
       DEF Promise!Retry, Promise!retention, Age, Seen, Lapsed, Bytes, Asking,
           Verdict
<1>8. CASE o \in Terminal
  <2>1. VerdictOf(s)' = o
    BY <1>1, <1>2, <1>3, <1>8 DEF VerdictOf, Terminal, TypeOK
  <2>2. \A t \in Streams \ {s} : VerdictOf(t)' = VerdictOf(t)
    BY <1>1, <1>3 DEF VerdictOf, TypeOK
  <2>3. Verdict' = [Verdict EXCEPT ![s] = o]
    BY <1>1, <2>1, <2>2 DEF Verdict
  <2>4. Verdict' \in {[Verdict EXCEPT ![s] = v] :
                          v \in {"ok", "failed", "cancelled"}}
    BY <1>8, <2>3 DEF Terminal
  <2>5. Bytes' \in {Bytes, Bytes \ {s}}
    BY <1>6
  <2> QED
    BY <1>4, <1>5, <1>6, <2>4, <2>5
       DEF Promise!Decide, Promise!retention, Age, Seen, Lapsed, Bytes, Asking,
           Verdict
<1> QED  BY <1>1, <1>3, <1>7, <1>8

LEMMA SettleRefines ==
    ASSUME IInv, NEW c \in Callers, Settle(c), NEW s \in Streams, s = rec[c]
    PROVE  Promise!Release(s) \/ UNCHANGED Promise!vars
<1> DEFINE o == outcome[s][fut[c]]
<1> USE DEF IInv, Settle
<1>1. fut[c] \in Lookups /\ o \in Terminal \cup {"retryable"}
  BY DEF CallerOK, TypeOK, Outcomes, Terminal
<1>2. Age' = Age /\ Seen' = Seen /\ Lapsed' = Lapsed
  BY SameRetention DEF streamVars
<1>3. Asking' = Asking /\ Verdict' = Verdict
  BY SameVerdict DEF Asking
<1>4. CASE Current(c) /\ Releases(o)
  <2>1. Bytes' = Bytes \ {s}
    BY <1>1, <1>4 DEF Bytes, TypeOK
  <2>2. Verdict[s] # "undecided"
    BY <1>1, <1>4 DEF Releases, Verdict, VerdictOf, Terminal
  <2> QED
    BY <1>1, <1>2, <1>3, <2>1, <2>2
       DEF Promise!Release, Promise!retention, Age, Seen, Lapsed, Bytes,
           Asking, Verdict
<1>5. CASE ~(Current(c) /\ Releases(o))
  <2>1. Bytes' = Bytes
    BY <1>5 DEF Bytes, TypeOK
  <2> QED  BY <1>1, <1>2, <1>3, <2>1, StutterRefines
<1> QED  BY <1>4, <1>5

LEMMA CallerRefines ==
    ASSUME IInv, NEW c \in Callers, CallerStep(c)
    PROVE  Promise!Next \/ UNCHANGED Promise!vars
<1>1. ASSUME NEW id \in Ids, Lookup(c, id) PROVE Promise!Next
  <2> USE <1>1 DEF Lookup, streamVars, recordVars
  <2>1. Age' = Age /\ Seen' = Seen /\ Lapsed' = Lapsed
    BY SameRetention
  <2>2. Bytes' = Bytes /\ Asking' = Asking /\ Verdict' = Verdict
    BY SameVerification
  <2> QED  BY <2>1, <2>2, DropRefines DEF IInv, Promise!Next
<1>2. ASSUME Start(c) \/ Drive(c) \/ Settle(c)
      PROVE  Promise!Next \/ UNCHANGED Promise!vars
  <2>1. PICK s \in Streams : s = rec[c]
    BY <1>2 DEF Start, Drive, Settle, IInv, CallerOK
  <2> QED
    BY <1>2, <2>1, AskRefines, DriveRefines, SettleRefines DEF Promise!Next
<1>3. CASE Join(c) \/ Observe(c) \/ Cancel(c)
  <2>1. /\ responses' = responses
        /\ UNCHANGED <<clock, generation, streamVars, recordVars>>
    BY <1>3 DEF Join, Observe, Cancel
  <2>2. Age' = Age /\ Seen' = Seen /\ Lapsed' = Lapsed
    BY <2>1, SameRetention DEF streamVars, recordVars
  <2>3. Bytes' = Bytes /\ Asking' = Asking /\ Verdict' = Verdict
    BY <2>1, SameVerification DEF recordVars
  <2> QED  BY <2>1, <2>2, <2>3, StutterRefines
<1> QED  BY <1>1, <1>2, <1>3 DEF CallerStep, Advance

-----------------------------------------------------------------------------
(***************************************************************************)
(* A clear fences every call sent so far because no call has read a        *)
(* generation that is still to come.                                       *)
(***************************************************************************)
SentBefore == \A s \in Streams : sentGeneration[s] <= generation

LEMMA SentBeforeStep == TypeOK /\ SentBefore /\ [Next]_vars => SentBefore'
<1> SUFFICES ASSUME TypeOK, SentBefore, [Next]_vars PROVE SentBefore'
  OBVIOUS
<1> USE DEF SentBefore, TypeOK
<1>1. ASSUME NEW s \in Streams, StreamStep(s) PROVE SentBefore'
  BY <1>1 DEF StreamStep, Register, Send, Abandon, RegisterNothing,
              RegisterDuplicate, RegisterNew
<1>2. ASSUME NEW c \in Callers, CallerStep(c) PROVE SentBefore'
  BY <1>2 DEF CallerStep, Lookup, Advance, Start, Join, Drive, Observe, Settle,
              Cancel, streamVars
<1>3. CASE ClearResponseCache
  BY <1>3, RustReceiptsAssumption DEF ClearResponseCache, streamVars
<1>4. CASE Tick \/ UNCHANGED vars
  BY <1>4 DEF Tick, vars, streamVars
<1> QED  BY <1>1, <1>2, <1>3, <1>4 DEF Next

LEMMA AlwaysSentBefore == Spec => []SentBefore
<1>1. Init => SentBefore
  <2> SUFFICES ASSUME Init, NEW s \in Streams
               PROVE  sentGeneration[s] <= generation
    BY DEF SentBefore
  <2>1. sentGeneration[s] = 0 /\ generation = 0
    BY DEF Init
  <2> QED  BY <2>1
<1> QED  BY <1>1, SentBeforeStep, TypeCorrect, PTL DEF Spec

LEMMA ClearRefines == IInv /\ SentBefore /\ ClearResponseCache => Promise!Clear
<1> SUFFICES ASSUME IInv, SentBefore, ClearResponseCache PROVE Promise!Clear
  OBVIOUS
<1> USE DEF IInv, ClearResponseCache, streamVars, recordVars
<1>1. Bytes' = Bytes /\ Asking' = Asking /\ Verdict' = Verdict
  BY SameVerification
<1>2. Seen' = Seen /\ Lapsed' = Lapsed
  BY DEF Seen, Lapsed, Unexpired
<1>3. Age' = [s \in Streams |->
                 IF Age[s] = "current" THEN "fenced" ELSE Age[s]]
  BY RustReceiptsAssumption DEF Age, AgeOf, SentBefore, TypeOK
<1> QED
  BY <1>1, <1>2, <1>3
     DEF Promise!Clear, Promise!verification, Age, Seen, Lapsed, Bytes, Asking,
         Verdict

LEMMA TickRefines == IInv /\ Tick => Promise!Lapse
<1> SUFFICES ASSUME IInv, Tick PROVE Promise!Lapse
  OBVIOUS
<1> USE DEF IInv, Tick, streamVars, recordVars
<1>1. Bytes' = Bytes /\ Asking' = Asking /\ Verdict' = Verdict
  BY SameVerification
<1>2. Age' = Age /\ Seen' = Seen
  BY DEF Age, AgeOf, Seen
<1>3. Lapsed \subseteq Lapsed' /\ Lapsed' \subseteq Seen
  BY RustReceiptsAssumption DEF Lapsed, Seen, Unexpired, TypeOK
<1>4. Lapsed' = Lapsed \cup Lapsed'
  BY <1>3
<1> QED
  BY <1>1, <1>2, <1>3, <1>4
     DEF Promise!Lapse, Promise!verification, Age, Seen, Lapsed, Bytes, Asking,
         Verdict

LEMMA StutterStepRefines == UNCHANGED vars => UNCHANGED Promise!vars
<1> SUFFICES ASSUME UNCHANGED vars PROVE UNCHANGED Promise!vars
  OBVIOUS
<1>1. UNCHANGED <<clock, generation, responses, streamVars, recordVars>>
  BY DEF vars
<1>2. Age' = Age /\ Seen' = Seen /\ Lapsed' = Lapsed
  BY <1>1, SameRetention DEF streamVars, recordVars
<1>3. Bytes' = Bytes /\ Asking' = Asking /\ Verdict' = Verdict
  BY <1>1, SameVerification DEF recordVars
<1> QED  BY <1>1, <1>2, <1>3, StutterRefines

(***************************************************************************)
(* Every behaviour of the cache is one the abstract Receipts allow.        *)
(***************************************************************************)
THEOREM RefinesReceipts == Spec => ImplementsReceipts
<1>1. IInv /\ SentBefore /\ [Next]_vars => [Promise!Next]_(Promise!vars)
  <2> SUFFICES ASSUME IInv, SentBefore, [Next]_vars
               PROVE  Promise!Next \/ UNCHANGED Promise!vars
    OBVIOUS
  <2>1. CASE ClearResponseCache
    BY <2>1, ClearRefines DEF Promise!Next
  <2>2. CASE Tick
    BY <2>2, TickRefines DEF Promise!Next
  <2> QED
    BY <2>1, <2>2, StreamRefines, CallerRefines, StutterStepRefines DEF Next
<1> QED
  BY <1>1, InitRefines, Invariance, AlwaysSentBefore, PTL
     DEF Spec, Promise!Spec, ImplementsReceipts

-----------------------------------------------------------------------------
(***************************************************************************)
(* The reader of encapsulated answers (RustOhttp).                         *)
(*                                                                         *)
(* The invariant says, at each place of the reader, which beginning of a   *)
(* whole message the cells so far are: some informational answers and a    *)
(* status, the fields of an open section behind them, the pieces of the    *)
(* content so far, the padding behind the trailers.  Each is a series of   *)
(* elements, so a turn that reads another element makes it a longer one,   *)
(* and the turn that closes a part makes the part a whole one.  An end is  *)
(* taken only where the rest of a whole message may be missing.            *)
(***************************************************************************)
(* Where the reader is in a message. *)

SectionSeries(counted) == {s \in Series({Empty}, FieldElements(counted), FieldsLimit) : Fits(s.says)}
PreambleSeries(counted) == Series(Framings(counted), Interims(counted), MaxInformational)
PieceSeries == Series({Empty}, Pieces, Limit)

\* Behind some cells, and so many fields of a section.
Reaches(cells, before, counted, list, size) ==
    \E b \in before : \E e \in SectionSeries(counted) :
        cells = b \o e.cells /\ e.says = list /\ e.counts = size /\ (size = 0 => e = Empty)

PreambleOf(counted, m) == CellsOf({p \in PreambleSeries(counted) : p.counts = m})
Headed(counted, code, list) ==
    Cat(Cat(Preambles[counted], Number(code)), CellsOf({s \in Sections[counted] : s.says = list}))

\* Between two pieces of the content, and inside of one.
InContent(cells, counted, code, list, none, content) ==
    \E h \in Headed(counted, code, list) : \E q \in PieceSeries :
        cells = h \o q.cells /\ q.says = content /\ (counted => none) /\ (none => q = Empty)
InPiece(cells, counted, code, list, left, content) ==
    \E h \in Headed(counted, code, list) : \E q \in PieceSeries : \E d \in Contents : \E n \in Number(Len(d) + left) :
        /\ cells = ((h \o q.cells) \o n) \o d /\ content = q.says \o d /\ Len(d) + left > 0
        /\ counted => q = Empty

Carrying(counted, free, code, content) ==
    Cat(Heads(counted, code, Len(content), free), Carried(counted, content))
Zeros(n) == [k \in 1..n |-> 0]
InPadding(cells, counted, free, code, content, size) ==
    \E t \in Cat(Carrying(counted, free, code, content), CellsOf(Sections[counted])) :
        \E k \in 0..(Limit - Len(content)) : cells = t \o Zeros(k) /\ size = Len(content) + k

Arrived(content) == total = Len(content) /\ delivered = IF NoBody THEN <<>> ELSE content

AtStart ==
    /\ reader \in {"ready", "sent", "framing"} => history = <<>> /\ informational = 0 /\ ~ended
    /\ reader \in {"ready", "sent", "framing", "status", "section"} => firstPiece /\ total = 0 /\ delivered = <<>>
    /\ reader = "status" /\ ~ended => history \in PreambleOf(known, informational)
AtSection ==
    reader = "section" =>
        /\ ~ended /\ status \in Informational \cup Final /\ (known => used = 0)
        /\ status \in Informational => informational >= 1
        /\ Reaches(history,
                   Cat(PreambleOf(known, IF status \in Informational THEN informational - 1 ELSE informational),
                       Number(status)), known, fields, used)
AtContent ==
    reader = "content" =>
        /\ status \in Final /\ LengthsAgree(fields)
        /\ IF ended THEN /\ firstPiece /\ total = 0 /\ delivered = <<>> /\ fields = <<>>
                         /\ history \in Cat(Preambles[known], Number(status))
           ELSE \E content \in Contents :
                    Arrived(content) /\ InContent(history, known, status, fields, firstPiece, content)
AtPiece ==
    reader \in {"piece", "counted"} =>
        /\ ~ended /\ ~firstPiece /\ status \in Final /\ LengthsAgree(fields)
        /\ IF reader = "piece" THEN remaining > 0 ELSE known /\ remaining = 0
        /\ \E content \in Contents :
               Arrived(content) /\ InPiece(history, known, status, fields, remaining, content)
AtTrailers ==
    reader = "trailers" =>
        /\ status \in Final /\ (known => used = 0)
        /\ \E content \in Contents :
               /\ Arrived(content)
               /\ IF ended THEN fields = <<>> /\ used = 0 /\ history \in WholeMessages(known, asked.head, status, content)
                  ELSE Reaches(history, Carrying(known, NoBody, status, content), known, fields, used)
AtPadding ==
    reader = "padding" =>
        /\ status \in Final
        /\ \E content \in Contents :
               /\ delivered = IF NoBody THEN <<>> ELSE content
               /\ IF ended THEN history \in WholeMessages(known, asked.head, status, content)
                  ELSE InPadding(history, known, NoBody, status, content, total)
ReaderTypes ==
    /\ asked \in OhttpRequests /\ history \in Seq(0..3 \cup ContentCells) /\ Len(history) <= MaxAnswer
    /\ {known, ended, firstPiece} \subseteq BOOLEAN
    /\ {informational, used, remaining, total} \subseteq Nat /\ informational <= MaxInformational
ReaderInv ==
    /\ ReaderTypes
    /\ AtStart /\ AtSection /\ AtContent /\ AtPiece /\ AtTrailers /\ AtPadding
    /\ CleanEndIsWhole

-----------------------------------------------------------------------------
(* Answers: series of elements. *)

LEMMA Induction ==
    ASSUME NEW n \in Nat, NEW T, 0 \in T, \A k \in 0..(n - 1) : k \in T => k + 1 \in T
    PROVE  \A k \in 0..n : k \in T
<1> DEFINE Bad == {k \in Nat : k <= n /\ k \notin T}
<1> SUFFICES ASSUME Bad # {} PROVE FALSE
  OBVIOUS
<1>1. PICK k \in Bad : \A j \in Bad : ~ (<<j, k>> \in OpToRel(<, Nat))
  BY NatLessThanWellFounded, WFMin, Bad \subseteq Nat
<1>2. k # 0
  OBVIOUS
<1>3. k - 1 \in Nat /\ k - 1 < k /\ k - 1 \in 0..(n - 1) /\ k \in Nat
  BY <1>2
<1>4. k - 1 \notin Bad
  BY <1>1, <1>3 DEF OpToRel
<1>5. k - 1 \in T
  BY <1>3, <1>4
<1>6. (k - 1) + 1 \in T
  BY <1>3, <1>5
<1> QED  BY <1>3, <1>6

ElementsOver(S, T) == [cells : Seq(S), says : Seq(T), counts : Nat]

\* One element more, while the limits allow it.
OneMore(A, elements, limit) == {Beside(p[1], p[2]) : p \in Joinable(A, elements, limit)}

SeriesRun(f, starts, elements, limit, n) ==
    f = [k \in 0..n |-> IF k = 0 THEN starts ELSE OneMore(f[k - 1], elements, limit)]

LEMMA SeriesRunExists ==
    ASSUME NEW starts, NEW elements, NEW limit, NEW n \in Nat
    PROVE  \E f : SeriesRun(f, starts, elements, limit, n)
<1> DEFINE Has(m) == \E f : SeriesRun(f, starts, elements, limit, m)
           T == {m \in Nat : Has(m)}
<1>1. 0 \in T
  <2> DEFINE g == [k \in 0..0 |-> starts]
  <2>1. SeriesRun(g, starts, elements, limit, 0)
    BY DEF SeriesRun
  <2> QED  BY <2>1
<1>2. ASSUME NEW m \in Nat, m \in T  PROVE m + 1 \in T
  <2>1. PICK f : SeriesRun(f, starts, elements, limit, m)
    BY <1>2
  <2>2. DOMAIN f = 0..m /\ \A k \in 0..m : f[k] = IF k = 0 THEN starts ELSE OneMore(f[k - 1], elements, limit)
    BY <2>1 DEF SeriesRun
  <2> DEFINE g == [k \in 0..(m + 1) |-> IF k <= m THEN f[k] ELSE OneMore(f[m], elements, limit)]
  <2>3. SeriesRun(g, starts, elements, limit, m + 1)
    <3> SUFFICES ASSUME NEW k \in 0..(m + 1)
                 PROVE  g[k] = IF k = 0 THEN starts ELSE OneMore(g[k - 1], elements, limit)
      BY DEF SeriesRun
    <3>1. CASE k = 0
      BY <2>2, <3>1
    <3>2. CASE k \in 1..m
      BY <2>2, <3>2
    <3>3. CASE k = m + 1
      BY <2>2, <3>3
    <3> QED  BY <3>1, <3>2, <3>3
  <2> HIDE DEF g
  <2>4. Has(m + 1)
    BY <2>3
  <2> QED  BY <2>4
<1> HIDE DEF T
<1>3. n \in T
  BY <1>1, <1>2, Induction
<1> QED  BY <1>3 DEF T

\* The members of a series, level by level.
Levels(f, starts, elements, limit) ==
    /\ f[0] = starts
    /\ \A k \in 0..(limit - 1) : f[k + 1] = OneMore(f[k], elements, limit)
    /\ Series(starts, elements, limit) = UNION {f[k] : k \in 0..limit}

LEMMA SeriesLevels ==
    ASSUME NEW starts, NEW elements, NEW limit \in Nat
    PROVE  \E f : Levels(f, starts, elements, limit)
<1> DEFINE f == CHOOSE g : SeriesRun(g, starts, elements, limit, limit)
<1>1. SeriesRun(f, starts, elements, limit, limit)
  BY SeriesRunExists
<1>2. Series(starts, elements, limit) = UNION {f[k] : k \in 0..limit}
  BY DEF Series, SeriesRun, OneMore
<1> HIDE DEF f
<1>3. \A k \in 0..limit : f[k] = IF k = 0 THEN starts ELSE OneMore(f[k - 1], elements, limit)
  BY <1>1 DEF SeriesRun
<1>4. ASSUME NEW k \in 0..(limit - 1)  PROVE f[k + 1] = OneMore(f[k], elements, limit)
  <2>1. k + 1 \in 0..limit /\ k + 1 # 0 /\ (k + 1) - 1 = k
    OBVIOUS
  <2> QED  BY <1>3, <2>1
<1> QED  BY <1>2, <1>3, <1>4 DEF Levels

LEMMA BesideIs ==
    ASSUME NEW a, NEW b
    PROVE  /\ Beside(a, b).cells = a.cells \o b.cells
           /\ Beside(a, b).says = a.says \o b.says
           /\ Beside(a, b).counts = a.counts + b.counts
BY DEF Beside, Element

LEMMA BesideTyped ==
    ASSUME NEW S, NEW T, NEW a \in ElementsOver(S, T), NEW b \in ElementsOver(S, T)
    PROVE  Beside(a, b) \in ElementsOver(S, T)
BY DEF Beside, Element, ElementsOver

\* Elements that stay of a kind, beside each other too.
Kept(D, S, T) ==
    /\ D \subseteq ElementsOver(S, T)
    /\ \A a, b \in D : Beside(a, b) \in D

\* Their kind, and that k elements count for k or more.
LEMMA SeriesTyped ==
    ASSUME NEW S, NEW T, NEW D, Kept(D, S, T), NEW limit \in Nat,
           NEW starts \in SUBSET D, NEW elements \in SUBSET D,
           \A b \in elements : b.counts >= 1,
           NEW f, Levels(f, starts, elements, limit)
    PROVE  \A k \in 0..limit : f[k] \subseteq D /\ \A e \in f[k] : e.counts >= k
<1> DEFINE U == {k \in 0..limit : f[k] \subseteq D /\ \A e \in f[k] : e.counts >= k}
<1>1. 0 \in U
  BY DEF Levels, ElementsOver, Kept
<1>2. ASSUME NEW k \in 0..(limit - 1), k \in U  PROVE k + 1 \in U
  <2>1. f[k + 1] = OneMore(f[k], elements, limit)
    BY DEF Levels
  <2>2. ASSUME NEW e \in f[k + 1]  PROVE e \in D /\ e.counts >= k + 1
    <3>1. PICK a \in f[k], b \in elements : e = Beside(a, b)
      BY <2>1 DEF OneMore, Joinable
    <3>2. a \in D /\ b \in D /\ a.counts >= k /\ b.counts >= 1
      BY <1>2
    <3>3. e \in D
      BY <3>1, <3>2 DEF Kept
    <3>4. a.counts \in Nat /\ b.counts \in Nat
      BY <3>2 DEF ElementsOver, Kept
    <3>5. e.counts = a.counts + b.counts
      BY <3>1, BesideIs
    <3> QED  BY <3>2, <3>3, <3>4, <3>5
  <2> QED  BY <2>2
<1> HIDE DEF U
<1>3. \A k \in 0..limit : k \in U
  BY <1>1, <1>2, Induction
<1> QED  BY <1>3 DEF U

LEMMA SeriesOver ==
    ASSUME NEW S, NEW T, NEW D, Kept(D, S, T), NEW limit \in Nat,
           NEW starts \in SUBSET D, NEW elements \in SUBSET D,
           \A b \in elements : b.counts >= 1
    PROVE  /\ Series(starts, elements, limit) \subseteq D
           /\ starts \subseteq Series(starts, elements, limit)
<1>1. PICK f : Levels(f, starts, elements, limit)
  BY SeriesLevels
<1>2. \A k \in 0..limit : f[k] \subseteq D
  BY <1>1, SeriesTyped
<1>3. f[0] = starts /\ Series(starts, elements, limit) = UNION {f[k] : k \in 0..limit} /\ 0 \in 0..limit
  BY <1>1 DEF Levels
<1> QED  BY <1>2, <1>3

\* A series goes on while its limits allow.
LEMMA SeriesGrows ==
    ASSUME NEW S, NEW T, NEW D, Kept(D, S, T), NEW limit \in Nat,
           NEW starts \in SUBSET D, NEW elements \in SUBSET D,
           \A b \in elements : b.counts >= 1,
           NEW a \in Series(starts, elements, limit), NEW b \in elements,
           Len(a.cells) + Len(b.cells) <= MaxAnswer, a.counts + b.counts <= limit
    PROVE  Beside(a, b) \in Series(starts, elements, limit)
<1>1. PICK f : Levels(f, starts, elements, limit)
  BY SeriesLevels
<1>2. PICK k \in 0..limit : a \in f[k]
  BY <1>1 DEF Levels
<1>3. a \in ElementsOver(S, T) /\ a.counts >= k
  BY <1>1, <1>2, SeriesTyped DEF Kept
<1>4. b \in ElementsOver(S, T) /\ b.counts >= 1
  BY DEF Kept
<1>5. a.counts \in Nat /\ b.counts \in Nat
  BY <1>3, <1>4 DEF ElementsOver
<1>6. k \in 0..(limit - 1) /\ k + 1 \in 0..limit
  BY <1>3, <1>4, <1>5
<1>8. Beside(a, b) \in f[k + 1]
  <2>1. <<a, b>> \in Joinable(f[k], elements, limit)
    BY <1>2 DEF Joinable
  <2>2. Beside(a, b) \in OneMore(f[k], elements, limit)
    BY <2>1 DEF OneMore
  <2> QED  BY <1>1, <1>6, <2>2 DEF Levels
<1> QED  BY <1>1, <1>6, <1>8 DEF Levels

\* Cells behind cells.
LEMMA CatHas ==
    ASSUME NEW S, NEW a \in Seq(S), NEW b \in Seq(S), NEW A, NEW B, a \in A, b \in B,
           Len(a) + Len(b) <= MaxAnswer
    PROVE  a \o b \in Cat(A, B)
<1>1. Len(a) \in Nat /\ Len(b) \in Nat /\ MaxAnswer \in Nat
  BY RustOhttpAssumption
<1>2. Len(a) \in 0..MaxAnswer
  BY <1>1
<1> QED  BY <1>2 DEF Cat

LEMMA CatOver ==
    ASSUME NEW S, NEW A \in SUBSET Seq(S), NEW B \in SUBSET Seq(S)
    PROVE  Cat(A, B) \subseteq Seq(S)
<1> SUFFICES ASSUME NEW c \in Cat(A, B) PROVE c \in Seq(S)
  OBVIOUS
<1> DEFINE J(n) == {a \o b : a \in {x \in A : Len(x) = n}, b \in {y \in B : n + Len(y) <= MaxAnswer}}
<1>1. Cat(A, B) = UNION {J(n) : n \in 0..MaxAnswer}
  BY DEF Cat
<1>2. PICK n \in 0..MaxAnswer : c \in J(n)
  <2> HIDE DEF J
  <2> QED  BY <1>1
<1>3. PICK a \in {x \in A : Len(x) = n}, b \in {y \in B : n + Len(y) <= MaxAnswer} : c = a \o b
  BY <1>2, SMTT(20)
<1>4. a \in Seq(S) /\ b \in Seq(S)
  OBVIOUS
<1> QED  BY <1>3, <1>4

-----------------------------------------------------------------------------
(* Answers: numbers, fields and sections. *)

AnswerCell == 0..3 \cup ContentCells

LEMMA OfLength ==
    ASSUME NEW S, NEW s \in Seq(S)
    PROVE  /\ Len(s) = 1 => s = <<s[1]>>
           /\ Len(s) = 2 => s = <<s[1], s[2]>>
<1>1. ASSUME Len(s) = 1 PROVE s = <<s[1]>>
  <2>1. s[1] \in S
    BY <1>1
  <2>2. <<s[1]>> \in Seq(S) /\ Len(<<s[1]>>) = 1 /\ <<s[1]>>[1] = s[1]
    BY <2>1
  <2> QED  BY <1>1, <2>2, SeqEqual
<1>2. ASSUME Len(s) = 2 PROVE s = <<s[1], s[2]>>
  <2> DEFINE t == <<s[1], s[2]>>
  <2>1. s[1] \in S /\ s[2] \in S
    <3>1. 1 \in 1..Len(s) /\ 2 \in 1..Len(s)
      BY <1>2
    <3> QED  BY <3>1
  <2>2. t \in Seq(S) /\ Len(t) = 2 /\ t[1] = s[1] /\ t[2] = s[2]
    BY <2>1
  <2> HIDE DEF t
  <2>3. s = t
    BY <1>2, <2>2, SeqEqual
  <2> QED  BY <2>3 DEF t
<1> QED  BY <1>1, <1>2

LEMMA NumbersOver ==
    ASSUME NEW v \in Nat
    PROVE  Number(v) \subseteq Seq(0..3) /\ \A n \in Number(v) : Len(n) >= 1
<1>1. v < 2 => <<v>> \in Seq(0..3) /\ Len(<<v>>) = 1
  OBVIOUS
<1>2. v < 8 => 2 + (v \div 4) \in 0..3 /\ v % 4 \in 0..3
  OBVIOUS
<1>3. v < 8 => <<2 + (v \div 4), v % 4>> \in Seq(0..3) /\ Len(<<2 + (v \div 4), v % 4>>) = 2
  BY <1>2
<1> SUFFICES ASSUME NEW n \in Number(v) PROVE n \in Seq(0..3) /\ Len(n) >= 1
  OBVIOUS
<1>4. (v < 2 /\ n = <<v>>) \/ (v < 8 /\ n = <<2 + (v \div 4), v % 4>>)
  BY DEF Number
<1>5. CASE v < 2 /\ n = <<v>>
  BY <1>1, <1>5
<1>6. CASE v < 8 /\ n = <<2 + (v \div 4), v % 4>>
  <2> DEFINE t == <<2 + (v \div 4), v % 4>>
  <2>1. t \in Seq(0..3) /\ Len(t) = 2 /\ n = t
    BY <1>3, <1>6
  <2> HIDE DEF t
  <2> QED  BY <2>1
<1> QED  BY <1>4, <1>5, <1>6

\* What `integer` reads is a number of that value.
LEMMA ReadsNumber ==
    ASSUME NEW c \in Encodings
    PROVE  /\ Value(c) \in 0..7 /\ c \in Number(Value(c))
           /\ c \in Seq(0..3) /\ Len(c) >= 1
<1>1. CASE \E x \in {0, 1} : c = <<x>>
  <2>1. PICK x \in {0, 1} : c = <<x>>
    BY <1>1
  <2>2. Len(c) = 1 /\ c[1] = x
    BY <2>1
  <2>3. Value(c) = x
    BY <2>2 DEF Value
  <2> QED  BY <2>1, <2>2, <2>3 DEF Number
<1>2. CASE \E x \in {2, 3}, y \in 0..3 : c = <<x, y>>
  <2>1. PICK x \in {2, 3}, y \in 0..3 : c = <<x, y>>
    BY <1>2
  <2>2. Len(c) = 2 /\ c[1] = x /\ c[2] = y
    BY <2>1
  <2>3. Value(c) = (x - 2) * 4 + y
    BY <2>2 DEF Value
  <2>4. (x - 2) * 4 + y \in 0..7 /\ 2 + (((x - 2) * 4 + y) \div 4) = x /\ ((x - 2) * 4 + y) % 4 = y
    <3>1. CASE x = 2
      BY <3>1
    <3>2. CASE x = 3
      BY <3>2
    <3> QED  BY <3>1, <3>2
  <2>5. c \in Number((x - 2) * 4 + y)
    BY <2>1, <2>4 DEF Number
  <2>6. c \in Seq(0..3)
    BY <2>1
  <2> QED  BY <2>2, <2>3, <2>4, <2>5, <2>6
<1> QED  BY <1>1, <1>2 DEF Encodings

LEMMA VectorHas ==
    ASSUME NEW c \in Encodings, NEW d, Value(c) = Len(d)
    PROVE  c \o d \in Vector(d)
BY ReadsNumber DEF Vector

\* slice_vector
LEMMA Sliced ==
    ASSUME NEW data \in Seq(0..3), NEW at \in 1..(Len(data) + 1), SliceVector(data, at).ok
    PROVE  LET n == SliceVector(data, at)
           IN /\ at <= Len(data) /\ n.next \in (at + 1)..(Len(data) + 1)
              /\ n.slice \in Seq(0..3) /\ Len(n.slice) < n.next - at
              /\ SubSeq(data, at, n.next - 1) \in Vector(n.slice)
<1> DEFINE wide == data[at] >= 2
           next == at + (IF wide THEN 2 ELSE 1)
           number == SubSeq(data, at, next - 1)
           size == Value(number)
           n == SliceVector(data, at)
<1>1. /\ at <= Len(data) /\ next - 1 <= Len(data) /\ ~(next - 1 + size > Len(data))
      /\ n.next = next + size /\ n.slice = SubSeq(data, next, next + size - 1)
  <2>1. n = IF at > Len(data) THEN [ok |-> FALSE]
            ELSE IF next - 1 > Len(data) THEN [ok |-> FALSE]
            ELSE IF next - 1 + size > Len(data) THEN [ok |-> FALSE]
            ELSE [ok |-> TRUE, next |-> next + size, slice |-> SubSeq(data, next, next + size - 1)]
    BY DEF SliceVector
  <2>2. next \in Int /\ Len(data) \in Nat
    OBVIOUS
  <2>3. n.ok
    OBVIOUS
  <2> HIDE DEF next, size, n
  <2>4. ~(at > Len(data)) /\ ~(next - 1 > Len(data)) /\ ~(next - 1 + size > Len(data))
    BY <2>1, <2>3
  <2>5. n = [ok |-> TRUE, next |-> next + size, slice |-> SubSeq(data, next, next + size - 1)]
    BY <2>1, <2>4
  <2>6. n.next = next + size /\ n.slice = SubSeq(data, next, next + size - 1)
    BY <2>5
  <2> QED  BY <2>2, <2>4, <2>6
<1>2. data[at] \in 0..3 /\ (wide => at + 1 <= Len(data) /\ data[at + 1] \in 0..3)
  <2>1. at \in 1..Len(data)
    BY <1>1
  <2>2. wide => at + 1 \in 1..Len(data)
    BY <1>1
  <2> HIDE DEF wide
  <2> QED  BY <2>1, <2>2
<1>3. number \in Encodings
  <2>1. CASE wide
    <3>1. number = <<data[at], data[at + 1]>>
      <4>1. next - 1 = at + 1
        BY <2>1
      <4>2. SubSeq(data, at, at + 1) = <<data[at], data[at + 1]>>
        <5>1. SubSeq(data, at, at + 1) \in Seq(0..3) /\ Len(SubSeq(data, at, at + 1)) = 2
          BY <1>1, <1>2, <2>1
        <5>2. SubSeq(data, at, at + 1)[1] = data[at] /\ SubSeq(data, at, at + 1)[2] = data[at + 1]
          BY <1>1, <1>2, <2>1
        <5> QED  BY <5>1, <5>2, OfLength
      <4> QED  BY <4>1, <4>2
    <3>2. data[at] \in {2, 3} /\ data[at + 1] \in 0..3
      BY <1>2, <2>1
    <3>3. \A c \in {2, 3}, d \in 0..3 : <<c, d>> \in Encodings
      BY DEF Encodings
    <3> HIDE DEF number
    <3> QED  BY <3>1, <3>2, <3>3
  <2>2. CASE ~wide
    <3>1. number = <<data[at]>>
      <4>1. next - 1 = at
        BY <2>2
      <4>2. SubSeq(data, at, at) = <<data[at]>>
        <5>1. SubSeq(data, at, at) \in Seq(0..3) /\ Len(SubSeq(data, at, at)) = 1
          BY <1>1
        <5>2. SubSeq(data, at, at)[1] = data[at]
          BY <1>1
        <5> QED  BY <5>1, <5>2, OfLength
      <4> QED  BY <4>1, <4>2
    <3>2. data[at] \in {0, 1}
      BY <1>2, <2>2
    <3> QED  BY <3>1, <3>2 DEF Encodings
  <2> QED  BY <2>1, <2>2
<1>4. size \in 0..7 /\ number \in Seq(0..3)
  BY <1>3, ReadsNumber
<1>5. next \in Nat /\ next > at
  OBVIOUS
<1>6. n.slice \in Seq(0..3) /\ Len(n.slice) = size
  <2> HIDE DEF next, size
  <2> QED  BY <1>1, <1>4, <1>5
<1>7. SubSeq(data, at, n.next - 1) = number \o n.slice
  <2> HIDE DEF size, n
  <2> QED  BY <1>1, <1>4, <1>5
<1>8. number \o n.slice \in Vector(n.slice)
  BY <1>3, <1>6, VectorHas
<1> HIDE DEF next, size, n
<1>9. n.next \in (at + 1)..(Len(data) + 1) /\ Len(n.slice) < n.next - at
  BY <1>1, <1>4, <1>5, <1>6
<1> QED  BY <1>1, <1>6, <1>7, <1>8, <1>9 DEF n

FieldPair == Seq(0..3) \X Seq(0..3)

LEMMA VectorOver ==
    ASSUME NEW d \in Seq(0..3)
    PROVE  Vector(d) \subseteq Seq(0..3) /\ \A v \in Vector(d) : Len(v) >= 1 + Len(d)
<1> SUFFICES ASSUME NEW v \in Vector(d) PROVE v \in Seq(0..3) /\ Len(v) >= 1 + Len(d)
  OBVIOUS
<1>1. PICK n \in Number(Len(d)) : v = n \o d
  BY DEF Vector
<1>2. n \in Seq(0..3) /\ Len(n) >= 1
  BY NumbersOver
<1> QED  BY <1>1, <1>2

LEMMA FieldElementsOver ==
    ASSUME NEW counted \in BOOLEAN
    PROVE  /\ FieldElements(counted) \subseteq ElementsOver(0..3, FieldPair)
           /\ \A e \in FieldElements(counted) : e.counts >= 1
<1> SUFFICES ASSUME NEW e \in FieldElements(counted)
             PROVE  e \in ElementsOver(0..3, FieldPair) /\ e.counts >= 1
  OBVIOUS
<1> DEFINE names == IF counted THEN Strands(FieldsLimit - 2) ELSE FieldNames
           values == IF counted THEN Strands(FieldsLimit - 2) ELSE FieldValues
<1>1. Strands(FieldsLimit - 2) \subseteq Seq(0..3)
  BY DEF Strands, Strings
<1>2. names \subseteq Seq(0..3) /\ values \subseteq Seq(0..3)
  BY <1>1, RustOhttpAssumption
<1>3. PICK f \in {g \in names \X values : Legal(g)} :
          e \in {Element(c, <<f>>, IF counted THEN Len(c) ELSE Len(f[1]) + Len(f[2])) :
                     c \in Cat(Vector(f[1]), Vector(f[2]))}
  BY DEF FieldElements
<1>4. PICK c \in Cat(Vector(f[1]), Vector(f[2])) :
          e = Element(c, <<f>>, IF counted THEN Len(c) ELSE Len(f[1]) + Len(f[2]))
  BY <1>3
<1>5. f \in FieldPair /\ f[1] \in Seq(0..3) /\ f[2] \in Seq(0..3) /\ f[1] # <<>>
  BY <1>2 DEF FieldPair, Legal
<1>6. Vector(f[1]) \subseteq Seq(0..3) /\ Vector(f[2]) \subseteq Seq(0..3)
  BY <1>5, VectorOver
<1>7. c \in Seq(0..3)
  BY <1>6, CatOver
<1>8. Len(c) >= 1
  <2>1. PICK a \in Vector(f[1]), b \in Vector(f[2]) : c = a \o b
    BY DEF Cat
  <2>2. a \in Seq(0..3) /\ b \in Seq(0..3) /\ Len(a) >= 1
    BY <1>5, <1>6, VectorOver
  <2> QED  BY <2>1, <2>2
<1>9. Len(f[1]) \in Nat /\ Len(f[1]) >= 1 /\ Len(f[2]) \in Nat /\ Len(c) \in Nat
  BY <1>5, <1>7
<1>10. <<f>> \in Seq(FieldPair)
  BY <1>5
<1> QED  BY <1>4, <1>7, <1>8, <1>9, <1>10 DEF Element, ElementsOver

LEMMA ElementsKept ==
    ASSUME NEW S, NEW T
    PROVE  Kept(ElementsOver(S, T), S, T)
BY BesideTyped DEF Kept

LEMMA EmptyTyped ==
    ASSUME NEW S, NEW T
    PROVE  Empty \in ElementsOver(S, T) /\ Empty.cells = <<>> /\ Empty.says = <<>> /\ Empty.counts = 0
BY DEF Empty, Element, ElementsOver

\* The sections so far.
LEMMA SectionSeriesOver ==
    ASSUME NEW counted \in BOOLEAN
    PROVE  SectionSeries(counted) \subseteq ElementsOver(0..3, FieldPair) /\ Empty \in SectionSeries(counted)
<1>1. {Empty} \in SUBSET ElementsOver(0..3, FieldPair)
  BY EmptyTyped
<1>2. Kept(ElementsOver(0..3, FieldPair), 0..3, FieldPair)
  BY ElementsKept
<1>3. FieldsLimit \in Nat
  BY RustOhttpAssumption
<1>4. Fits(Empty.says)
  BY EmptyTyped DEF Fits
<1> HIDE DEF FieldPair
<1> QED  BY <1>1, <1>2, <1>3, <1>4, FieldElementsOver, SeriesOver DEF SectionSeries

\* A field more, where there is room for it.
LEMMA RoomForOne ==
    ASSUME NEW S, NEW list \in Seq(S), NEW f \in S, Room(list)
    PROVE  Fits(Append(list, f))
<1>1. Len(Append(list, f)) - 1 = Len(list) /\ \A k \in 1..Len(list) : Append(list, f)[k] = list[k]
  OBVIOUS
<1>2. SubSeq(Append(list, f), 1, Len(list)) = list
  BY <1>1
<1> QED  BY <1>1, <1>2 DEF Fits, Front

\* The whole sections.
LEMMA SectionsOver ==
    ASSUME NEW counted \in BOOLEAN
    PROVE  Sections[counted] \subseteq ElementsOver(0..3, FieldPair)
<1> SUFFICES ASSUME NEW s \in Sections[counted] PROVE s \in ElementsOver(0..3, FieldPair)
  OBVIOUS
<1>1. PICK e \in SectionSeries(counted) : s \in Closed(e, counted)
  BY DEF Sections, SectionSeries
<1>2. e \in ElementsOver(0..3, FieldPair)
  BY SectionSeriesOver
<1>3. e = [cells |-> e.cells, says |-> e.says, counts |-> e.counts] /\ e.cells \in Seq(0..3)
  BY <1>2 DEF ElementsOver
<1>4. CASE counted
  <2>1. PICK v \in Vector(e.cells) : s = [e EXCEPT !.cells = v]
    BY <1>1, <1>4 DEF Closed
  <2>2. v \in Seq(0..3)
    BY <1>3, VectorOver
  <2> QED  BY <1>2, <2>1, <2>2 DEF ElementsOver
<1>5. CASE ~counted
  <2>1. PICK z \in Number(0) : s = [e EXCEPT !.cells = e.cells \o z]
    BY <1>1, <1>5 DEF Closed
  <2>2. z \in Seq(0..3)
    BY NumbersOver
  <2>3. e.cells \o z \in Seq(0..3)
    BY <1>3, <2>2
  <2> QED  BY <1>2, <2>1, <2>3 DEF ElementsOver
<1> QED  BY <1>4, <1>5

\* What precedes the status.
LEMMA PreamblesOver ==
    ASSUME NEW counted \in BOOLEAN
    PROVE  /\ PreambleSeries(counted) \subseteq ElementsOver(0..3, FieldPair)
           /\ Framings(counted) \subseteq PreambleSeries(counted)
           /\ Interims(counted) \subseteq ElementsOver(0..3, FieldPair)
           /\ \A b \in Interims(counted) : b.counts >= 1
<1>1. Framings(counted) \in SUBSET ElementsOver(0..3, FieldPair)
  <2>1. Number(IF counted THEN 1 ELSE 3) \subseteq Seq(0..3)
    BY NumbersOver
  <2>2. ASSUME NEW n \in Number(IF counted THEN 1 ELSE 3)
        PROVE  Element(n, <<>>, 0) \in ElementsOver(0..3, FieldPair)
    <3>1. n \in Seq(0..3)
      BY <2>1
    <3> QED  BY <3>1 DEF Element, ElementsOver
  <2> QED  BY <2>2 DEF Framings
<1>2. ASSUME NEW b \in Interims(counted)
      PROVE  b \in ElementsOver(0..3, FieldPair) /\ b.counts >= 1
  <2> DEFINE numbers == UNION {Number(c) : c \in Informational}
             I(s) == {Element(n \o s.cells, <<>>, 1) : n \in numbers}
  <2>5. Interims(counted) = UNION {I(s) : s \in Sections[counted]}
    BY DEF Interims
  <2>6. PICK s \in Sections[counted] : b \in I(s)
    <3> HIDE DEF I
    <3> QED  BY <2>5
  <2>1. PICK n \in numbers : b = Element(n \o s.cells, <<>>, 1)
    BY <2>6
  <2>2. n \in Seq(0..3)
    <3>1. PICK c \in Informational : n \in Number(c)
      OBVIOUS
    <3>2. c \in Nat
      BY RustOhttpAssumption
    <3> QED  BY <3>1, <3>2, NumbersOver
  <2>3. s.cells \in Seq(0..3)
    BY SectionsOver DEF ElementsOver
  <2>4. n \o s.cells \in Seq(0..3)
    BY <2>2, <2>3
  <2> QED  BY <2>1, <2>4 DEF Element, ElementsOver
<1>3. Kept(ElementsOver(0..3, FieldPair), 0..3, FieldPair)
  BY ElementsKept
<1>4. MaxInformational \in Nat
  BY RustOhttpAssumption
<1>5. Interims(counted) \in SUBSET ElementsOver(0..3, FieldPair)
  BY <1>2
<1>6. \A b \in Interims(counted) : b.counts >= 1
  BY <1>2
<1> HIDE DEF FieldPair
<1> QED  BY <1>1, <1>3, <1>4, <1>5, <1>6, SeriesOver DEF PreambleSeries

\* The content so far.
PieceKind == {e \in ElementsOver(AnswerCell, ContentCells) : e.counts = Len(e.says)}

LEMMA PiecesKept == Kept(PieceKind, AnswerCell, ContentCells)
<1>1. PieceKind \subseteq ElementsOver(AnswerCell, ContentCells)
  BY DEF PieceKind
<1>2. ASSUME NEW a \in PieceKind, NEW b \in PieceKind  PROVE Beside(a, b) \in PieceKind
  <2>1. a \in ElementsOver(AnswerCell, ContentCells) /\ b \in ElementsOver(AnswerCell, ContentCells)
    BY DEF PieceKind
  <2>2. Beside(a, b) \in ElementsOver(AnswerCell, ContentCells)
    BY <2>1, BesideTyped
  <2>3. a.says \in Seq(ContentCells) /\ b.says \in Seq(ContentCells)
    BY <2>1 DEF ElementsOver
  <2>4. Len(a.says \o b.says) = Len(a.says) + Len(b.says)
    BY <2>3
  <2>5. a.counts = Len(a.says) /\ b.counts = Len(b.says)
    BY DEF PieceKind
  <2> QED  BY <2>2, <2>4, <2>5, BesideIs DEF PieceKind
<1> QED  BY <1>1, <1>2 DEF Kept

LEMMA ContentsAre ==
    ASSUME NEW c
    PROVE  c \in Contents <=> c \in Seq(ContentCells) /\ Len(c) <= Limit
<1>1. Limit \in Nat
  BY RustOhttpAssumption
<1>2. ASSUME c \in Contents  PROVE c \in Seq(ContentCells) /\ Len(c) <= Limit
  <2>1. PICK n \in 0..Limit : c \in [1..n -> ContentCells]
    BY <1>2 DEF Contents, Strings
  <2> QED  BY <1>1, <2>1
<1>3. ASSUME c \in Seq(ContentCells), Len(c) <= Limit  PROVE c \in Contents
  <2>1. Len(c) \in 0..Limit /\ c \in [1..Len(c) -> ContentCells]
    BY <1>1, <1>3
  <2> QED  BY <2>1 DEF Contents, Strings
<1> QED  BY <1>2, <1>3

LEMMA CarryOver ==
    ASSUME NEW d \in Seq(ContentCells)
    PROVE  Vector(d) \subseteq Seq(AnswerCell)
<1> SUFFICES ASSUME NEW v \in Vector(d) PROVE v \in Seq(AnswerCell)
  OBVIOUS
<1>1. PICK n \in Number(Len(d)) : v = n \o d
  BY DEF Vector
<1>2. n \in Seq(0..3)
  BY NumbersOver
<1>3. n \in Seq(AnswerCell) /\ d \in Seq(AnswerCell)
  BY <1>2 DEF AnswerCell
<1> QED  BY <1>1, <1>3

LEMMA PieceIs ==
    ASSUME NEW c \in Contents, c # <<>>, NEW v \in Vector(c)
    PROVE  /\ Element(v, c, Len(c)) \in Pieces
           /\ Element(v, c, Len(c)) \in PieceKind /\ Len(c) >= 1
<1>1. c \in Seq(ContentCells)
  BY ContentsAre
<1>2. v \in Seq(AnswerCell)
  BY <1>1, CarryOver
<1>3. Len(c) \in Nat /\ Len(c) >= 1
  BY <1>1
<1>4. Element(v, c, Len(c)) \in PieceKind
  BY <1>1, <1>2, <1>3 DEF Element, ElementsOver, PieceKind
<1> QED  BY <1>3, <1>4 DEF Pieces

LEMMA PieceSeriesOver ==
    /\ PieceSeries \subseteq PieceKind /\ Empty \in PieceSeries
    /\ Pieces \subseteq PieceKind /\ \A b \in Pieces : b.counts >= 1
<1>1. ASSUME NEW b \in Pieces  PROVE b \in PieceKind /\ b.counts >= 1
  <2>1. PICK c \in Contents \ {<<>>} : b \in {Element(v, c, Len(c)) : v \in Vector(c)}
    BY DEF Pieces
  <2>2. PICK v \in Vector(c) : b = Element(v, c, Len(c))
    BY <2>1
  <2>3. b \in PieceKind /\ Len(c) >= 1
    BY <2>2, PieceIs
  <2>4. b.counts = Len(c)
    BY <2>2 DEF Element
  <2> QED  BY <2>3, <2>4
<1>2. {Empty} \in SUBSET PieceKind
  BY EmptyTyped DEF PieceKind
<1>3. Limit \in Nat
  BY RustOhttpAssumption
<1>4. Pieces \in SUBSET PieceKind /\ \A b \in Pieces : b.counts >= 1
  BY <1>1
<1> QED  BY <1>2, <1>3, <1>4, PiecesKept, SeriesOver DEF PieceSeries

\* Reader::fields on a known section.
SliceStart == [ok |-> TRUE, at |-> 1, fields |-> <<>>]
SliceRun(f, data, n) == f = [k \in 0..n |-> IF k = 0 THEN SliceStart ELSE SliceField(data, f[k - 1])]

LEMMA SliceRunExists ==
    ASSUME NEW data, NEW n \in Nat
    PROVE  \E f : SliceRun(f, data, n)
<1> DEFINE Has(m) == \E f : SliceRun(f, data, m)
           T == {m \in Nat : Has(m)}
<1>1. 0 \in T
  <2> DEFINE g == [k \in 0..0 |-> SliceStart]
  <2>1. SliceRun(g, data, 0)
    BY DEF SliceRun
  <2> QED  BY <2>1
<1>2. ASSUME NEW m \in Nat, m \in T  PROVE m + 1 \in T
  <2>1. PICK f : SliceRun(f, data, m)
    BY <1>2
  <2>2. DOMAIN f = 0..m /\ \A k \in 0..m : f[k] = IF k = 0 THEN SliceStart ELSE SliceField(data, f[k - 1])
    BY <2>1 DEF SliceRun
  <2> DEFINE g == [k \in 0..(m + 1) |-> IF k <= m THEN f[k] ELSE SliceField(data, f[m])]
  <2>3. SliceRun(g, data, m + 1)
    <3> SUFFICES ASSUME NEW k \in 0..(m + 1)
                 PROVE  g[k] = IF k = 0 THEN SliceStart ELSE SliceField(data, g[k - 1])
      BY DEF SliceRun
    <3>1. CASE k = 0
      BY <2>2, <3>1
    <3>2. CASE k \in 1..m
      BY <2>2, <3>2
    <3>3. CASE k = m + 1
      BY <2>2, <3>3
    <3> QED  BY <3>1, <3>2, <3>3
  <2> HIDE DEF g
  <2>4. Has(m + 1)
    BY <2>3
  <2> QED  BY <2>4
<1> HIDE DEF T
<1>3. n \in T
  BY <1>1, <1>2, Induction
<1> QED  BY <1>3 DEF T

LEMMA SliceSteps ==
    ASSUME NEW data \in Seq(0..3)
    PROVE  \E f : /\ f[0] = SliceStart
                  /\ \A k \in 0..(Len(data) - 1) : f[k + 1] = SliceField(data, f[k])
                  /\ SliceFields(data) = f[Len(data)]
<1> DEFINE f == CHOOSE g : SliceRun(g, data, Len(data))
<1>1. Len(data) \in Nat
  OBVIOUS
<1>2. SliceRun(f, data, Len(data))
  BY <1>1, SliceRunExists
<1>3. SliceFields(data) = f[Len(data)]
  BY DEF SliceFields, SliceRun, SliceStart
<1> HIDE DEF f
<1>4. \A k \in 0..Len(data) : f[k] = IF k = 0 THEN SliceStart ELSE SliceField(data, f[k - 1])
  BY <1>2 DEF SliceRun
<1>5. ASSUME NEW k \in 0..(Len(data) - 1)  PROVE f[k + 1] = SliceField(data, f[k])
  <2>1. k + 1 \in 0..Len(data) /\ k + 1 # 0 /\ (k + 1) - 1 = k
    BY <1>1
  <2> QED  BY <1>4, <2>1
<1>6. f[0] = SliceStart
  BY <1>1, <1>4
<1> QED  BY <1>3, <1>5, <1>6

\* The fields of a known section up to a place.
ParsedTo(data, e, at, list) ==
    e.cells = SubSeq(data, 1, at - 1) /\ e.says = list /\ e.counts = Len(e.cells)
SliceAt(data, i, j, x) == Len(x) < j - i /\ SubSeq(data, i, j - 1) \in Vector(x)
SlicedUpTo(data, acc, k) ==
    acc.ok =>
        /\ acc.at \in 1..(Len(data) + 1)
        /\ acc.at > Len(data) \/ acc.at > k
        /\ \E e \in SectionSeries(TRUE) : ParsedTo(data, e, acc.at, acc.fields)

\* A sequence in two parts.
LEMMA TwoParts ==
    ASSUME NEW S, NEW s \in Seq(S), NEW i \in Nat, NEW j \in Nat, NEW k \in Nat,
           1 <= i, i <= j, j <= k, k <= Len(s) + 1
    PROVE  /\ SubSeq(s, i, j - 1) \in Seq(S) /\ Len(SubSeq(s, i, j - 1)) = j - i
           /\ SubSeq(s, i, j - 1) \o SubSeq(s, j, k - 1) = SubSeq(s, i, k - 1)
<1> DEFINE a == SubSeq(s, i, j - 1)
           b == SubSeq(s, j, k - 1)
           c == SubSeq(s, i, k - 1)
<1>1. a \in Seq(S) /\ Len(a) = j - i /\ \A m \in 1..(j - i) : a[m] = s[i + m - 1]
  OBVIOUS
<1>2. b \in Seq(S) /\ Len(b) = k - j /\ \A m \in 1..(k - j) : b[m] = s[j + m - 1]
  OBVIOUS
<1>3. c \in Seq(S) /\ Len(c) = k - i /\ \A m \in 1..(k - i) : c[m] = s[i + m - 1]
  OBVIOUS
<1> HIDE DEF a, b, c
<1>4. a \o b \in Seq(S) /\ Len(a \o b) = k - i
  <2>1. a \in Seq(S) /\ b \in Seq(S) /\ Len(a) = j - i /\ Len(b) = k - j
    BY <1>1, <1>2
  <2> QED  BY <2>1
<1>9. a \in Seq(S) /\ b \in Seq(S) /\ Len(a) = j - i /\ Len(b) = k - j
  BY <1>1, <1>2
<1>5. ASSUME NEW m \in 1..(k - i)  PROVE (a \o b)[m] = c[m]
  <2>1. CASE m <= j - i
    <3>1. m \in 1..Len(a)
      BY <1>1, <2>1
    <3>2. (a \o b)[m] = a[m]
      BY <1>9, <3>1
    <3> QED  BY <1>1, <1>3, <2>1, <3>2
  <2>2. CASE m > j - i
    <3>1. m - (j - i) \in 1..(k - j) /\ j + (m - (j - i)) - 1 = i + m - 1
      BY <2>2
    <3>2. (a \o b)[m] = b[m - (j - i)]
      BY <1>9, <2>2
    <3>3. b[m - (j - i)] = s[i + m - 1]
      BY <1>2, <3>1
    <3>4. c[m] = s[i + m - 1]
      BY <1>3
    <3> QED  BY <3>2, <3>3, <3>4, Zenon
  <2>3. m <= j - i \/ m > j - i
    OBVIOUS
  <2> QED  BY <2>1, <2>2, <2>3, Zenon
<1>6. a \o b = c
  BY <1>3, <1>4, <1>5, SeqEqual
<1> QED  BY <1>1, <1>6 DEF a, b, c

\* One field more.
LEMMA SliceGrows ==
    ASSUME NEW data \in Seq(0..3), Len(data) <= FieldsLimit, Len(data) <= MaxAnswer,
           NEW i \in Nat, NEW j \in Nat, NEW k \in Nat, 1 <= i, i < j, j < k, k <= Len(data) + 1,
           NEW x \in Seq(0..3), NEW y \in Seq(0..3),
           SliceAt(data, i, j, x), SliceAt(data, j, k, y),
           NEW list, Insertable(list, x, y), NEW e \in SectionSeries(TRUE), ParsedTo(data, e, i, list)
    PROVE  \E g \in SectionSeries(TRUE) : ParsedTo(data, g, k, Append(list, <<x, y>>))
<1>15. /\ Len(x) < j - i /\ Len(y) < k - j
       /\ SubSeq(data, i, j - 1) \in Vector(x) /\ SubSeq(data, j, k - 1) \in Vector(y)
       /\ e.cells = SubSeq(data, 1, i - 1) /\ e.says = list /\ e.counts = Len(e.cells)
  BY DEF SliceAt, ParsedTo
<1> DEFINE a == SubSeq(data, i, j - 1)
           b == SubSeq(data, j, k - 1)
           f == <<x, y>>
           g == Element(a \o b, <<f>>, Len(a \o b))
<1>1. FieldsLimit \in Nat /\ MaxAnswer \in Nat /\ Len(data) \in Nat
  BY RustOhttpAssumption
<1>2. a \in Seq(0..3) /\ Len(a) = j - i /\ a \o b = SubSeq(data, i, k - 1)
  BY TwoParts
<1>3. b \in Seq(0..3) /\ Len(b) = k - j
  OBVIOUS
<1>4. a \o b \in Seq(0..3) /\ Len(a \o b) = k - i
  <2> HIDE DEF a, b
  <2>1. a \in Seq(0..3) /\ b \in Seq(0..3) /\ Len(a) = j - i /\ Len(b) = k - j
    BY <1>2, <1>3
  <2>2. a \o b \in Seq(0..3) /\ Len(a \o b) = Len(a) + Len(b)
    BY <2>1, ConcatProperties
  <2> QED  BY <2>1, <2>2
<1>5. x \in Strands(FieldsLimit - 2) /\ y \in Strands(FieldsLimit - 2)
  <2>1. Len(x) \in Nat /\ Len(y) \in Nat /\ x # <<>>
    BY DEF Insertable, Legal
  <2>2. Len(x) >= 1
    BY <2>1
  <2>3. Len(x) \in 0..(FieldsLimit - 2) /\ Len(y) \in 0..(FieldsLimit - 2)
    BY <1>1, <1>15, <2>1, <2>2
  <2>4. x \in [1..Len(x) -> 0..3] /\ y \in [1..Len(y) -> 0..3]
    OBVIOUS
  <2> QED  BY <2>3, <2>4 DEF Strands, Strings
<1>6. Legal(f) /\ f[1] = x /\ f[2] = y
  BY DEF Legal, Insertable
<1>7. a \o b \in Cat(Vector(f[1]), Vector(f[2]))
  <2>1. Len(a) + Len(b) <= MaxAnswer
    <3> HIDE DEF a, b
    <3> QED  BY <1>1, <1>2, <1>3
  <2>2. a \in Vector(f[1]) /\ b \in Vector(f[2])
    BY <1>6, <1>15
  <2> HIDE DEF a, b, f
  <2> QED  BY <1>2, <1>3, <2>1, <2>2, CatHas
<1>8. g \in FieldElements(TRUE)
  <2> DEFINE J(h) == {Element(c, <<h>>, Len(c)) : c \in Cat(Vector(h[1]), Vector(h[2]))}
  <2>1. FieldElements(TRUE) = UNION {J(h) : h \in {z \in Strands(FieldsLimit - 2) \X Strands(FieldsLimit - 2) : Legal(z)}}
    BY DEF FieldElements
  <2>2. g \in J(f)
    <3> HIDE DEF a, b, f
    <3> QED  BY <1>7
  <2>3. f \in {z \in Strands(FieldsLimit - 2) \X Strands(FieldsLimit - 2) : Legal(z)}
    BY <1>5, <1>6
  <2> HIDE DEF J, f, g
  <2> QED  BY <2>1, <2>2, <2>3
<1>9. g.cells = a \o b /\ g.says = <<f>> /\ g.counts = Len(a \o b)
  BY DEF Element
<1>10. e \in ElementsOver(0..3, FieldPair) /\ Len(e.cells) = i - 1
  <2>1. e \in ElementsOver(0..3, FieldPair)
    BY SectionSeriesOver
  <2>2. Len(SubSeq(data, 1, i - 1)) = i - 1
    OBVIOUS
  <2> QED  BY <1>15, <2>1, <2>2
<1>13. Beside(e, g).says = Append(list, f) /\ Fits(Append(list, f))
  <2>1. e.says \in Seq(FieldPair) /\ f \in FieldPair
    BY <1>10 DEF ElementsOver, FieldPair
  <2>2. e.says \o <<f>> = Append(e.says, f)
    <3> HIDE DEF f, FieldPair
    <3> QED  BY <2>1
  <2>3. Room(list)
    BY DEF Insertable
  <2> HIDE DEF f, FieldPair
  <2> QED  BY <1>9, <1>15, <2>1, <2>2, <2>3, BesideIs, RoomForOne
<1>11. Beside(e, g) \in SectionSeries(TRUE)
  <2>1. Len(e.cells) + Len(g.cells) <= MaxAnswer /\ e.counts + g.counts <= FieldsLimit
    <3>1. Len(g.cells) = k - i /\ g.counts = k - i
      BY <1>4, <1>9
    <3> HIDE DEF a, b, g
    <3> QED  BY <1>1, <1>10, <1>15, <3>1
  <2> HIDE DEF g
  <2>2. {Empty} \in SUBSET ElementsOver(0..3, FieldPair) /\ FieldElements(TRUE) \in SUBSET ElementsOver(0..3, FieldPair)
    BY EmptyTyped, FieldElementsOver
  <2>3. Kept(ElementsOver(0..3, FieldPair), 0..3, FieldPair)
    BY ElementsKept
  <2>4. \A z \in FieldElements(TRUE) : z.counts >= 1
    BY FieldElementsOver
  <2>5. e \in Series({Empty}, FieldElements(TRUE), FieldsLimit)
    BY DEF SectionSeries
  <2> HIDE DEF FieldPair
  <2>6. Beside(e, g) \in Series({Empty}, FieldElements(TRUE), FieldsLimit)
    BY <1>1, <1>8, <2>1, <2>2, <2>3, <2>4, <2>5, SeriesGrows
  <2> QED  BY <1>13, <2>6 DEF SectionSeries
<1>12. Beside(e, g).cells = SubSeq(data, 1, k - 1)
  <2>1. Beside(e, g).cells = SubSeq(data, 1, i - 1) \o SubSeq(data, i, k - 1)
    BY <1>2, <1>9, <1>15, BesideIs
  <2>2. SubSeq(data, 1, i - 1) \o SubSeq(data, i, k - 1) = SubSeq(data, 1, k - 1)
    BY TwoParts
  <2> QED  BY <2>1, <2>2
<1>14. Beside(e, g).counts = Len(Beside(e, g).cells)
  <2>1. Beside(e, g).counts = Len(e.cells) + Len(a \o b)
    BY <1>9, <1>15, BesideIs
  <2>2. Beside(e, g).cells = e.cells \o (a \o b)
    BY <1>9, BesideIs
  <2>3. e.cells \in Seq(0..3)
    BY <1>10 DEF ElementsOver
  <2> HIDE DEF a, b, g
  <2>4. Len(e.cells \o (a \o b)) = Len(e.cells) + Len(a \o b)
    BY <1>4, <2>3, ConcatProperties
  <2> QED  BY <2>1, <2>2, <2>4
<1> HIDE DEF g
<1> QED  BY <1>11, <1>12, <1>13, <1>14 DEF ParsedTo

LEMMA SliceStep ==
    ASSUME NEW data \in Seq(0..3), Len(data) <= FieldsLimit, Len(data) <= MaxAnswer,
           NEW k \in 0..(Len(data) - 1), NEW acc, SlicedUpTo(data, acc, k)
    PROVE  SlicedUpTo(data, SliceField(data, acc), k + 1)
<1> DEFINE n == SliceVector(data, acc.at)
           v == SliceVector(data, n.next)
           off == [ok |-> FALSE]
           on == [ok |-> TRUE, at |-> v.next, fields |-> Append(acc.fields, <<n.slice, v.slice>>)]
<1>1. SliceField(data, acc) =
          IF ~acc.ok \/ acc.at > Len(data) THEN acc
          ELSE IF ~n.ok THEN off ELSE IF ~v.ok THEN off
          ELSE IF ~Insertable(acc.fields, n.slice, v.slice) THEN off ELSE on
  BY DEF SliceField
<1>3. SlicedUpTo(data, off, k + 1)
  BY DEF SlicedUpTo
<1>4. ASSUME ~acc.ok \/ acc.at > Len(data)  PROVE SlicedUpTo(data, acc, k + 1)
  BY <1>4 DEF SlicedUpTo
<1>5. ASSUME acc.ok, ~(acc.at > Len(data)), n.ok, v.ok, Insertable(acc.fields, n.slice, v.slice)
      PROVE  SlicedUpTo(data, on, k + 1)
  <2> HIDE DEF n, v
  <2>1. acc.at \in 1..(Len(data) + 1) /\ (acc.at > Len(data) \/ acc.at > k)
    BY <1>5 DEF SlicedUpTo
  <2>2. PICK e \in SectionSeries(TRUE) : ParsedTo(data, e, acc.at, acc.fields)
    BY <1>5 DEF SlicedUpTo
  <2>3. /\ acc.at <= Len(data) /\ n.next \in (acc.at + 1)..(Len(data) + 1)
        /\ n.slice \in Seq(0..3) /\ Len(n.slice) < n.next - acc.at
        /\ SubSeq(data, acc.at, n.next - 1) \in Vector(n.slice)
    BY <1>5, <2>1, Sliced DEF n
  <2>4. /\ n.next <= Len(data) /\ v.next \in (n.next + 1)..(Len(data) + 1)
        /\ v.slice \in Seq(0..3) /\ Len(v.slice) < v.next - n.next
        /\ SubSeq(data, n.next, v.next - 1) \in Vector(v.slice)
    <3>1. n.next \in 1..(Len(data) + 1)
      BY <2>1, <2>3
    <3> QED  BY <1>5, <3>1, Sliced DEF v
  <2>5. \E i, j, m \in Int : i = acc.at /\ j = n.next /\ m = v.next
    BY <2>1, <2>3, <2>4
  <2>6. PICK i \in Int, j \in Int, m \in Int : i = acc.at /\ j = n.next /\ m = v.next
    BY <2>5
  <2>7. i \in 1..Len(data) /\ j \in (i + 1)..Len(data) /\ m \in (j + 1)..(Len(data) + 1) /\ i > k
    BY <1>5, <2>1, <2>3, <2>4, <2>6
  <2>8. i \in Nat /\ j \in Nat /\ m \in Nat /\ 1 <= i /\ i < j /\ j < m /\ m <= Len(data) + 1
    BY <2>7
  <2>9. /\ n.slice \in Seq(0..3) /\ SliceAt(data, i, j, n.slice)
        /\ v.slice \in Seq(0..3) /\ SliceAt(data, j, m, v.slice)
        /\ ParsedTo(data, e, i, acc.fields)
    BY <2>2, <2>3, <2>4, <2>6 DEF SliceAt
  <2>10. PICK g \in SectionSeries(TRUE) :
             ParsedTo(data, g, m, Append(acc.fields, <<n.slice, v.slice>>))
    BY <1>5, <2>8, <2>9, SliceGrows
  <2>11. on.ok = TRUE /\ on.at = m /\ on.fields = Append(acc.fields, <<n.slice, v.slice>>)
    BY <2>6
  <2>12. m \in 1..(Len(data) + 1) /\ m > k + 1
    BY <2>7
  <2> HIDE DEF on
  <2> QED  BY <2>10, <2>11, <2>12 DEF SlicedUpTo
<1> HIDE DEF n, v, off, on
<1> QED  BY <1>1, <1>3, <1>4, <1>5

\* What the reader finds in a known section is what a section says.
LEMMA KnownSection ==
    ASSUME NEW data \in Seq(0..3), Len(data) <= FieldsLimit, Len(data) <= MaxAnswer,
           SliceFields(data).ok
    PROVE  \E e \in SectionSeries(TRUE) : e.cells = data /\ e.says = SliceFields(data).fields
<1>1. PICK f : /\ f[0] = SliceStart
               /\ \A k \in 0..(Len(data) - 1) : f[k + 1] = SliceField(data, f[k])
               /\ SliceFields(data) = f[Len(data)]
  BY SliceSteps
<1> DEFINE T == {k \in 0..Len(data) : SlicedUpTo(data, f[k], k)}
<1>2. 0 \in T
  <2>1. SliceStart.ok /\ SliceStart.at = 1 /\ SliceStart.fields = <<>>
    BY DEF SliceStart
  <2>3. Empty \in SectionSeries(TRUE) /\ Empty.cells = SubSeq(data, 1, 0) /\ Empty.says = <<>>
        /\ Empty.counts = Len(Empty.cells)
    <3>1. Empty.cells = <<>> /\ Empty.says = <<>> /\ Empty.counts = 0
      BY EmptyTyped
    <3>2. SubSeq(data, 1, 0) = <<>> /\ Len(<<>>) = 0
      OBVIOUS
    <3> QED  BY <3>1, <3>2, SectionSeriesOver
  <2>4. SlicedUpTo(data, SliceStart, 0)
    <3>1. 1 \in 1..(Len(data) + 1) /\ 1 > 0 /\ 1 - 1 = 0
      OBVIOUS
    <3> QED  BY <2>1, <2>3, <3>1 DEF SlicedUpTo, ParsedTo
  <2> QED  BY <1>1, <2>4
<1>3. ASSUME NEW k \in 0..(Len(data) - 1), k \in T  PROVE k + 1 \in T
  <2>1. SlicedUpTo(data, f[k + 1], k + 1)
    BY <1>1, <1>3, SliceStep
  <2> QED  BY <2>1
<1> HIDE DEF T
<1>4. Len(data) \in Nat
  OBVIOUS
<1>5. \A k \in 0..Len(data) : k \in T
  BY <1>2, <1>3, <1>4, Induction
<1>6. SlicedUpTo(data, SliceFields(data), Len(data))
  <2>1. Len(data) \in T
    BY <1>4, <1>5
  <2> QED  BY <1>1, <2>1 DEF T
<1>7. SliceFields(data).at = Len(data) + 1
  BY <1>4, <1>6 DEF SlicedUpTo
<1>8. SubSeq(data, 1, SliceFields(data).at - 1) = data
  <2>1. SubSeq(data, 1, Len(data)) = data
    OBVIOUS
  <2>2. SliceFields(data).at - 1 = Len(data)
    BY <1>4, <1>7
  <2> QED  BY <2>1, <2>2
<1> QED  BY <1>6, <1>8 DEF SlicedUpTo, ParsedTo

LEMMA SeqsOfCells == Seq(0..3) \subseteq Seq(AnswerCell) /\ Seq(ContentCells) \subseteq Seq(AnswerCell)
<1>1. 0..3 \subseteq AnswerCell /\ ContentCells \subseteq AnswerCell
  BY DEF AnswerCell
<1> HIDE DEF AnswerCell
<1> QED  BY <1>1

LEMMA Regrouped ==
    ASSUME NEW S, NEW a, NEW b, NEW c, a \in Seq(S), b \in Seq(S), c \in Seq(S)
    PROVE  /\ (a \o b) \o c = a \o (b \o c) /\ a \o b \in Seq(S) /\ b \o c \in Seq(S)
           /\ Len(a \o b) = Len(a) + Len(b) /\ Len(a \o (b \o c)) = (Len(a) + Len(b)) + Len(c)
<1>1. (a \o b) \o c = a \o (b \o c)
  BY ConcatAssociative
<1>2. /\ a \o b \in Seq(S) /\ b \o c \in Seq(S)
      /\ Len(a \o b) = Len(a) + Len(b) /\ Len(b \o c) = Len(b) + Len(c)
  BY ConcatProperties
<1>3. Len(a \o (b \o c)) = Len(a) + Len(b \o c)
  BY <1>2, ConcatProperties
<1>4. Len(a) \in Nat /\ Len(b) \in Nat /\ Len(c) \in Nat
  OBVIOUS
<1> QED  BY <1>1, <1>2, <1>3, <1>4

LEMMA CatMonotone ==
    ASSUME NEW A, NEW B, NEW C, NEW D, A \subseteq C, B \subseteq D
    PROVE  Cat(A, B) \subseteq Cat(C, D)
<1> DEFINE J(n) == {a \o b : a \in {x \in A : Len(x) = n}, b \in {y \in B : n + Len(y) <= MaxAnswer}}
           K(n) == {a \o b : a \in {x \in C : Len(x) = n}, b \in {y \in D : n + Len(y) <= MaxAnswer}}
<1>1. Cat(A, B) = UNION {J(n) : n \in 0..MaxAnswer} /\ Cat(C, D) = UNION {K(n) : n \in 0..MaxAnswer}
  BY DEF Cat
<1>2. ASSUME NEW n \in 0..MaxAnswer  PROVE J(n) \subseteq K(n)
  OBVIOUS
<1> HIDE DEF J, K
<1> QED  BY <1>1, <1>2

\* What is in both parts of a pair of sets.
LEMMA CatParts ==
    ASSUME NEW A, NEW B, NEW c \in Cat(A, B)
    PROVE  \E a \in A, b \in B : c = a \o b
<1> DEFINE J(n) == {a \o b : a \in {x \in A : Len(x) = n}, b \in {y \in B : n + Len(y) <= MaxAnswer}}
<1>1. Cat(A, B) = UNION {J(n) : n \in 0..MaxAnswer}
  BY DEF Cat
<1>2. PICK n \in 0..MaxAnswer : c \in J(n)
  <2> HIDE DEF J
  <2> QED  BY <1>1
<1> QED  BY <1>2

LEMMA PreambleOver ==
    ASSUME NEW counted \in BOOLEAN
    PROVE  /\ Preambles[counted] = CellsOf(PreambleSeries(counted)) /\ Preambles[counted] \subseteq Seq(0..3)
           /\ \A m : PreambleOf(counted, m) \subseteq Preambles[counted]
<1>1. Preambles[counted] = CellsOf(PreambleSeries(counted))
  BY DEF Preambles, PreambleSeries
<1>2. \A p \in PreambleSeries(counted) : p.cells \in Seq(0..3)
  BY PreamblesOver DEF ElementsOver
<1> QED  BY <1>1, <1>2 DEF CellsOf, PreambleOf

LEMMA SectionCells ==
    ASSUME NEW counted \in BOOLEAN
    PROVE  /\ \A s \in Sections[counted] : s.cells \in Seq(0..3)
           /\ CellsOf(Sections[counted]) \subseteq Seq(0..3)
<1>1. \A s \in Sections[counted] : s.cells \in Seq(0..3)
  BY SectionsOver DEF ElementsOver
<1> QED  BY <1>1 DEF CellsOf

LEMMA HeadedOver ==
    ASSUME NEW counted \in BOOLEAN, NEW code \in Nat
    PROVE  /\ Cat(Preambles[counted], Number(code)) \subseteq Seq(0..3)
           /\ \A list : Headed(counted, code, list) \subseteq Seq(0..3)
           /\ \A size, free : Heads(counted, code, size, free) \subseteq Seq(0..3)
<1>1. Cat(Preambles[counted], Number(code)) \subseteq Seq(0..3)
  BY PreambleOver, NumbersOver, CatOver
<1> DEFINE B == Cat(Preambles[counted], Number(code))
<1>2. ASSUME NEW A \in SUBSET Sections[counted]  PROVE Cat(B, CellsOf(A)) \subseteq Seq(0..3)
  <2>1. CellsOf(A) \subseteq Seq(0..3)
    BY SectionCells DEF CellsOf
  <2> HIDE DEF B
  <2> QED  BY <1>1, <2>1, CatOver DEF B
<1>3. ASSUME NEW list  PROVE Headed(counted, code, list) \subseteq Seq(0..3)
  <2>1. {s \in Sections[counted] : s.says = list} \in SUBSET Sections[counted]
    OBVIOUS
  <2> HIDE DEF B
  <2> QED  BY <1>2, <2>1 DEF Headed, B
<1>4. ASSUME NEW size, NEW free  PROVE Heads(counted, code, size, free) \subseteq Seq(0..3)
  <2>1. {s \in Sections[counted] : IF free THEN LengthsAgree(s.says) ELSE Declares(s.says, size)}
            \in SUBSET Sections[counted]
    OBVIOUS
  <2> HIDE DEF B
  <2> QED  BY <1>2, <2>1 DEF Heads, B
<1> QED  BY <1>1, <1>3, <1>4

\* A head is one that its declared lengths allow.
LEMMA HeadedHeads ==
    ASSUME NEW counted \in BOOLEAN, NEW code \in Nat, NEW list, LengthsAgree(list), NEW size, NEW free \in BOOLEAN,
           free \/ \A v \in DeclaredLengths(list) : Decimal(v) = size
    PROVE  Headed(counted, code, list) \subseteq Heads(counted, code, size, free)
<1>1. CellsOf({s \in Sections[counted] : s.says = list})
          \subseteq CellsOf({s \in Sections[counted] : IF free THEN LengthsAgree(s.says) ELSE Declares(s.says, size)})
  BY DEF CellsOf, Declares
<1> QED  BY <1>1, CatMonotone DEF Headed, Heads

LEMMA CarriedOver ==
    ASSUME NEW counted \in BOOLEAN, NEW content \in Contents
    PROVE  Carried(counted, content) \subseteq Seq(AnswerCell)
<1>1. CASE counted
  BY <1>1, ContentsAre, CarryOver DEF Carried
<1>2. CASE ~counted
  <2>1. CellsOf({e \in PieceSeries : e.says = content}) \subseteq Seq(AnswerCell)
    BY PieceSeriesOver DEF CellsOf, PieceKind, ElementsOver
  <2>2. Number(0) \subseteq Seq(AnswerCell)
    BY NumbersOver, SeqsOfCells
  <2> QED  BY <1>2, <2>1, <2>2, CatOver DEF Carried, PieceSeries
<1> QED  BY <1>1, <1>2

LEMMA CarryingOver ==
    ASSUME NEW counted \in BOOLEAN, NEW code \in Nat, NEW free, NEW content \in Contents
    PROVE  Carrying(counted, free, code, content) \subseteq Seq(AnswerCell)
BY HeadedOver, CarriedOver, SeqsOfCells, CatOver DEF Carrying

-----------------------------------------------------------------------------
(* Sections, as they are read. *)

\* Behind some cells, a whole section.
SectionAfter(cells, before, counted, list) ==
    \E b \in before : \E s \in Sections[counted] : cells = b \o s.cells /\ s.says = list

LEMMA NothingYet ==
    ASSUME NEW counted \in BOOLEAN, NEW before \in SUBSET Seq(AnswerCell), NEW b \in before
    PROVE  Reaches(b, before, counted, <<>>, 0)
<1>1. b = b \o Empty.cells /\ Empty.says = <<>> /\ Empty.counts = 0 /\ Empty \in SectionSeries(counted)
  BY SectionSeriesOver, EmptyTyped, ConcatEmptySeq
<1> QED  BY <1>1 DEF Reaches

LEMMA NothingReached ==
    ASSUME NEW counted \in BOOLEAN, NEW before \in SUBSET Seq(AnswerCell), NEW cells, NEW list,
           Reaches(cells, before, counted, list, 0)
    PROVE  cells \in before /\ list = <<>>
<1>1. PICK b \in before : cells = b \o Empty.cells /\ Empty.says = list
  BY DEF Reaches
<1> QED  BY <1>1, EmptyTyped, ConcatEmptySeq

LEMMA SectionEnds ==
    ASSUME NEW before \in SUBSET Seq(AnswerCell), NEW cells, NEW list, NEW size,
           Reaches(cells, before, FALSE, list, size), NEW z \in Number(0)
    PROVE  SectionAfter(cells \o z, before, FALSE, list)
<1>1. PICK b \in before, e \in SectionSeries(FALSE) : cells = b \o e.cells /\ e.says = list
  BY DEF Reaches
<1>2. e \in ElementsOver(0..3, FieldPair) /\ e.cells \in Seq(0..3) /\ z \in Seq(0..3)
  BY SectionSeriesOver, NumbersOver DEF ElementsOver
<1> DEFINE w == e.cells \o z
           s == [e EXCEPT !.cells = w]
<1>3. s.cells = w /\ s.says = list
  BY <1>1, <1>2 DEF ElementsOver
<1>4. s \in Sections[FALSE]
  <2>1. s \in Closed(e, FALSE)
    BY DEF Closed
  <2> HIDE DEF s
  <2> QED  BY <2>1 DEF Sections, SectionSeries
<1>5. (b \o e.cells) \o z = b \o w
  <2> DEFINE u == e.cells
  <2>1. b \in Seq(AnswerCell) /\ u \in Seq(AnswerCell) /\ z \in Seq(AnswerCell)
    BY <1>2, SeqsOfCells
  <2> HIDE DEF u
  <2>2. (b \o u) \o z = b \o (u \o z)
    BY <2>1, Regrouped
  <2> QED  BY <2>2 DEF u
<1> HIDE DEF s, w
<1> QED  BY <1>1, <1>3, <1>4, <1>5 DEF SectionAfter

LEMMA KnownSectionEnds ==
    ASSUME NEW before \in SUBSET Seq(AnswerCell), NEW cells, NEW list, Reaches(cells, before, TRUE, list, 0),
           NEW c \in Encodings, NEW d \in Seq(0..3), Len(d) = Value(c), Len(d) <= FieldsLimit, Len(d) <= MaxAnswer,
           SliceFields(d).ok
    PROVE  SectionAfter(cells \o (c \o d), before, TRUE, SliceFields(d).fields)
<1>1. PICK e \in SectionSeries(TRUE) : e.cells = d /\ e.says = SliceFields(d).fields
  BY KnownSection
<1> DEFINE w == c \o d
           s == [e EXCEPT !.cells = w]
<1>2. e \in ElementsOver(0..3, FieldPair)
  BY SectionSeriesOver
<1>3. s.cells = w /\ s.says = SliceFields(d).fields
  BY <1>1, <1>2 DEF ElementsOver
<1>4. w \in Vector(e.cells)
  BY <1>1, VectorHas
<1>5. s \in Sections[TRUE]
  <2>1. s \in Closed(e, TRUE)
    <3> HIDE DEF w
    <3> QED  BY <1>4 DEF Closed
  <2> HIDE DEF s
  <2> QED  BY <2>1 DEF Sections, SectionSeries
<1>6. cells \in before
  BY NothingReached
<1> HIDE DEF s, w
<1> QED  BY <1>3, <1>5, <1>6 DEF SectionAfter, w

\* One line more.
LEMMA LineRead ==
    ASSUME NEW before \in SUBSET Seq(AnswerCell), NEW cells, NEW list, NEW size \in Nat,
           Reaches(cells, before, FALSE, list, size),
           NEW n \in FieldNames, NEW v \in FieldValues, Insertable(list, n, v),
           NEW cn \in Numbers(Len(n)), NEW cv \in Numbers(Len(v)),
           Len(cells \o (((cn \o n) \o cv) \o v)) <= MaxAnswer, (size + Len(n)) + Len(v) <= FieldsLimit
    PROVE  Reaches(cells \o (((cn \o n) \o cv) \o v), before, FALSE, Append(list, <<n, v>>), (size + Len(n)) + Len(v))
<1>1. PICK b \in before, e \in SectionSeries(FALSE) : cells = b \o e.cells /\ e.says = list /\ e.counts = size
  BY DEF Reaches
<1>2. e \in ElementsOver(0..3, FieldPair) /\ e.cells \in Seq(0..3) /\ e.says \in Seq(FieldPair)
  BY SectionSeriesOver DEF ElementsOver
<1>3. n \in Seq(0..3) /\ v \in Seq(0..3) /\ Len(n) \in Nat /\ Len(v) \in Nat /\ Len(n) >= 1
  BY RustOhttpAssumption DEF Insertable, Legal
<1>4. cn \in Encodings /\ cv \in Encodings /\ Value(cn) = Len(n) /\ Value(cv) = Len(v)
  BY DEF Numbers
<1>5. cn \in Seq(0..3) /\ cv \in Seq(0..3)
  BY <1>4, ReadsNumber
<1> DEFINE x == cn \o n
           y == cv \o v
           w == x \o y
           f == <<n, v>>
           g == Element(w, <<f>>, Len(n) + Len(v))
<1>6. x \in Vector(n) /\ y \in Vector(v)
  BY <1>4, VectorHas
<1>7. x \in Seq(0..3) /\ y \in Seq(0..3) /\ w \in Seq(0..3)
  BY <1>3, <1>5
<1>8. (x \o cv) \o v = w
  <2>1. (x \o cv) \o v = x \o (cv \o v)
    <3>1. x \in Seq(AnswerCell) /\ cv \in Seq(AnswerCell) /\ v \in Seq(AnswerCell)
      BY <1>3, <1>5, <1>7, SeqsOfCells
    <3> HIDE DEF x
    <3> QED  BY <3>1, Regrouped, SMTT(20)
  <2> QED  BY <2>1
<1> HIDE DEF x, y
<1>9. Len(cells \o w) <= MaxAnswer
  BY <1>8 DEF x
<1>10. b \in Seq(AnswerCell) /\ e.cells \in Seq(AnswerCell) /\ w \in Seq(AnswerCell)
  BY <1>2, <1>7, SeqsOfCells
<1> HIDE DEF w
<1> DEFINE u == e.cells
<1> HIDE DEF u
<1>11. (b \o u) \o w = b \o (u \o w) /\ Len(b \o (u \o w)) = (Len(b) + Len(u)) + Len(w)
  <2>1. b \in Seq(AnswerCell) /\ u \in Seq(AnswerCell) /\ w \in Seq(AnswerCell)
    BY <1>10 DEF u
  <2> QED  BY <2>1, Regrouped, SMTT(20)
<1>20. cells \o w = b \o (u \o w)
  BY <1>1, <1>11 DEF u
<1>12. Len(u) + Len(w) <= MaxAnswer /\ Len(x) + Len(y) <= MaxAnswer
  <2>1. Len(b) \in Nat /\ Len(u) \in Nat /\ Len(w) \in Nat /\ MaxAnswer \in Nat
    BY <1>10, RustOhttpAssumption DEF u
  <2>2. Len(w) = Len(x) + Len(y)
    BY <1>7, ConcatProperties DEF w
  <2>3. Len(x) \in Nat /\ Len(y) \in Nat
    BY <1>7
  <2> QED  BY <1>9, <1>11, <1>20, <2>1, <2>2, <2>3
<1>13. w \in Cat(Vector(n), Vector(v))
  BY <1>6, <1>7, <1>12, CatHas DEF w
<1>14. g \in FieldElements(FALSE)
  <2> DEFINE J(h) == {Element(c, <<h>>, Len(h[1]) + Len(h[2])) : c \in Cat(Vector(h[1]), Vector(h[2]))}
  <2>1. FieldElements(FALSE) = UNION {J(h) : h \in {z \in FieldNames \X FieldValues : Legal(z)}}
    BY DEF FieldElements
  <2>2. f[1] = n /\ f[2] = v /\ Legal(f)
    BY DEF Legal, Insertable
  <2>3. g \in J(f)
    <3> HIDE DEF f
    <3> QED  BY <1>13, <2>2
  <2>4. f \in {z \in FieldNames \X FieldValues : Legal(z)}
    BY <2>2
  <2> HIDE DEF J, f, g
  <2> QED  BY <2>1, <2>3, <2>4
<1>15. g.cells = w /\ g.says = <<f>> /\ g.counts = Len(n) + Len(v)
  BY DEF Element
<1> HIDE DEF g
<1>17. Beside(e, g).says = Append(list, f) /\ Fits(Append(list, f))
  <2>1. f \in FieldPair
    BY <1>3 DEF FieldPair
  <2>2. e.says \o <<f>> = Append(e.says, f)
    <3> HIDE DEF f, FieldPair
    <3> QED  BY <1>2, <2>1
  <2>3. Room(list)
    BY DEF Insertable
  <2> HIDE DEF f, FieldPair
  <2> QED  BY <1>1, <1>2, <1>15, <2>1, <2>2, <2>3, BesideIs, RoomForOne
<1>16. Beside(e, g) \in SectionSeries(FALSE)
  <2>1. Len(e.cells) + Len(g.cells) <= MaxAnswer /\ e.counts + g.counts <= FieldsLimit /\ FieldsLimit \in Nat
    BY <1>1, <1>3, <1>12, <1>15, RustOhttpAssumption DEF u
  <2>2. {Empty} \in SUBSET ElementsOver(0..3, FieldPair) /\ FieldElements(FALSE) \in SUBSET ElementsOver(0..3, FieldPair)
    BY EmptyTyped, FieldElementsOver
  <2>3. Kept(ElementsOver(0..3, FieldPair), 0..3, FieldPair)
    BY ElementsKept
  <2>4. \A z \in FieldElements(FALSE) : z.counts >= 1
    BY FieldElementsOver
  <2>5. e \in Series({Empty}, FieldElements(FALSE), FieldsLimit)
    BY DEF SectionSeries
  <2> HIDE DEF FieldPair
  <2>6. Beside(e, g) \in Series({Empty}, FieldElements(FALSE), FieldsLimit)
    BY <1>14, <2>1, <2>2, <2>3, <2>4, <2>5, SeriesGrows
  <2> QED  BY <1>17, <2>6 DEF SectionSeries
<1>18. Beside(e, g).cells = e.cells \o w /\ Beside(e, g).counts = (size + Len(n)) + Len(v) /\ (size + Len(n)) + Len(v) # 0
  <2>1. size + (Len(n) + Len(v)) = (size + Len(n)) + Len(v) /\ (size + Len(n)) + Len(v) # 0
    BY <1>3
  <2> QED  BY <1>1, <1>15, <2>1, BesideIs
<1> HIDE DEF f
<1>19. Reaches(cells \o w, before, FALSE, Append(list, f), (size + Len(n)) + Len(v))
  BY <1>20, <1>16, <1>17, <1>18 DEF Reaches, u
<1> QED  BY <1>8, <1>19 DEF f, x

\* A whole section behind an informational status is one answer more.
LEMMA InterimEnds ==
    ASSUME NEW counted \in BOOLEAN, NEW m \in Nat, m >= 1, m <= MaxInformational, NEW code \in Informational,
           NEW cells, Len(cells) <= MaxAnswer, NEW list,
           SectionAfter(cells, Cat(PreambleOf(counted, m - 1), Number(code)), counted, list)
    PROVE  cells \in PreambleOf(counted, m)
<1>1. PICK b \in Cat(PreambleOf(counted, m - 1), Number(code)), s \in Sections[counted] : cells = b \o s.cells
  BY DEF SectionAfter
<1>2. PICK prior \in PreambleOf(counted, m - 1), n \in Number(code) : b = prior \o n
  BY CatParts
<1>3. PICK p \in PreambleSeries(counted) : prior = p.cells /\ p.counts = m - 1
  BY <1>2 DEF PreambleOf, CellsOf
<1> DEFINE u == s.cells
           w == n \o u
           i == Element(w, <<>>, 1)
<1>4. p \in ElementsOver(0..3, FieldPair) /\ prior \in Seq(0..3) /\ p.says \in Seq(FieldPair)
  BY <1>3, PreamblesOver DEF ElementsOver
<1>5. code \in Nat /\ n \in Seq(0..3) /\ u \in Seq(0..3)
  <2>1. code \in Nat
    BY RustOhttpAssumption
  <2> QED  BY <2>1, NumbersOver, SectionCells
<1>6. i \in Interims(counted)
  <2> DEFINE I(x) == {Element(y \o x.cells, <<>>, 1) : y \in UNION {Number(c) : c \in Informational}}
  <2>1. Interims(counted) = UNION {I(x) : x \in Sections[counted]}
    BY DEF Interims
  <2>2. i \in I(s)
    BY <1>2
  <2> HIDE DEF I, i
  <2> QED  BY <2>1, <2>2
<1>7. prior \in Seq(AnswerCell) /\ n \in Seq(AnswerCell) /\ u \in Seq(AnswerCell)
  BY <1>4, <1>5, SeqsOfCells
<1>8. i.cells = w /\ i.says = <<>> /\ i.counts = 1
  BY DEF Element
<1> HIDE DEF u, i
<1>9. (prior \o n) \o u = prior \o w /\ Len(prior \o w) = Len(prior) + Len(w)
  <2>1. (prior \o n) \o u = prior \o (n \o u) /\ n \o u \in Seq(AnswerCell)
    BY <1>7, Regrouped
  <2> HIDE DEF w
  <2> QED  BY <1>7, <2>1, ConcatProperties DEF w
<1>10. cells = prior \o w
  BY <1>1, <1>2, <1>9 DEF u
<1> HIDE DEF w
<1>11. Beside(p, i) \in PreambleSeries(counted)
  <2>1. Len(p.cells) + Len(i.cells) <= MaxAnswer /\ p.counts + i.counts <= MaxInformational
    <3>1. Len(prior) + Len(w) <= MaxAnswer /\ (m - 1) + 1 = m
      BY <1>9, <1>10
    <3> QED  BY <1>3, <1>8, <3>1
  <2>2. Framings(counted) \in SUBSET ElementsOver(0..3, FieldPair)
    BY PreamblesOver
  <2>3. Interims(counted) \in SUBSET ElementsOver(0..3, FieldPair) /\ \A b2 \in Interims(counted) : b2.counts >= 1
    BY PreamblesOver
  <2>4. Kept(ElementsOver(0..3, FieldPair), 0..3, FieldPair) /\ MaxInformational \in Nat
    BY ElementsKept, RustOhttpAssumption
  <2>5. p \in Series(Framings(counted), Interims(counted), MaxInformational)
    BY DEF PreambleSeries
  <2> HIDE DEF FieldPair
  <2> QED  BY <1>6, <2>1, <2>2, <2>3, <2>4, <2>5, SeriesGrows DEF PreambleSeries
<1>12. Beside(p, i).cells = cells /\ Beside(p, i).counts = m
  <2>1. (m - 1) + 1 = m
    OBVIOUS
  <2> QED  BY <1>3, <1>8, <1>10, <2>1, BesideIs
<1> QED  BY <1>11, <1>12 DEF PreambleOf, CellsOf

LEMMA EmptyContent == <<>> \in Contents /\ Len(<<>>) = 0
<1>1. <<>> \in Seq(ContentCells) /\ Len(<<>>) = 0 /\ Limit \in Nat
  BY RustOhttpAssumption
<1>2. ASSUME NEW c, c = <<>>  PROVE c \in Contents
  <2>1. c \in Seq(ContentCells) /\ Len(c) <= Limit
    BY <1>1, <1>2
  <2> QED  BY <2>1, ContentsAre
<1> QED  BY <1>1, <1>2

\* The section of a final answer is a head, with nothing behind it.
LEMMA HeadEnds ==
    ASSUME NEW counted \in BOOLEAN, NEW m, NEW code \in Nat, NEW cells, Len(cells) <= MaxAnswer, NEW list,
           SectionAfter(cells, Cat(PreambleOf(counted, m), Number(code)), counted, list)
    PROVE  InContent(cells, counted, code, list, TRUE, <<>>)
<1>1. PICK b \in Cat(PreambleOf(counted, m), Number(code)), s \in Sections[counted] :
          cells = b \o s.cells /\ s.says = list
  BY DEF SectionAfter
<1> DEFINE u == s.cells
           B == Cat(Preambles[counted], Number(code))
           U == CellsOf({x \in Sections[counted] : x.says = list})
<1>2. b \in B /\ b \in Seq(0..3)
  <2>1. Cat(PreambleOf(counted, m), Number(code)) \subseteq B
    BY PreambleOver, CatMonotone
  <2> QED  BY <2>1, HeadedOver
<1>3. u \in U /\ u \in Seq(0..3)
  BY <1>1, SectionCells DEF CellsOf
<1>4. cells = b \o u
  BY <1>1
<1> HIDE DEF u, B, U
<1>5. Len(b) + Len(u) <= MaxAnswer
  BY <1>2, <1>3, <1>4, ConcatProperties
<1>6. cells \in Cat(B, U)
  BY <1>2, <1>3, <1>4, <1>5, CatHas
<1>7. cells \in Headed(counted, code, list)
  BY <1>6 DEF B, U, Headed
<1>8. cells = cells \o Empty.cells /\ Empty.says = <<>> /\ Empty \in PieceSeries
  <2>1. cells \in Seq(0..3)
    BY <1>7, HeadedOver
  <2> QED  BY <2>1, EmptyTyped, PieceSeriesOver, ConcatEmptySeq
<1> QED  BY <1>7, <1>8 DEF InContent

LEMMA NoContentYet ==
    ASSUME NEW counted \in BOOLEAN, NEW code \in Nat, NEW cells, NEW list, NEW content,
           InContent(cells, counted, code, list, TRUE, content)
    PROVE  content = <<>> /\ cells \in Headed(counted, code, list)
<1>1. PICK h \in Headed(counted, code, list) : cells = h \o Empty.cells /\ Empty.says = content
  BY DEF InContent
<1>2. h \in Seq(0..3)
  BY HeadedOver
<1> QED  BY <1>1, <1>2, EmptyTyped, ConcatEmptySeq

\* The length of a piece, and its cells.
LEMMA PieceBegins ==
    ASSUME NEW counted \in BOOLEAN, NEW code \in Nat, NEW cells, NEW list, NEW none, NEW content,
           InContent(cells, counted, code, list, none, content), NEW c \in Encodings, Value(c) # 0
    PROVE  InPiece(cells \o c, counted, code, list, Value(c), content)
<1>1. PICK h \in Headed(counted, code, list), q \in PieceSeries :
          cells = h \o q.cells /\ q.says = content /\ (counted => q = Empty)
  BY DEF InContent
<1> DEFINE u == q.cells
<1>2. h \in Seq(AnswerCell) /\ u \in Seq(AnswerCell) /\ c \in Seq(AnswerCell) /\ q.says \in Seq(ContentCells)
  BY HeadedOver, PieceSeriesOver, ReadsNumber, SeqsOfCells DEF PieceKind, ElementsOver
<1>3. c \in Number(Value(c)) /\ Value(c) \in 0..7
  BY ReadsNumber
<1>4. <<>> \in Contents /\ Len(<<>>) + Value(c) = Value(c) /\ Len(<<>>) + Value(c) > 0
  BY <1>3, EmptyContent
<1>5. cells = h \o u
  BY <1>1
<1> HIDE DEF u
<1>6. ((h \o u) \o c) \o <<>> = cells \o c
  <2>1. (h \o u) \o c \in Seq(AnswerCell)
    <3>1. h \o u \in Seq(AnswerCell)
      BY <1>2, ConcatProperties
    <3> QED  BY <1>2, <3>1, ConcatProperties
  <2> QED  BY <1>5, <2>1, ConcatEmptySeq
<1>7. content = q.says \o <<>>
  <2> DEFINE v == q.says
  <2>1. v \in Seq(ContentCells) /\ content = v
    BY <1>1, <1>2
  <2> HIDE DEF v
  <2>2. content = v \o <<>>
    BY <2>1, ConcatEmptySeq
  <2> QED  BY <2>2 DEF v
<1> QED  BY <1>1, <1>3, <1>4, <1>6, <1>7 DEF InPiece, u

LEMMA PieceGoesOn ==
    ASSUME NEW counted \in BOOLEAN, NEW code \in Nat, NEW cells, NEW list, NEW left \in Nat, NEW content,
           InPiece(cells, counted, code, list, left, content),
           NEW x \in Seq(ContentCells), Len(x) <= left, Len(content) + Len(x) <= Limit, content \in Seq(ContentCells)
    PROVE  InPiece(cells \o x, counted, code, list, left - Len(x), content \o x)
<1>11. PICK h \in Headed(counted, code, list), q \in PieceSeries, d \in Contents :
           \E n \in Number(Len(d) + left) :
               /\ cells = ((h \o q.cells) \o n) \o d /\ content = q.says \o d /\ Len(d) + left > 0
               /\ counted => q = Empty
  BY DEF InPiece
<1>1. PICK n \in Number(Len(d) + left) :
          /\ cells = ((h \o q.cells) \o n) \o d /\ content = q.says \o d /\ Len(d) + left > 0
          /\ counted => q = Empty
  BY <1>11
<1> DEFINE u == q.cells
           v == q.says
<1>2. d \in Seq(ContentCells) /\ Len(d) \in Nat /\ Len(x) \in Nat /\ Limit \in Nat
  BY ContentsAre, RustOhttpAssumption
<1>3. h \in Seq(AnswerCell) /\ u \in Seq(AnswerCell) /\ v \in Seq(ContentCells) /\ n \in Seq(AnswerCell)
  <2>1. Len(d) + left \in Nat
    BY <1>2
  <2> QED  BY <2>1, HeadedOver, PieceSeriesOver, NumbersOver, SeqsOfCells DEF PieceKind, ElementsOver
<1>4. cells = ((h \o u) \o n) \o d /\ content = v \o d
  BY <1>1
<1> HIDE DEF u, v
<1> DEFINE e == d \o x
<1>5. e \in Seq(ContentCells) /\ Len(e) = Len(d) + Len(x)
  BY <1>2, ConcatProperties
<1>6. (v \o d) \o x = v \o e /\ Len(v \o d) = Len(v) + Len(d) /\ Len(v) \in Nat
  <2>1. v \in Seq(ContentCells) /\ d \in Seq(ContentCells) /\ x \in Seq(ContentCells)
    BY <1>2, <1>3
  <2>2. (v \o d) \o x = v \o (d \o x)
    <3>1. v \in Seq(AnswerCell) /\ d \in Seq(AnswerCell) /\ x \in Seq(AnswerCell)
      BY <2>1, SeqsOfCells
    <3> HIDE DEF e
    <3> QED  BY <3>1, Regrouped, SMTT(20)
  <2>3. Len(v \o d) = Len(v) + Len(d) /\ Len(v) \in Nat
    BY <2>1, ConcatProperties
  <2> QED  BY <2>2, <2>3
<1>7. cells \o x = ((h \o u) \o n) \o e
  <2> DEFINE w == (h \o u) \o n
  <2>1. w \in Seq(AnswerCell) /\ d \in Seq(AnswerCell) /\ x \in Seq(AnswerCell)
    <3>1. h \o u \in Seq(AnswerCell)
      BY <1>3, ConcatProperties
    <3> QED  BY <1>2, <1>3, <3>1, ConcatProperties, SeqsOfCells
  <2> HIDE DEF w
  <2>2. (w \o d) \o x = w \o (d \o x)
    BY <2>1, Regrouped, SMTT(20)
  <2> QED  BY <1>4, <2>2 DEF w
<1> HIDE DEF e
<1>8. e \in Contents
  <2>1. Len(e) <= Limit
    BY <1>2, <1>4, <1>5, <1>6
  <2> QED  BY <1>5, <2>1, ContentsAre
<1>9. Len(e) + (left - Len(x)) = Len(d) + left
  BY <1>2, <1>5
<1>10. content \o x = v \o e
  BY <1>4, <1>6 DEF e
<1> QED  BY <1>1, <1>7, <1>8, <1>9, <1>10 DEF InPiece, u, v

\* The last cell of a piece of an answer of indeterminate length.
LEMMA PieceEnds ==
    ASSUME NEW code \in Nat, NEW cells, Len(cells) <= MaxAnswer, NEW list, NEW content \in Contents,
           InPiece(cells, FALSE, code, list, 0, content)
    PROVE  InContent(cells, FALSE, code, list, FALSE, content)
<1>14. PICK h \in Headed(FALSE, code, list), q \in PieceSeries, d \in Contents : \E n \in Number(Len(d) + 0) :
          cells = ((h \o q.cells) \o n) \o d /\ content = q.says \o d /\ Len(d) + 0 > 0
  BY DEF InPiece
<1>1. PICK n \in Number(Len(d) + 0) :
          cells = ((h \o q.cells) \o n) \o d /\ content = q.says \o d /\ Len(d) + 0 > 0
  BY <1>14
<1> DEFINE u == q.cells
           v == q.says
           w == n \o d
           g == Element(w, d, Len(d))
<1>2. d \in Seq(ContentCells) /\ Len(d) \in Nat /\ Len(d) + 0 = Len(d) /\ Limit \in Nat /\ MaxAnswer \in Nat
  BY ContentsAre, RustOhttpAssumption
<1>3. q \in PieceKind /\ u \in Seq(AnswerCell) /\ v \in Seq(ContentCells) /\ q.counts = Len(v)
  BY PieceSeriesOver DEF PieceKind, ElementsOver
<1>4. h \in Seq(AnswerCell) /\ n \in Seq(AnswerCell) /\ d \in Seq(AnswerCell) /\ n \in Number(Len(d))
  BY <1>1, <1>2, HeadedOver, NumbersOver, SeqsOfCells
<1>5. cells = ((h \o u) \o n) \o d /\ content = v \o d
  BY <1>1
<1>6. w \in Vector(d) /\ w \in Seq(AnswerCell) /\ d # <<>>
  <2>1. w \in Vector(d)
    BY <1>4 DEF Vector
  <2>2. d # <<>>
    BY <1>1, <1>2
  <2> QED  BY <1>2, <2>1, <2>2, CarryOver
<1>7. g \in Pieces /\ g \in PieceKind
  <2> HIDE DEF w
  <2> QED  BY <1>6, PieceIs
<1>8. g.cells = w /\ g.says = d /\ g.counts = Len(d)
  BY DEF Element
<1> HIDE DEF u, v, g
<1>9. cells = h \o (u \o w) /\ Len(h \o (u \o w)) = (Len(h) + Len(u)) + Len(w)
  <2>1. h \o u \in Seq(AnswerCell)
    BY <1>3, <1>4, ConcatProperties
  <2>2. ((h \o u) \o n) \o d = (h \o u) \o (n \o d)
    <3> DEFINE hu == h \o u
    <3> HIDE DEF hu
    <3>1. (hu \o n) \o d = hu \o (n \o d)
      BY <1>4, <2>1, Regrouped, SMTT(20) DEF hu
    <3> QED  BY <3>1 DEF hu
  <2>3. cells = (h \o u) \o w
    BY <1>5, <2>2
  <2> HIDE DEF w
  <2>4. (h \o u) \o w = h \o (u \o w) /\ Len(h \o (u \o w)) = (Len(h) + Len(u)) + Len(w)
    <3>1. h \in Seq(AnswerCell) /\ u \in Seq(AnswerCell) /\ w \in Seq(AnswerCell)
      BY <1>3, <1>4, <1>6
    <3> QED  BY <3>1, Regrouped
  <2> QED  BY <2>3, <2>4
<1> HIDE DEF w
<1>10. Len(q.cells) + Len(g.cells) <= MaxAnswer
  <2>1. Len(h) \in Nat /\ Len(u) \in Nat /\ Len(w) \in Nat
    BY <1>3, <1>4, <1>6
  <2>2. Len(u) + Len(w) <= MaxAnswer
    BY <1>2, <1>9, <2>1
  <2> QED  BY <1>8, <2>2 DEF u
<1>11. q.counts + g.counts <= Limit
  <2>1. Len(v \o d) = Len(v) + Len(d)
    BY <1>2, <1>3, ConcatProperties
  <2>2. Len(content) <= Limit
    BY ContentsAre
  <2> QED  BY <1>3, <1>5, <1>8, <2>1, <2>2
<1>12. Beside(q, g) \in PieceSeries
  <2>1. {Empty} \in SUBSET PieceKind
    BY EmptyTyped DEF PieceKind
  <2>2. Pieces \in SUBSET PieceKind /\ \A b \in Pieces : b.counts >= 1
    BY PieceSeriesOver
  <2>3. q \in Series({Empty}, Pieces, Limit)
    BY DEF PieceSeries
  <2> QED  BY <1>2, <1>7, <1>10, <1>11, <2>1, <2>2, <2>3, PiecesKept, SeriesGrows DEF PieceSeries
<1>13. Beside(q, g).cells = u \o w /\ Beside(q, g).says = content
  BY <1>5, <1>8, BesideIs DEF u, v
<1> QED  BY <1>1, <1>9, <1>12, <1>13 DEF InContent

-----------------------------------------------------------------------------
(* The content is complete. *)

Delimited(cells, counted, code, list, content) ==
    \E h \in Headed(counted, code, list) : \E w \in Carried(counted, content) : cells = h \o w

LEMMA LastPiece ==
    ASSUME NEW code \in Nat, NEW cells, NEW list, NEW content, InPiece(cells, TRUE, code, list, 0, content)
    PROVE  Delimited(cells, TRUE, code, list, content)
<1>7. PICK h \in Headed(TRUE, code, list), d \in Contents : \E n \in Number(Len(d) + 0) :
          cells = ((h \o Empty.cells) \o n) \o d /\ content = Empty.says \o d
  BY DEF InPiece
<1>1. PICK n \in Number(Len(d) + 0) :
          cells = ((h \o Empty.cells) \o n) \o d /\ content = Empty.says \o d
  BY <1>7
<1>2. d \in Seq(ContentCells) /\ Len(d) + 0 = Len(d) /\ Len(d) \in Nat
  BY ContentsAre
<1>3. h \in Seq(AnswerCell) /\ n \in Seq(AnswerCell) /\ d \in Seq(AnswerCell) /\ n \in Number(Len(d))
  BY <1>1, <1>2, HeadedOver, NumbersOver, SeqsOfCells
<1>4. h \o Empty.cells = h /\ content = d
  BY <1>1, <1>2, <1>3, EmptyTyped, ConcatEmptySeq
<1>5. cells = h \o (n \o d)
  <2>1. (h \o n) \o d = h \o (n \o d)
    BY <1>3, Regrouped
  <2> QED  BY <1>1, <1>4, <2>1
<1>6. n \o d \in Carried(TRUE, content)
  BY <1>3, <1>4 DEF Carried, Vector
<1> QED  BY <1>5, <1>6 DEF Delimited

LEMMA LastLength ==
    ASSUME NEW counted \in BOOLEAN, NEW code \in Nat, NEW cells, NEW list, NEW none, NEW content,
           InContent(cells, counted, code, list, none, content), NEW c \in Number(0), Len(cells \o c) <= MaxAnswer
    PROVE  Delimited(cells \o c, counted, code, list, content)
<1>1. PICK h \in Headed(counted, code, list), q \in PieceSeries :
          cells = h \o q.cells /\ q.says = content /\ (counted => q = Empty)
  BY DEF InContent
<1> DEFINE u == q.cells
<1>2. h \in Seq(AnswerCell) /\ u \in Seq(AnswerCell) /\ c \in Seq(AnswerCell)
  BY HeadedOver, PieceSeriesOver, NumbersOver, SeqsOfCells DEF PieceKind, ElementsOver
<1>3. cells = h \o u
  BY <1>1
<1>4. CASE counted
  <2>1. u = <<>> /\ content = <<>>
    BY <1>1, <1>4, EmptyTyped
  <2>2. c = c \o <<>> /\ Len(<<>>) = 0
    BY <1>2, ConcatEmptySeq
  <2>3. c \in Carried(counted, content)
    BY <1>4, <2>1, <2>2 DEF Carried, Vector
  <2>4. cells = h
    BY <1>2, <1>3, <2>1, ConcatEmptySeq
  <2> QED  BY <2>3, <2>4 DEF Delimited
<1>5. CASE ~counted
  <2> DEFINE U == CellsOf({e \in PieceSeries : e.says = content})
  <2>1. u \in U
    BY <1>1 DEF CellsOf
  <2> HIDE DEF u
  <2>2. (h \o u) \o c = h \o (u \o c) /\ Len(h \o (u \o c)) = (Len(h) + Len(u)) + Len(c)
    BY <1>2, Regrouped
  <2>3. Len(u) + Len(c) <= MaxAnswer
    <3>1. Len(h) \in Nat /\ Len(u) \in Nat /\ Len(c) \in Nat /\ MaxAnswer \in Nat
      BY <1>2, RustOhttpAssumption
    <3> QED  BY <1>3, <2>2, <3>1
  <2> HIDE DEF U
  <2>4. u \o c \in Cat(U, Number(0))
    BY <1>2, <2>1, <2>3, CatHas
  <2>5. u \o c \in Carried(counted, content)
    BY <1>5, <2>4 DEF Carried, PieceSeries, U
  <2> QED  BY <1>3, <2>2, <2>5 DEF Delimited
<1> QED  BY <1>4, <1>5

LEMMA Delimits ==
    ASSUME NEW counted \in BOOLEAN, NEW code \in Nat, NEW cells, Len(cells) <= MaxAnswer, NEW list, LengthsAgree(list),
           NEW content \in Contents, Delimited(cells, counted, code, list, content), NEW free \in BOOLEAN,
           free \/ \A v \in DeclaredLengths(list) : Decimal(v) = Len(content)
    PROVE  cells \in Carrying(counted, free, code, content)
<1>1. PICK h \in Headed(counted, code, list), w \in Carried(counted, content) : cells = h \o w
  BY DEF Delimited
<1>2. h \in Heads(counted, code, Len(content), free)
  BY HeadedHeads
<1>3. h \in Seq(AnswerCell) /\ w \in Seq(AnswerCell)
  BY HeadedOver, CarriedOver, SeqsOfCells
<1>4. Len(h) + Len(w) <= MaxAnswer
  BY <1>1, <1>3, ConcatProperties
<1> QED  BY <1>1, <1>2, <1>3, <1>4, CatHas DEF Carrying

-----------------------------------------------------------------------------
(* Trailers, padding and the end. *)

LEMMA NoZeros == Zeros(0) = <<>>
BY DEF Zeros

LEMMA ZerosAre ==
    ASSUME NEW k \in Nat
    PROVE  Zeros(k) \in Seq(AnswerCell) /\ Len(Zeros(k)) = k /\ Zeros(k) \o <<0>> = Zeros(k + 1)
<1>0. 0 \in AnswerCell
  BY DEF AnswerCell
<1>1. \A m \in Nat : Zeros(m) \in Seq(AnswerCell) /\ Len(Zeros(m)) = m /\ \A i \in 1..m : Zeros(m)[i] = 0
  BY <1>0 DEF Zeros
<1>2. <<0>> \in Seq(AnswerCell) /\ Len(<<0>>) = 1 /\ <<0>>[1] = 0
  BY <1>0
<1> DEFINE a == Zeros(k) \o <<0>>
<1>3. a \in Seq(AnswerCell) /\ Len(a) = k + 1 /\ \A i \in 1..(k + 1) : a[i] = IF i <= k THEN Zeros(k)[i] ELSE <<0>>[i - k]
  <2> DEFINE z == Zeros(k)
             o == <<0>>
  <2>1. z \in Seq(AnswerCell) /\ Len(z) = k /\ o \in Seq(AnswerCell) /\ Len(o) = 1
    BY <1>1, <1>2
  <2>2. a = z \o o
    OBVIOUS
  <2> HIDE DEF z, o, a
  <2>3. a \in Seq(AnswerCell) /\ Len(a) = k + 1 /\ \A i \in 1..(k + 1) : a[i] = IF i <= k THEN z[i] ELSE o[i - k]
    BY <2>1, <2>2, ConcatProperties, SMTT(20)
  <2> QED  BY <2>3 DEF z, o
<1> HIDE DEF a
<1>4. ASSUME NEW i \in 1..(k + 1)  PROVE a[i] = 0
  <2>1. CASE i <= k
    <3>1. Zeros(k)[i] = 0
      BY <1>1, <2>1
    <3>2. a[i] = Zeros(k)[i]
      BY <1>3, <2>1
    <3> QED  BY <3>1, <3>2
  <2>2. CASE i = k + 1
    <3>1. i - k = 1 /\ ~(i <= k)
      BY <2>2
    <3> QED  BY <1>2, <1>3, <3>1
  <2> QED  BY <2>1, <2>2
<1>5. Zeros(k + 1) \in Seq(AnswerCell) /\ Len(Zeros(k + 1)) = k + 1 /\ \A i \in 1..(k + 1) : Zeros(k + 1)[i] = 0
  BY <1>1
<1>6. a = Zeros(k + 1)
  BY <1>3, <1>4, <1>5, SeqEqual
<1> QED  BY <1>1, <1>6 DEF a

LEMMA TrailersEnd ==
    ASSUME NEW counted \in BOOLEAN, NEW code \in Nat, NEW free, NEW cells, Len(cells) <= MaxAnswer,
           NEW content \in Contents, NEW list, SectionAfter(cells, Carrying(counted, free, code, content), counted, list)
    PROVE  InPadding(cells, counted, free, code, content, Len(content))
<1>1. PICK b \in Carrying(counted, free, code, content), s \in Sections[counted] : cells = b \o s.cells
  BY DEF SectionAfter
<1> DEFINE u == s.cells
<1>2. b \in Seq(AnswerCell) /\ u \in Seq(AnswerCell) /\ u \in CellsOf(Sections[counted])
  BY CarryingOver, SectionCells, SeqsOfCells DEF CellsOf
<1>3. cells = b \o u
  BY <1>1
<1> HIDE DEF u
<1>4. Len(b) + Len(u) <= MaxAnswer
  BY <1>2, <1>3, ConcatProperties
<1>5. cells \in Cat(Carrying(counted, free, code, content), CellsOf(Sections[counted]))
  BY <1>2, <1>3, <1>4, CatHas
<1>6. cells = cells \o Zeros(0)
  <2>1. cells \in Seq(AnswerCell)
    BY <1>2, <1>3, ConcatProperties
  <2> QED  BY <2>1, NoZeros, ConcatEmptySeq
<1>7. 0 \in 0..(Limit - Len(content)) /\ Len(content) = Len(content) + 0
  BY ContentsAre, RustOhttpAssumption
<1> QED  BY <1>5, <1>6, <1>7 DEF InPadding

LEMMA PaddedOver ==
    ASSUME NEW counted \in BOOLEAN, NEW code \in Nat, NEW free, NEW content \in Contents
    PROVE  Cat(Carrying(counted, free, code, content), CellsOf(Sections[counted])) \subseteq Seq(AnswerCell)
BY CarryingOver, SectionCells, SeqsOfCells, CatOver

LEMMA PaddingGoesOn ==
    ASSUME NEW counted \in BOOLEAN, NEW code \in Nat, NEW free, NEW cells, NEW content \in Contents, NEW size,
           InPadding(cells, counted, free, code, content, size), size + 1 <= Limit
    PROVE  InPadding(cells \o <<0>>, counted, free, code, content, size + 1)
<1>1. PICK t \in Cat(Carrying(counted, free, code, content), CellsOf(Sections[counted])),
           k \in 0..(Limit - Len(content)) : cells = t \o Zeros(k) /\ size = Len(content) + k
  BY DEF InPadding
<1>2. Len(content) \in Nat /\ Limit \in Nat /\ k \in Nat
  BY ContentsAre, RustOhttpAssumption
<1>3. k + 1 \in 0..(Limit - Len(content)) /\ size + 1 = Len(content) + (k + 1)
  BY <1>1, <1>2
<1>4. t \in Seq(AnswerCell) /\ Zeros(k) \in Seq(AnswerCell) /\ <<0>> \in Seq(AnswerCell)
  <2>1. <<0>> \in Seq(AnswerCell)
    BY DEF AnswerCell
  <2> QED  BY <1>2, <2>1, PaddedOver, ZerosAre
<1>5. (t \o Zeros(k)) \o <<0>> = t \o Zeros(k + 1)
  <2> DEFINE z == <<0>>
             y == Zeros(k)
  <2>1. y \o z = Zeros(k + 1)
    BY <1>2, ZerosAre
  <2> HIDE DEF y, z
  <2>2. (t \o y) \o z = t \o (y \o z)
    BY <1>4, Regrouped DEF y, z
  <2> QED  BY <2>1, <2>2 DEF y, z
<1> QED  BY <1>1, <1>3, <1>5 DEF InPadding

LEMMA WholePadded ==
    ASSUME NEW counted \in BOOLEAN, NEW code \in Nat, NEW head, NEW cells, Len(cells) <= MaxAnswer,
           NEW content \in Contents, NEW size,
           InPadding(cells, counted, head \/ code \in Bodiless, code, content, size)
    PROVE  cells \in WholeMessages(counted, head, code, content)
<1> DEFINE full == Carrying(counted, head \/ code \in Bodiless, code, content)
           B == Cat(full, CellsOf(Sections[counted]))
           zeros == {[j \in 1..n |-> 0] : n \in 0..(Limit - Len(content))}
<1>1. PICK t \in B, k \in 0..(Limit - Len(content)) : cells = t \o Zeros(k)
  BY DEF InPadding
<1>2. Zeros(k) \in zeros
  BY DEF Zeros
<1>3. k \in Nat /\ t \in Seq(AnswerCell) /\ Zeros(k) \in Seq(AnswerCell)
  <2>1. Len(content) \in Nat /\ Limit \in Nat
    BY ContentsAre, RustOhttpAssumption
  <2>2. k \in Nat
    BY <2>1
  <2>3. t \in Seq(AnswerCell)
    BY PaddedOver
  <2> HIDE DEF B
  <2> QED  BY <2>2, <2>3, ZerosAre
<1> DEFINE y == Zeros(k)
<1> HIDE DEF B, zeros
<1>4. Len(t) + Len(y) <= MaxAnswer
  <2> HIDE DEF y
  <2>1. t \in Seq(AnswerCell) /\ y \in Seq(AnswerCell) /\ cells = t \o y
    BY <1>1, <1>3 DEF y
  <2> QED  BY <2>1, ConcatProperties
<1>5. cells \in Cat(B, zeros)
  <2> HIDE DEF y
  <2>1. t \in Seq(AnswerCell) /\ y \in Seq(AnswerCell) /\ cells = t \o y /\ y \in zeros
    BY <1>1, <1>2, <1>3 DEF y
  <2> QED  BY <1>4, <2>1, CatHas
<1> QED  BY <1>5 DEF WholeMessages, Carrying, B, zeros

LEMMA WholeCarrying ==
    ASSUME NEW counted, NEW code, NEW head, NEW content
    PROVE  Carrying(counted, head \/ code \in Bodiless, code, content) \subseteq WholeMessages(counted, head, code, content)
BY DEF WholeMessages, Carrying

LEMMA WholeHead ==
    ASSUME NEW counted \in BOOLEAN, NEW code \in Nat, NEW head \in BOOLEAN, NEW list, LengthsAgree(list),
           (head \/ code \in Bodiless) \/ \A v \in DeclaredLengths(list) : Decimal(v) = 0
    PROVE  Headed(counted, code, list) \subseteq WholeMessages(counted, head, code, <<>>)
<1>1. Headed(counted, code, list) \subseteq Heads(counted, code, 0, head \/ code \in Bodiless)
  BY HeadedHeads
<1>2. Heads(counted, code, Len(<<>>), head \/ code \in Bodiless) \subseteq WholeMessages(counted, head, code, <<>>)
  BY DEF WholeMessages
<1> QED  BY <1>1, <1>2, EmptyContent

LEMMA WholePreamble ==
    ASSUME NEW counted, NEW code, NEW head
    PROVE  Cat(Preambles[counted], Number(code)) \subseteq WholeMessages(counted, head, code, <<>>)
BY DEF WholeMessages

-----------------------------------------------------------------------------
(* What a turn reads. *)

LEMMA LoneReads ==
    ASSUME reader \in {"framing", "status", "content"}, NEW r \in Reads
    PROVE  r.cells \in Encodings
<1>1. r \in Lone
  BY DEF Reads
<1> QED  BY <1>1 DEF Lone

KnownRead(r, c, d) ==
    /\ r.cells = c \o d /\ r.size = Value(c) /\ r.data = d
    /\ Value(c) <= FieldsLimit => Len(d) = Value(c)

LEMMA SectionReads ==
    ASSUME reader \in {"section", "trailers"}, known = TRUE, NEW r \in Reads
    PROVE  \E c \in Encodings, d \in Seq(0..3) : KnownRead(r, c, d)
<1> DEFINE D(c) == IF Value(c) <= FieldsLimit THEN Strings(Value(c), 0..3) ELSE {<<>>}
           J(c) == {[cells |-> c \o d, size |-> Value(c), data |-> d] : d \in D(c)}
<1>1. r \in KnownReads
  BY DEF Reads
<1>2. KnownReads = UNION {J(c) : c \in Encodings}
  BY DEF KnownReads
<1>3. PICK c \in Encodings : r \in J(c)
  <2> HIDE DEF J
  <2> QED  BY <1>1, <1>2
<1>4. PICK d \in D(c) : r = [cells |-> c \o d, size |-> Value(c), data |-> d]
  <2> HIDE DEF D
  <2> QED  BY <1>3
<1>5. r.cells = c \o d /\ r.size = Value(c) /\ r.data = d
  BY <1>4
<1>6. Value(c) \in Nat
  BY ReadsNumber
<1>7. CASE Value(c) <= FieldsLimit
  <2>1. d \in [1..Value(c) -> 0..3]
    BY <1>7 DEF Strings
  <2>2. d \in Seq(0..3) /\ Len(d) = Value(c)
    BY <1>6, <2>1
  <2> QED  BY <1>5, <2>2 DEF KnownRead
<1>8. CASE ~(Value(c) <= FieldsLimit)
  <2>1. d = <<>>
    BY <1>8
  <2>2. d \in Seq(0..3)
    BY <2>1
  <2> QED  BY <1>5, <1>8, <2>2 DEF KnownRead
<1> QED  BY <1>7, <1>8

LastRead(r) == r.name = <<>> /\ r.cells \in Number(0)
LineShape(r, n, v, cn, cv) == r.cells = ((cn \o n) \o cv) \o v /\ r.name = n /\ r.value = v

LEMMA LinesRead ==
    ASSUME reader \in {"section", "trailers"}, known = FALSE, NEW r \in Reads
    PROVE  \/ LastRead(r)
           \/ \E n \in FieldNames, v \in FieldValues : \E cn \in Numbers(Len(n)), cv \in Numbers(Len(v)) :
                  LineShape(r, n, v, cn, cv) /\ n # <<>>
<1> DEFINE A == {[cells |-> c, name |-> <<>>] : c \in Numbers(0)}
           P(n, v) == {[cells |-> ((c \o n) \o d) \o v, name |-> n, value |-> v] :
                           c \in Numbers(Len(n)), d \in Numbers(Len(v))}
<1>1. r \in LineReads
  BY DEF Reads
<1>2. LineReads = A \cup UNION {P(n, v) : n \in FieldNames \ {<<>>}, v \in FieldValues}
  BY DEF LineReads
<1>3. CASE r \in A
  <2>1. PICK c \in Numbers(0) : r = [cells |-> c, name |-> <<>>]
    BY <1>3
  <2>2. c \in Number(0)
    BY ReadsNumber DEF Numbers
  <2> QED  BY <2>1, <2>2 DEF LastRead
<1>4. CASE r \in UNION {P(n, v) : n \in FieldNames \ {<<>>}, v \in FieldValues}
  <2>1. PICK n \in FieldNames \ {<<>>}, v \in FieldValues : r \in P(n, v)
    <3> HIDE DEF P
    <3> QED  BY <1>4
  <2>2. PICK c \in Numbers(Len(n)), d \in Numbers(Len(v)) : r = [cells |-> ((c \o n) \o d) \o v, name |-> n, value |-> v]
    BY <2>1
  <2> QED  BY <2>2 DEF LineShape
<1> HIDE DEF A, P
<1> QED  BY <1>1, <1>2, <1>3, <1>4

LEMMA PieceReads ==
    ASSUME reader = "piece", remaining \in Nat, NEW r \in Reads
    PROVE  r.cells \in Seq(ContentCells) /\ Len(r.cells) <= remaining
<1>1. PICK c \in Strings(Smaller(remaining, ChunkSize), ContentCells) : r = [cells |-> c]
  BY DEF Reads
<1>2. ChunkSize \in Nat
  BY RustOhttpAssumption
<1>3. Smaller(remaining, ChunkSize) \in Nat /\ Smaller(remaining, ChunkSize) <= remaining
  BY <1>2 DEF Smaller
<1>4. c \in Seq(ContentCells) /\ Len(c) = Smaller(remaining, ChunkSize)
  BY <1>3 DEF Strings
<1> QED  BY <1>1, <1>3, <1>4

LEMMA PaddingReads ==
    ASSUME reader = "padding", NEW r \in Reads
    PROVE  r.cells \in Seq(0..3)
<1>1. PICK c \in {0, 1} : r = [cells |-> <<c>>]
  BY DEF Reads
<1>2. <<c>> \in Seq(0..3)
  OBVIOUS
<1> QED  BY <1>1, <1>2

LEMMA ReadsTyped ==
    ASSUME ReaderTypes, NEW r \in Reads
    PROVE  r.cells \in Seq(AnswerCell)
<1>0. known \in BOOLEAN /\ remaining \in Nat
  BY DEF ReaderTypes
<1>1. CASE reader \in {"framing", "status", "content"}
  BY <1>1, LoneReads, ReadsNumber, SeqsOfCells
<1>2. CASE reader \in {"section", "trailers"}
  <2>1. CASE known = TRUE
    <3>1. PICK c \in Encodings, d \in Seq(0..3) : KnownRead(r, c, d)
      BY <1>2, <2>1, SectionReads
    <3>2. c \o d \in Seq(0..3)
      BY ReadsNumber, ConcatProperties
    <3> QED  BY <3>1, <3>2, SeqsOfCells DEF KnownRead
  <2>2. CASE known = FALSE
    <3>1. CASE LastRead(r)
      BY <3>1, NumbersOver, SeqsOfCells DEF LastRead
    <3>2. CASE \E n \in FieldNames, v \in FieldValues : \E cn \in Numbers(Len(n)), cv \in Numbers(Len(v)) :
                   LineShape(r, n, v, cn, cv) /\ n # <<>>
      <4>1. PICK n \in FieldNames, v \in FieldValues : \E cn \in Numbers(Len(n)), cv \in Numbers(Len(v)) :
                   LineShape(r, n, v, cn, cv)
        BY <3>2
      <4>2. PICK cn \in Numbers(Len(n)), cv \in Numbers(Len(v)) : LineShape(r, n, v, cn, cv)
        BY <4>1
      <4>3. cn \in Seq(0..3) /\ cv \in Seq(0..3) /\ n \in Seq(0..3) /\ v \in Seq(0..3)
        BY ReadsNumber, RustOhttpAssumption DEF Numbers
      <4>4. (cn \o n) \o cv \in Seq(0..3)
        BY <4>3
      <4>5. ((cn \o n) \o cv) \o v \in Seq(0..3)
        BY <4>3, <4>4
      <4> QED  BY <4>2, <4>5, SeqsOfCells DEF LineShape
    <3> QED  BY <1>2, <2>2, <3>1, <3>2, LinesRead
  <2> QED  BY <1>0, <2>1, <2>2
<1>3. CASE reader = "piece"
  BY <1>0, <1>3, PieceReads, SeqsOfCells
<1>4. CASE reader = "padding"
  BY <1>4, PaddingReads, SeqsOfCells
<1> QED  BY <1>1, <1>2, <1>3, <1>4 DEF Reads

-----------------------------------------------------------------------------
(* Turns. *)

Turn(r) ==
    ~ended /\ r \in Reads /\ Len(history) + Len(r.cells) <= MaxAnswer /\ Received(r.cells)

LEMMA Turned ==
    ASSUME ReaderTypes, NEW r, Turn(r)
    PROVE  /\ history' = history \o r.cells /\ history' \in Seq(AnswerCell) /\ Len(history') <= MaxAnswer
           /\ r \in Reads /\ r.cells \in Seq(AnswerCell)
           /\ asked' = asked /\ ended = FALSE /\ ended' = FALSE
<1>1. r.cells \in Seq(AnswerCell) /\ history \in Seq(AnswerCell) /\ ended \in BOOLEAN
  BY ReadsTyped DEF ReaderTypes, Turn, AnswerCell
<1>2. history' = history \o r.cells /\ asked' = asked /\ ended' = ended /\ ended = FALSE
  BY <1>1 DEF Turn, Received
<1> DEFINE c == r.cells
<1>3. c \in Seq(AnswerCell) /\ history' = history \o c /\ Len(history) + Len(c) <= MaxAnswer
  BY <1>1, <1>2 DEF Turn
<1> HIDE DEF c
<1>4. history' \in Seq(AnswerCell) /\ Len(history') <= MaxAnswer
  BY <1>1, <1>3, ConcatProperties
<1> QED  BY <1>1, <1>2, <1>4 DEF Turn

\* A place the reader is not at.
LEMMA Elsewhere ==
    /\ reader' # "section" => AtSection'
    /\ reader' # "content" => AtContent'
    /\ reader' \notin {"piece", "counted"} => AtPiece'
    /\ reader' # "trailers" => AtTrailers'
    /\ reader' # "padding" => AtPadding'
    /\ reader' # "done" => CleanEndIsWhole'
    /\ reader' \notin {"ready", "sent", "framing", "status", "section"} => AtStart'
BY DEF AtSection, AtContent, AtPiece, AtTrailers, AtPadding, CleanEndIsWhole, AtStart

LEMMA GaveUp ==
    ASSUME ReaderTypes', reader' \in {"refused", "rejected", "broken"}
    PROVE  ReaderInv'
BY Elsewhere DEF ReaderInv

LEMMA TypesKept ==
    ASSUME ReaderTypes, UNCHANGED messageVars, asked' = asked, history' \in Seq(AnswerCell),
           Len(history') <= MaxAnswer, ended' \in BOOLEAN
    PROVE  ReaderTypes'
BY DEF ReaderTypes, messageVars, AnswerCell

LEMMA Rejects ==
    ASSUME ReaderTypes, NEW r, Turn(r), Reject
    PROVE  ReaderInv'
<1>1. ReaderTypes'
  BY Turned, TypesKept DEF Reject
<1> QED  BY <1>1, GaveUp DEF Reject

LEMMA NoBodyIs ==
    ASSUME ReaderTypes
    PROVE  asked.head \in BOOLEAN /\ NoBody \in BOOLEAN /\ (NoBody <=> (asked.head \/ status \in Bodiless))
BY RustOhttpAssumption DEF ReaderTypes, NoBody

LEMMA FramingTurn ==
    ASSUME ReaderInv, NEW r, Turn(r), ReadFraming(r)
    PROVE  ReaderInv'
<1>1. ReaderTypes /\ reader = "framing" /\ history = <<>> /\ informational = 0 /\ firstPiece /\ total = 0 /\ delivered = <<>>
  BY DEF ReaderInv, AtStart, ReadFraming
<1> DEFINE c == r.cells
<1>2. /\ history' = history \o c /\ history' \in Seq(AnswerCell) /\ Len(history') <= MaxAnswer
      /\ c \in Encodings /\ asked' = asked /\ ended' = FALSE
  BY <1>1, Turned, LoneReads
<1>3. CASE Value(c) \notin {1, 3}
  BY <1>1, <1>3, Rejects DEF ReadFraming
<1>4. CASE Value(c) \in {1, 3}
  <2>1. /\ reader' = "status" /\ known' = (Value(c) = 1)
        /\ UNCHANGED <<informational, status, fields, used, firstPiece, remaining, total, delivered>>
    BY <1>4 DEF ReadFraming
  <2> HIDE DEF c
  <2>2. known' \in BOOLEAN /\ c \in Number(IF known' THEN 1 ELSE 3)
    BY <1>2, <1>4, <2>1, ReadsNumber
  <2>3. ReaderTypes'
    <3>1. history' \in Seq(0..3 \cup ContentCells) /\ Len(history') <= MaxAnswer
      BY <1>2 DEF AnswerCell
    <3> QED  BY <1>1, <1>2, <2>1, <2>2, <3>1 DEF ReaderTypes
  <2>4. history' = c
    <3>1. c \in Seq(0..3)
      BY <1>2, ReadsNumber
    <3> QED  BY <1>1, <1>2, <3>1, ConcatEmptySeq
  <2>5. c \in PreambleOf(known', 0)
    <3> DEFINE p == Element(c, <<>>, 0)
    <3>1. p \in Framings(known')
      BY <2>2 DEF Framings
    <3>2. p \in PreambleSeries(known')
      <4> HIDE DEF p
      <4> QED  BY <2>2, <3>1, PreamblesOver
    <3>3. p.cells = c /\ p.counts = 0
      BY DEF Element
    <3> HIDE DEF p
    <3> QED  BY <3>2, <3>3 DEF PreambleOf, CellsOf
  <2>6. AtStart'
    BY <1>1, <2>1, <2>4, <2>5 DEF AtStart
  <2> QED  BY <2>1, <2>3, <2>6, Elsewhere DEF ReaderInv
<1> QED  BY <1>3, <1>4

LEMMA StatusTurn ==
    ASSUME ReaderInv, NEW r, Turn(r), ReadStatus(r)
    PROVE  ReaderInv'
<1> DEFINE c == r.cells
           code == Value(c)
           more == informational + IF code \in Informational THEN 1 ELSE 0
           m == IF code \in Informational THEN more - 1 ELSE more
           before == Cat(PreambleOf(known, m), Number(code))
<1>1. /\ ReaderTypes /\ reader = "status" /\ firstPiece /\ total = 0 /\ delivered = <<>>
      /\ history \in PreambleOf(known, informational) /\ known \in BOOLEAN /\ informational \in Nat
  BY DEF ReaderInv, AtStart, ReadStatus, Turn, ReaderTypes
<1>2. /\ history' = history \o c /\ history' \in Seq(AnswerCell) /\ Len(history') <= MaxAnswer
      /\ c \in Encodings /\ asked' = asked /\ ended' = FALSE
  BY <1>1, Turned, LoneReads
<1>3. CASE code \notin Informational \cup Final \/ more > MaxInformational
  BY <1>1, <1>3, Rejects DEF ReadStatus
<1>4. CASE ~(code \notin Informational \cup Final \/ more > MaxInformational)
  <2>1. /\ reader' = "section" /\ status' = code /\ informational' = more /\ fields' = <<>> /\ used' = 0
        /\ UNCHANGED <<known, firstPiece, remaining, total, delivered>>
    BY <1>4 DEF ReadStatus
  <2> HIDE DEF c
  <2>2. code \in Informational \cup Final /\ more \in Nat /\ more <= MaxInformational /\ m = informational
    <3>1. MaxInformational \in Nat
      BY RustOhttpAssumption
    <3>2. more \in Nat /\ m = informational
      BY <1>1
    <3> HIDE DEF more
    <3> QED  BY <1>4, <3>1, <3>2
  <2>3. ReaderTypes'
    <3>1. history' \in Seq(0..3 \cup ContentCells) /\ Len(history') <= MaxAnswer
      BY <1>2 DEF AnswerCell
    <3> HIDE DEF more, code
    <3> QED  BY <1>1, <1>2, <2>1, <2>2, <3>1 DEF ReaderTypes
  <2>4. code \in Informational => more >= 1
    BY <1>1
  <2>5. history' \in before
    <3>1. c \in Number(code) /\ c \in Seq(0..3)
      BY <1>2, ReadsNumber
    <3>2. history \in Seq(0..3)
      BY <1>1, PreambleOver
    <3>3. Len(history) + Len(c) <= MaxAnswer
      BY <1>2, <3>1, <3>2, ConcatProperties
    <3> HIDE DEF m, code
    <3> QED  BY <1>1, <1>2, <2>2, <3>1, <3>2, <3>3, CatHas
  <2>6. before \in SUBSET Seq(AnswerCell)
    <3>1. PreambleOf(known, m) \subseteq Seq(0..3)
      <4> HIDE DEF m
      <4> QED  BY <1>1, PreambleOver
    <3>2. Number(code) \subseteq Seq(0..3)
      <4>1. code \in Nat
        BY <1>2, ReadsNumber
      <4> HIDE DEF code
      <4> QED  BY <4>1, NumbersOver
    <3> HIDE DEF m, code
    <3> QED  BY <3>1, <3>2, CatOver, SeqsOfCells
  <2>7. Reaches(history', before, known, <<>>, 0)
    <3> HIDE DEF before
    <3> QED  BY <1>1, <2>5, <2>6, NothingYet
  <2>8. AtSection'
    <3>1. before = Cat(PreambleOf(known', IF status' \in Informational THEN informational' - 1 ELSE informational'), Number(status'))
      BY <2>1
    <3> HIDE DEF before, code, more, m
    <3> QED  BY <1>2, <2>1, <2>2, <2>4, <2>7, <3>1 DEF AtSection
  <2>9. AtStart'
    BY <1>1, <2>1 DEF AtStart
  <2> QED  BY <2>1, <2>3, <2>8, <2>9, Elsewhere DEF ReaderInv
<1> QED  BY <1>3, <1>4

\* The places where a section stands.
BeforeSection(counted, m, code) ==
    Cat(PreambleOf(counted, IF code \in Informational THEN m - 1 ELSE m), Number(code))

LEMMA BeforeSectionOver ==
    ASSUME NEW counted \in BOOLEAN, NEW m, NEW code \in Nat
    PROVE  BeforeSection(counted, m, code) \in SUBSET Seq(AnswerCell)
<1> DEFINE k == IF code \in Informational THEN m - 1 ELSE m
<1> HIDE DEF k
<1>1. PreambleOf(counted, k) \subseteq Seq(0..3) /\ Number(code) \subseteq Seq(0..3)
  BY PreambleOver, NumbersOver
<1> QED  BY <1>1, CatOver, SeqsOfCells DEF BeforeSection, k

LEMMA SectionState ==
    ASSUME ReaderInv, reader = "section"
    PROVE  /\ ReaderTypes /\ known \in BOOLEAN /\ firstPiece /\ total = 0 /\ delivered = <<>> /\ ended = FALSE
           /\ status \in Informational \cup Final /\ status \in Nat /\ (known => used = 0)
           /\ (status \in Informational => informational >= 1)
           /\ BeforeSection(known, informational, status) \in SUBSET Seq(AnswerCell)
           /\ Reaches(history, BeforeSection(known, informational, status), known, fields, used)
<1>1. ReaderTypes /\ AtSection /\ AtStart /\ known \in BOOLEAN /\ ended \in BOOLEAN
  BY DEF ReaderInv, ReaderTypes
<1>2. status \in Informational \cup Final /\ status \in Nat
  BY <1>1, RustOhttpAssumption DEF AtSection
<1> QED  BY <1>1, <1>2, BeforeSectionOver DEF AtSection, AtStart, BeforeSection

TrailersOf(content) ==
    /\ content \in Contents /\ Arrived(content)
    /\ Carrying(known, NoBody, status, content) \in SUBSET Seq(AnswerCell)

LEMMA TrailersState ==
    ASSUME ReaderInv, reader = "trailers"
    PROVE  /\ ReaderTypes /\ known \in BOOLEAN /\ status \in Final /\ status \in Nat /\ (known => used = 0)
           /\ \E content : /\ TrailersOf(content)
                           /\ IF ended THEN /\ fields = <<>> /\ used = 0
                                            /\ history \in WholeMessages(known, asked.head, status, content)
                              ELSE Reaches(history, Carrying(known, NoBody, status, content), known, fields, used)
<1>1. ReaderTypes /\ AtTrailers /\ known \in BOOLEAN
  BY DEF ReaderInv, ReaderTypes
<1>2. status \in Final /\ status \in Nat
  BY <1>1, RustOhttpAssumption DEF AtTrailers
<1>3. \A content \in Contents : Carrying(known, NoBody, status, content) \in SUBSET Seq(AnswerCell)
  BY <1>1, <1>2, CarryingOver
<1> QED  BY <1>1, <1>2, <1>3 DEF AtTrailers, TrailersOf

\* A section is complete, at an answer's head or behind its content.
LEMMA SectionComplete ==
    ASSUME ReaderInv, reader \in {"section", "trailers"}, NEW list, AfterSection(list),
           history' \in Seq(AnswerCell), Len(history') <= MaxAnswer, asked' = asked, ended = FALSE, ended' = FALSE,
           reader = "section" => SectionAfter(history', BeforeSection(known, informational, status), known, list),
           reader = "trailers" =>
               \E content : TrailersOf(content) /\ SectionAfter(history', Carrying(known, NoBody, status, content), known, list)
    PROVE  ReaderInv'
<1>0. ReaderTypes /\ known \in BOOLEAN
  BY SectionState, TrailersState
<1>1. /\ fields' = list /\ UNCHANGED <<known, informational, status, used, firstPiece, remaining, total, delivered>>
  BY DEF AfterSection
<1>2. ReaderTypes'
  BY <1>0, <1>1 DEF ReaderTypes, AnswerCell
<1>3. CASE reader = "trailers"
  <2>1. reader' = "padding"
    BY <1>3 DEF AfterSection
  <2>2. PICK content : TrailersOf(content) /\ SectionAfter(history', Carrying(known, NoBody, status, content), known, list)
    BY <1>3
  <2>3. content \in Contents /\ total = Len(content) /\ delivered = (IF NoBody THEN <<>> ELSE content) /\ status \in Nat /\ status \in Final
    BY <1>3, <2>2, TrailersState DEF TrailersOf, Arrived
  <2>4. InPadding(history', known, NoBody, status, content, Len(content))
    BY <1>0, <2>2, <2>3, TrailersEnd
  <2>5. NoBody' = NoBody
    BY <1>1 DEF NoBody
  <2>6. AtPadding'
    BY <1>1, <2>3, <2>4, <2>5 DEF AtPadding
  <2> QED  BY <1>2, <2>1, <2>6, Elsewhere DEF ReaderInv
<1>4. CASE reader = "section"
  <2>1. /\ firstPiece /\ total = 0 /\ delivered = <<>> /\ status \in Informational \cup Final /\ status \in Nat
        /\ (status \in Informational => informational >= 1)
        /\ SectionAfter(history', BeforeSection(known, informational, status), known, list)
    BY <1>4, SectionState
  <2>2. CASE status \in Informational
    <3>1. reader' = "status"
      BY <1>4, <2>2 DEF AfterSection
    <3>2. informational \in Nat /\ informational >= 1 /\ informational <= MaxInformational
      BY <1>0, <2>1, <2>2 DEF ReaderTypes
    <3>3. SectionAfter(history', Cat(PreambleOf(known, informational - 1), Number(status)), known, list)
      BY <2>1, <2>2 DEF BeforeSection
    <3>4. history' \in PreambleOf(known, informational)
      BY <1>0, <2>2, <3>2, <3>3, InterimEnds
    <3>5. AtStart'
      BY <1>1, <2>1, <3>1, <3>4 DEF AtStart
    <3> QED  BY <1>2, <3>1, <3>5, Elsewhere DEF ReaderInv
  <2>3. CASE status \notin Informational
    <3>1. reader' = IF LengthsAgree(list) THEN "content" ELSE "rejected"
      BY <1>4, <2>3 DEF AfterSection
    <3>2. CASE ~LengthsAgree(list)
      BY <1>2, <3>1, <3>2, GaveUp
    <3>3. CASE LengthsAgree(list)
      <4>1. SectionAfter(history', Cat(PreambleOf(known, informational), Number(status)), known, list)
        BY <2>1, <2>3 DEF BeforeSection
      <4>2. InContent(history', known, status, list, TRUE, <<>>)
        BY <1>0, <2>1, <4>1, HeadEnds
      <4>3. <<>> \in Contents /\ Len(<<>>) = 0
        BY EmptyContent
      <4>4. firstPiece' = TRUE
        BY <1>0, <1>1, <2>1 DEF ReaderTypes
      <4>5. Arrived(<<>>)'
        BY <1>1, <2>1, <4>3 DEF Arrived
      <4>6. reader' = "content"
        BY <3>1, <3>3
      <4>7. AtContent'
        <5>1. InContent(history', known', status', fields', firstPiece', <<>>)
          BY <1>1, <4>2, <4>4
        <5> QED  BY <1>1, <2>1, <2>3, <3>3, <4>3, <4>5, <5>1 DEF AtContent
      <4> QED  BY <1>2, <4>6, <4>7, Elsewhere DEF ReaderInv
    <3> QED  BY <3>2, <3>3
  <2> QED  BY <2>2, <2>3
<1> QED  BY <1>3, <1>4

LEMMA KnownTurn ==
    ASSUME ReaderInv, NEW r, Turn(r), ReadKnown(r)
    PROVE  ReaderInv'
<1>1. reader \in {"section", "trailers"} /\ known = TRUE /\ ReaderTypes
  BY SectionState, TrailersState DEF ReadKnown, ReaderInv
<1>2. /\ history' = history \o r.cells /\ history' \in Seq(AnswerCell) /\ Len(history') <= MaxAnswer
      /\ asked' = asked /\ ended = FALSE /\ ended' = FALSE /\ history \in Seq(AnswerCell)
  BY <1>1, Turned DEF ReaderTypes, AnswerCell
<1>3. PICK c \in Encodings, d \in Seq(0..3) : KnownRead(r, c, d)
  BY <1>1, SectionReads DEF Turn
<1>4. r.cells = c \o d /\ r.size = Value(c) /\ r.data = d
  BY <1>3 DEF KnownRead
<1>5. CASE r.size > FieldsLimit \/ ~SliceFields(r.data).ok
  BY <1>1, <1>5, Rejects DEF ReadKnown
<1>6. CASE ~(r.size > FieldsLimit \/ ~SliceFields(r.data).ok)
  <2>1. Value(c) \in Nat /\ Value(c) <= FieldsLimit /\ c \in Seq(0..3)
    <3>1. FieldsLimit \in Nat
      BY RustOhttpAssumption
    <3>2. Value(c) \in Nat /\ c \in Seq(0..3)
      BY ReadsNumber
    <3> QED  BY <1>4, <1>6, <3>1, <3>2
  <2>2. Len(d) = Value(c) /\ Len(d) <= FieldsLimit /\ SliceFields(d).ok
    BY <1>3, <1>4, <1>6, <2>1 DEF KnownRead
  <2>3. Len(d) <= MaxAnswer
    <3>1. c \in Seq(AnswerCell) /\ d \in Seq(AnswerCell)
      BY <2>1, SeqsOfCells
    <3>2. Len(history \o (c \o d)) = (Len(history) + Len(c)) + Len(d)
      BY <1>2, <3>1, Regrouped
    <3>3. Len(history) \in Nat /\ Len(c) \in Nat /\ Len(d) \in Nat /\ MaxAnswer \in Nat
      BY <1>2, <3>1, RustOhttpAssumption
    <3>4. Len(history \o (c \o d)) <= MaxAnswer
      BY <1>2, <1>4
    <3> QED  BY <3>2, <3>3, <3>4
  <2> DEFINE list == SliceFields(d).fields
  <2>4. AfterSection(list)
    BY <1>4, <1>6 DEF ReadKnown
  <2>5. ASSUME NEW before \in SUBSET Seq(AnswerCell), Reaches(history, before, TRUE, fields, 0)
        PROVE  SectionAfter(history', before, TRUE, list)
    <3>1. SectionAfter(history \o (c \o d), before, TRUE, list)
      BY <2>2, <2>3, <2>5, KnownSectionEnds
    <3> QED  BY <1>2, <1>4, <3>1
  <2> HIDE DEF list
  <2>6. reader = "section" => SectionAfter(history', BeforeSection(known, informational, status), known, list)
    BY <1>1, <2>5, SectionState
  <2>7. reader = "trailers" =>
            \E content : TrailersOf(content) /\ SectionAfter(history', Carrying(known, NoBody, status, content), known, list)
    <3> SUFFICES ASSUME reader = "trailers"
                 PROVE  \E content : TrailersOf(content) /\ SectionAfter(history', Carrying(known, NoBody, status, content), known, list)
      OBVIOUS
    <3>1. PICK content : TrailersOf(content) /\ Reaches(history, Carrying(known, NoBody, status, content), known, fields, used)
      BY <1>2, TrailersState
    <3>2. used = 0
      BY <1>1, TrailersState
    <3> QED  BY <1>1, <2>5, <3>1, <3>2 DEF TrailersOf
  <2> QED  BY <1>1, <1>2, <2>4, <2>6, <2>7, SectionComplete
<1> QED  BY <1>5, <1>6

LEMMA LineTurn ==
    ASSUME ReaderInv, NEW r, Turn(r), ReadLine(r)
    PROVE  ReaderInv'
<1>1. reader \in {"section", "trailers"} /\ known = FALSE /\ ReaderTypes
  <2>1. ReaderTypes /\ known \in BOOLEAN
    BY DEF ReaderInv, ReaderTypes
  <2> QED  BY <2>1 DEF ReadLine
<1>2. /\ history' = history \o r.cells /\ history' \in Seq(AnswerCell) /\ Len(history') <= MaxAnswer
      /\ asked' = asked /\ ended = FALSE /\ ended' = FALSE /\ used \in Nat /\ r \in Reads
  BY <1>1, Turned DEF ReaderTypes
<1>3. CASE LastRead(r)
  <2>1. r.cells \in Number(0) /\ AfterSection(fields)
    BY <1>3 DEF LastRead, ReadLine
  <2>2. reader = "section" => SectionAfter(history', BeforeSection(known, informational, status), known, fields)
    BY <1>1, <1>2, <2>1, SectionState, SectionEnds
  <2>3. reader = "trailers" =>
            \E content : TrailersOf(content) /\ SectionAfter(history', Carrying(known, NoBody, status, content), known, fields)
    <3> SUFFICES ASSUME reader = "trailers"
                 PROVE  \E content : TrailersOf(content) /\ SectionAfter(history', Carrying(known, NoBody, status, content), known, fields)
      OBVIOUS
    <3>1. PICK content : TrailersOf(content) /\ Reaches(history, Carrying(known, NoBody, status, content), known, fields, used)
      BY <1>2, TrailersState
    <3> QED  BY <1>1, <1>2, <2>1, <3>1, SectionEnds DEF TrailersOf
  <2> QED  BY <1>1, <1>2, <2>1, <2>2, <2>3, SectionComplete
<1>4. ASSUME NEW n \in FieldNames, NEW v \in FieldValues, NEW cn \in Numbers(Len(n)), NEW cv \in Numbers(Len(v)),
             LineShape(r, n, v, cn, cv), n # <<>>
      PROVE  ReaderInv'
  <2> DEFINE size == (used + Len(n)) + Len(v)
             w == ((cn \o n) \o cv) \o v
             list == Append(fields, <<n, v>>)
  <2>1. r.name = n /\ r.value = v /\ r.cells = w /\ Len(n) \in Nat /\ Len(v) \in Nat
    BY <1>4, RustOhttpAssumption DEF LineShape
  <2>2. CASE size > FieldsLimit \/ ~Insertable(fields, n, v)
    BY <1>1, <1>4, <2>1, <2>2, Rejects DEF ReadLine
  <2>3. CASE ~(size > FieldsLimit \/ ~Insertable(fields, n, v))
    <3>1. size \in Nat /\ size <= FieldsLimit /\ Insertable(fields, n, v)
      BY <1>2, <2>1, <2>3, RustOhttpAssumption
    <3>2. /\ fields' = list /\ used' = size
          /\ UNCHANGED <<reader, known, informational, status, firstPiece, remaining, total, delivered>>
      <4> HIDE DEF list
      <4> QED  BY <1>4, <2>1, <2>3 DEF ReadLine, list
    <3>3. history' = history \o w /\ Len(history \o w) <= MaxAnswer
      BY <1>2, <2>1
    <3>4. ASSUME NEW before \in SUBSET Seq(AnswerCell), Reaches(history, before, FALSE, fields, used)
          PROVE  Reaches(history', before, FALSE, list, size)
      <4>1. Reaches(history \o w, before, FALSE, list, size)
        <5>1. size <= FieldsLimit /\ Insertable(fields, n, v) /\ used \in Nat
          BY <1>2, <3>1
        <5> QED  BY <3>3, <3>4, <5>1, LineRead
      <4> QED  BY <3>3, <4>1
    <3> HIDE DEF size, w, list
    <3>5. ReaderTypes'
      BY <1>1, <1>2, <3>1, <3>2 DEF ReaderTypes, AnswerCell
    <3>6. CASE reader = "section"
      <4>1. Reaches(history', BeforeSection(known, informational, status), FALSE, list, size)
        BY <1>1, <3>4, <3>6, SectionState
      <4>2. AtSection'
        BY <1>1, <1>2, <3>2, <3>6, <4>1, SectionState DEF AtSection, BeforeSection
      <4>3. AtStart'
        BY <3>2, <3>6, SectionState DEF AtStart
      <4> QED  BY <3>2, <3>5, <3>6, <4>2, <4>3, Elsewhere DEF ReaderInv
    <3>7. CASE reader = "trailers"
      <4>1. PICK content : TrailersOf(content) /\ Reaches(history, Carrying(known, NoBody, status, content), known, fields, used)
        BY <1>2, <3>7, TrailersState
      <4>2. Reaches(history', Carrying(known, NoBody, status, content), FALSE, list, size)
        BY <1>1, <3>4, <4>1 DEF TrailersOf
      <4>3. NoBody' = NoBody /\ Arrived(content)' = Arrived(content)
        <5>1. NoBody' = NoBody
          BY <1>2, <3>2 DEF NoBody
        <5> QED  BY <3>2, <5>1 DEF Arrived
      <4>4. AtTrailers'
        BY <1>1, <1>2, <3>2, <3>7, <4>1, <4>2, <4>3, TrailersState DEF AtTrailers, TrailersOf
      <4> QED  BY <3>2, <3>5, <3>7, <4>4, Elsewhere DEF ReaderInv
    <3> QED  BY <1>1, <3>6, <3>7
  <2> QED  BY <2>2, <2>3
<1>5. \/ LastRead(r)
      \/ \E n \in FieldNames, v \in FieldValues : \E cn \in Numbers(Len(n)), cv \in Numbers(Len(v)) :
             LineShape(r, n, v, cn, cv) /\ n # <<>>
  BY <1>1, <1>2, LinesRead
<1> QED  BY <1>3, <1>4, <1>5

\* The content is complete, and is as long as was declared.
LEMMA ContentComplete ==
    ASSUME ReaderTypes, AfterContent, status \in Final, LengthsAgree(fields),
           history' \in Seq(AnswerCell), Len(history') <= MaxAnswer, asked' = asked, ended = FALSE, ended' = FALSE,
           NEW content \in Contents, Arrived(content), Delimited(history', known, status, fields, content)
    PROVE  ReaderInv'
<1>1. /\ fields' = <<>> /\ used' = 0 /\ UNCHANGED <<known, informational, status, firstPiece, remaining, total, delivered>>
      /\ reader' \in {"rejected", "trailers"}
      /\ reader' = "trailers" => NoBody \/ \A v \in DeclaredLengths(fields) : Decimal(v) = total
  BY DEF AfterContent
<1>2. ReaderTypes' /\ known \in BOOLEAN /\ status \in Nat
  <2>1. history' \in Seq(0..3 \cup ContentCells)
    BY DEF AnswerCell
  <2>2. ReaderTypes'
    <3>1. /\ asked \in OhttpRequests /\ {known, ended, firstPiece} \subseteq BOOLEAN
          /\ {informational, used, remaining, total} \subseteq Nat /\ informational <= MaxInformational
      BY DEF ReaderTypes
    <3>2. {known', ended', firstPiece'} \subseteq BOOLEAN
      BY <1>1, <3>1
    <3>3. {informational', used', remaining', total'} \subseteq Nat /\ informational' <= MaxInformational
      BY <1>1, <3>1
    <3> QED  BY <2>1, <3>1, <3>2, <3>3 DEF ReaderTypes
  <2>3. known \in BOOLEAN
    BY DEF ReaderTypes
  <2>4. status \in Nat
    BY RustOhttpAssumption
  <2> QED  BY <2>2, <2>3, <2>4
<1>3. CASE reader' = "rejected"
  BY <1>2, <1>3, GaveUp
<1>4. CASE reader' = "trailers"
  <2>1. NoBody \in BOOLEAN /\ (NoBody \/ \A v \in DeclaredLengths(fields) : Decimal(v) = Len(content))
    BY <1>1, <1>4, NoBodyIs DEF Arrived
  <2>2. history' \in Carrying(known, NoBody, status, content)
    BY <1>2, <2>1, Delimits
  <2>3. Carrying(known, NoBody, status, content) \in SUBSET Seq(AnswerCell)
    BY <1>2, CarryingOver
  <2>4. Reaches(history', Carrying(known, NoBody, status, content), known, <<>>, 0)
    BY <1>2, <2>2, <2>3, NothingYet
  <2>5. NoBody' = NoBody /\ Arrived(content)'
    <3>1. NoBody' = NoBody
      BY <1>1 DEF NoBody
    <3> QED  BY <1>1, <3>1 DEF Arrived
  <2>6. AtTrailers'
    BY <1>1, <2>4, <2>5 DEF AtTrailers
  <2> QED  BY <1>2, <1>4, <2>6, Elsewhere DEF ReaderInv
<1> QED  BY <1>1, <1>3, <1>4

LEMMA ContentState ==
    ASSUME ReaderInv, reader = "content"
    PROVE  /\ ReaderTypes /\ known \in BOOLEAN /\ status \in Final /\ status \in Nat /\ LengthsAgree(fields)
           /\ ended = FALSE =>
                  \E content \in Contents :
                      Arrived(content) /\ InContent(history, known, status, fields, firstPiece, content)
           /\ ended = TRUE =>
                  /\ total = 0 /\ delivered = <<>> /\ fields = <<>>
                  /\ history \in Cat(Preambles[known], Number(status))
<1>1. ReaderTypes /\ AtContent /\ known \in BOOLEAN
  BY DEF ReaderInv, ReaderTypes
<1> QED  BY <1>1, RustOhttpAssumption DEF AtContent

LEMMA LengthTurn ==
    ASSUME ReaderInv, NEW r, Turn(r), ReadLength(r)
    PROVE  ReaderInv'
<1> DEFINE c == r.cells
<1>1. reader = "content" /\ ReaderTypes
  BY DEF ReadLength, ReaderInv
<1>2. /\ history' = history \o c /\ history' \in Seq(AnswerCell) /\ Len(history') <= MaxAnswer
      /\ asked' = asked /\ ended = FALSE /\ ended' = FALSE /\ c \in Encodings
  BY <1>1, Turned, LoneReads
<1>3. PICK content \in Contents : Arrived(content) /\ InContent(history, known, status, fields, firstPiece, content)
  BY <1>1, <1>2, ContentState
<1>4. known \in BOOLEAN /\ status \in Final /\ status \in Nat /\ LengthsAgree(fields)
  BY <1>1, ContentState
<1>5. CASE Value(c) = 0
  <2>1. AfterContent
    BY <1>5 DEF ReadLength
  <2> HIDE DEF c
  <2>2. c \in Number(0)
    BY <1>2, <1>5, ReadsNumber
  <2>3. Delimited(history', known, status, fields, content)
    BY <1>2, <1>3, <1>4, <2>2, LastLength
  <2> QED  BY <1>1, <1>2, <1>3, <1>4, <2>1, <2>3, ContentComplete
<1>6. CASE Value(c) # 0 /\ Value(c) > Limit
  BY <1>1, <1>6, Rejects DEF ReadLength
<1>7. CASE Value(c) # 0 /\ ~(Value(c) > Limit)
  <2>1. /\ reader' = "piece" /\ firstPiece' = FALSE /\ remaining' = Value(c)
        /\ UNCHANGED <<known, informational, status, fields, used, total, delivered>>
    BY <1>7 DEF ReadLength
  <2> HIDE DEF c
  <2>2. Value(c) \in Nat /\ Value(c) > 0
    BY <1>2, <1>7, ReadsNumber, SMTT(20)
  <2>3. ReaderTypes'
    BY <1>1, <1>2, <2>1, <2>2 DEF ReaderTypes, AnswerCell
  <2>4. InPiece(history', known, status, fields, Value(c), content)
    BY <1>2, <1>3, <1>4, <1>7, PieceBegins
  <2>5. Arrived(content)'
    <3>1. NoBody' = NoBody
      BY <1>2, <2>1 DEF NoBody
    <3> QED  BY <1>3, <2>1, <3>1 DEF Arrived
  <2>6. AtPiece'
    BY <1>2, <1>4, <2>1, <2>2, <2>4, <2>5 DEF AtPiece
  <2> QED  BY <2>1, <2>3, <2>6, Elsewhere DEF ReaderInv
<1> QED  BY <1>5, <1>6, <1>7

LEMMA PieceState ==
    ASSUME ReaderInv, reader \in {"piece", "counted"}
    PROVE  /\ ReaderTypes /\ known \in BOOLEAN /\ ended = FALSE /\ firstPiece = FALSE /\ remaining \in Nat /\ total \in Nat
           /\ status \in Final /\ status \in Nat /\ LengthsAgree(fields)
           /\ IF reader = "piece" THEN remaining > 0 ELSE known /\ remaining = 0
           /\ \E content \in Contents :
                  Arrived(content) /\ InPiece(history, known, status, fields, remaining, content)
<1>1. ReaderTypes /\ AtPiece
  BY DEF ReaderInv
<1>2. {known, ended, firstPiece} \subseteq BOOLEAN /\ remaining \in Nat /\ total \in Nat
  BY <1>1 DEF ReaderTypes
<1> QED  BY <1>1, <1>2, RustOhttpAssumption DEF AtPiece

LEMMA PieceTurn ==
    ASSUME ReaderInv, NEW r, Turn(r), ReadPiece(r)
    PROVE  ReaderInv'
<1> DEFINE c == r.cells
           sum == total + Len(c)
           left == remaining - Len(c)
           over == sum > Limit \/ (~NoBody /\ \E v \in DeclaredLengths(fields) : sum > Decimal(v))
<1>1. reader = "piece" /\ ReaderTypes /\ remaining \in Nat /\ remaining > 0 /\ total \in Nat
  BY PieceState DEF ReadPiece
<1>2. /\ history' = history \o c /\ history' \in Seq(AnswerCell) /\ Len(history') <= MaxAnswer
      /\ asked' = asked /\ ended = FALSE /\ ended' = FALSE
      /\ c \in Seq(ContentCells) /\ Len(c) <= remaining
  BY <1>1, Turned, PieceReads
<1>3. PICK content \in Contents : Arrived(content) /\ InPiece(history, known, status, fields, remaining, content)
  BY <1>1, PieceState
<1>4. known \in BOOLEAN /\ firstPiece = FALSE /\ status \in Final /\ status \in Nat /\ LengthsAgree(fields)
  BY <1>1, PieceState
<1>5. CASE over
  <2>1. Reject
    BY <1>1, <1>5 DEF ReadPiece
  <2> QED  BY <1>1, <2>1, Rejects
<1>6. CASE ~over
  <2>1. /\ total' = sum /\ remaining' = left
        /\ delivered' = (IF NoBody THEN delivered ELSE delivered \o c)
        /\ reader' = (IF left > 0 THEN "piece" ELSE IF known THEN "counted" ELSE "content")
        /\ UNCHANGED <<known, informational, status, fields, used, firstPiece>>
    BY <1>1, <1>6 DEF ReadPiece
  <2>2. ~(sum > Limit)
    BY <1>6
  <2> HIDE DEF c, over
  <2> DEFINE new == content \o c
  <2>3. content \in Seq(ContentCells) /\ Len(content) \in Nat /\ Len(c) \in Nat /\ total = Len(content)
    BY <1>2, <1>3, ContentsAre DEF Arrived
  <2>4. sum \in Nat /\ left \in Nat /\ sum <= Limit
    BY <1>1, <1>2, <2>2, <2>3, RustOhttpAssumption
  <2>5. Len(content) + Len(c) <= Limit
    BY <2>3, <2>4
  <2>6. new \in Contents /\ Len(new) = sum
    <3>1. new \in Seq(ContentCells) /\ Len(new) = Len(content) + Len(c)
      BY <1>2, <2>3, ConcatProperties
    <3> HIDE DEF new
    <3> QED  BY <2>3, <2>5, <3>1, ContentsAre
  <2>7. InPiece(history', known, status, fields, left, new)
    BY <1>1, <1>2, <1>3, <1>4, <2>3, <2>5, PieceGoesOn
  <2>8. NoBody' = NoBody
    BY <1>2, <2>1 DEF NoBody
  <2>9. Arrived(new)'
    BY <1>3, <2>1, <2>6, <2>8 DEF Arrived
  <2> HIDE DEF sum, left, new
  <2>10. ReaderTypes'
    BY <1>1, <1>2, <2>1, <2>4 DEF ReaderTypes, AnswerCell
  <2>11. CASE left > 0
    <3>1. AtPiece'
      BY <1>2, <1>4, <2>1, <2>6, <2>7, <2>9, <2>11 DEF AtPiece
    <3> QED  BY <2>1, <2>10, <2>11, <3>1, Elsewhere DEF ReaderInv
  <2>12. CASE ~(left > 0) /\ known
    <3>1. left = 0
      BY <2>4, <2>12
    <3>2. AtPiece'
      BY <1>2, <1>4, <2>1, <2>6, <2>7, <2>9, <2>12, <3>1 DEF AtPiece
    <3> QED  BY <2>1, <2>10, <2>12, <3>2, Elsewhere DEF ReaderInv
  <2>13. CASE ~(left > 0) /\ ~known
    <3>1. left = 0 /\ known = FALSE
      BY <1>4, <2>4, <2>13
    <3>2. InContent(history', FALSE, status, fields, FALSE, new)
      BY <1>2, <1>4, <2>6, <2>7, <3>1, PieceEnds
    <3>3. AtContent'
      BY <1>2, <1>4, <2>1, <2>6, <2>9, <2>13, <3>1, <3>2 DEF AtContent
    <3> QED  BY <2>1, <2>10, <2>13, <3>3, Elsewhere DEF ReaderInv
  <2> QED  BY <2>11, <2>12, <2>13
<1> QED  BY <1>5, <1>6

LEMMA CountedStep ==
    ASSUME ReaderInv, Counted
    PROVE  ReaderInv'
<1>1. reader = "counted" /\ AfterContent /\ UNCHANGED <<asked, history, ended>>
  BY DEF Counted
<1>2. /\ ReaderTypes /\ known = TRUE /\ remaining = 0 /\ ended = FALSE
      /\ status \in Final /\ status \in Nat /\ LengthsAgree(fields)
      /\ \E content \in Contents :
             Arrived(content) /\ InPiece(history, known, status, fields, remaining, content)
  BY <1>1, PieceState
<1>3. PICK content \in Contents : Arrived(content) /\ InPiece(history, TRUE, status, fields, 0, content)
  BY <1>2
<1>4. Delimited(history', known, status, fields, content)
  BY <1>1, <1>2, <1>3, LastPiece
<1>5. history' \in Seq(AnswerCell) /\ Len(history') <= MaxAnswer
  BY <1>1, <1>2 DEF ReaderTypes, AnswerCell
<1> QED  BY <1>1, <1>2, <1>3, <1>4, <1>5, ContentComplete

LEMMA PaddingTurn ==
    ASSUME ReaderInv, NEW r, Turn(r), ReadPadding(r)
    PROVE  ReaderInv'
<1>1. reader = "padding" /\ ReaderTypes /\ known \in BOOLEAN /\ total \in Nat
  BY DEF ReadPadding, ReaderInv, ReaderTypes
<1>2. /\ history' = history \o r.cells /\ history' \in Seq(AnswerCell) /\ Len(history') <= MaxAnswer
      /\ asked' = asked /\ ended = FALSE /\ ended' = FALSE
  BY <1>1, Turned
<1>3. CASE total + 1 > Limit \/ r.cells # <<0>>
  BY <1>1, <1>3, Rejects DEF ReadPadding
<1>4. CASE ~(total + 1 > Limit \/ r.cells # <<0>>)
  <2>1. /\ total' = total + 1 /\ r.cells = <<0>> /\ total + 1 <= Limit
        /\ UNCHANGED <<reader, known, informational, status, fields, used, firstPiece, remaining, delivered>>
    BY <1>1, <1>4, RustOhttpAssumption DEF ReadPadding
  <2>2. AtPadding /\ status \in Final /\ status \in Nat
    BY <1>1, RustOhttpAssumption DEF ReaderInv, AtPadding
  <2>3. PICK content \in Contents : /\ delivered = (IF NoBody THEN <<>> ELSE content)
                                    /\ InPadding(history, known, NoBody, status, content, total)
    BY <1>1, <1>2, <2>2 DEF AtPadding
  <2>4. InPadding(history', known, NoBody, status, content, total + 1)
    <3>1. InPadding(history \o <<0>>, known, NoBody, status, content, total + 1)
      BY <1>1, <2>1, <2>2, <2>3, PaddingGoesOn
    <3>2. history' = history \o <<0>>
      BY <1>2, <2>1
    <3> QED  BY <3>1, <3>2
  <2>5. NoBody' = NoBody
    BY <1>2, <2>1 DEF NoBody
  <2>6. ReaderTypes'
    <3>1. history' \in Seq(0..3 \cup ContentCells)
      BY <1>2 DEF AnswerCell
    <3>2. total' \in Nat
      BY <1>1, <2>1
    <3> QED  BY <1>1, <1>2, <2>1, <3>1, <3>2 DEF ReaderTypes
  <2>7. AtPadding'
    BY <1>2, <2>1, <2>2, <2>3, <2>4, <2>5 DEF AtPadding
  <2> QED  BY <1>1, <2>1, <2>6, <2>7, Elsewhere DEF ReaderInv
<1> QED  BY <1>3, <1>4

LEMMA ReadKeeps ==
    ASSUME ReaderInv, Read
    PROVE  ReaderInv'
<1>1. PICK r \in Reads :
          /\ Len(history) + Len(r.cells) <= MaxAnswer
          /\ Received(r.cells)
          /\ \/ ReadFraming(r) \/ ReadStatus(r) \/ ReadKnown(r) \/ ReadLine(r)
             \/ ReadLength(r) \/ ReadPiece(r) \/ ReadPadding(r)
  BY DEF Read
<1>2. Turn(r)
  BY <1>1 DEF Turn, Read
<1> QED  BY <1>1, <1>2, FramingTurn, StatusTurn, KnownTurn, LineTurn, LengthTurn, PieceTurn, PaddingTurn

-----------------------------------------------------------------------------
(* The other steps. *)

\* The answer, when it says nothing of its content.
LEMMA WholeOnes ==
    ASSUME NEW counted \in BOOLEAN, NEW head \in BOOLEAN, NEW code \in Final, NEW content \in Contents,
           NEW cells \in WholeMessages(counted, head, code, content)
    PROVE  cells \in WholeAnswers[<<head, code, content>>]
<1> DEFINE a == <<head, code, content>>
<1>1. a[1] = head /\ a[2] = code /\ a[3] = content
  OBVIOUS
<1>2. a \in {<<h, x, y>> : h \in BOOLEAN, x \in Final, y \in Contents}
  OBVIOUS
<1> HIDE DEF a
<1>3. WholeAnswers[a] = UNION {WholeMessages(k, head, code, content) : k \in BOOLEAN}
  BY <1>1, <1>2 DEF WholeAnswers
<1> QED  BY <1>3 DEF a

LEMMA EndOfSection ==
    ASSUME ReaderInv, reader = "section", known \/ used = 0, AfterSection(IF known THEN <<>> ELSE fields),
           ended' = TRUE, UNCHANGED <<asked, history>>
    PROVE  ReaderInv'
<1>1. /\ ReaderTypes /\ known \in BOOLEAN /\ firstPiece /\ total = 0 /\ delivered = <<>>
      /\ status \in Informational \cup Final /\ status \in Nat /\ used = 0
      /\ BeforeSection(known, informational, status) \in SUBSET Seq(AnswerCell)
      /\ Reaches(history, BeforeSection(known, informational, status), known, fields, used)
  BY SectionState
<1>2. history \in BeforeSection(known, informational, status) /\ fields = <<>>
  BY <1>1, NothingReached
<1>3. /\ fields' = <<>> /\ UNCHANGED <<known, informational, status, used, firstPiece, remaining, total, delivered>>
      /\ reader' = IF status \in Informational THEN "status" ELSE IF LengthsAgree(<<>>) THEN "content" ELSE "rejected"
  BY <1>2 DEF AfterSection
<1>4. ReaderTypes'
  BY <1>1, <1>3 DEF ReaderTypes
<1>5. CASE status \in Informational
  <2>1. AtStart'
    BY <1>1, <1>3, <1>5 DEF AtStart
  <2> QED  BY <1>3, <1>4, <1>5, <2>1, Elsewhere DEF ReaderInv
<1>6. CASE status \notin Informational
  <2>1. LengthsAgree(<<>>)
    BY DEF LengthsAgree, DeclaredLengths
  <2>2. history \in Cat(Preambles[known], Number(status))
    <3>1. Cat(PreambleOf(known, informational), Number(status)) \subseteq Cat(Preambles[known], Number(status))
      BY <1>1, PreambleOver, CatMonotone
    <3> QED  BY <1>2, <1>6, <3>1 DEF BeforeSection
  <2>3. AtContent'
    BY <1>1, <1>3, <1>6, <2>1, <2>2 DEF AtContent
  <2> QED  BY <1>3, <1>4, <1>6, <2>1, <2>3, Elsewhere DEF ReaderInv
<1> QED  BY <1>5, <1>6

LEMMA EndOfTrailers ==
    ASSUME ReaderInv, reader = "trailers", known \/ used = 0, AfterSection(IF known THEN <<>> ELSE fields),
           ended' = TRUE, UNCHANGED <<asked, history>>
    PROVE  ReaderInv'
<1>1. /\ ReaderTypes /\ known \in BOOLEAN /\ ended \in BOOLEAN /\ status \in Final /\ status \in Nat /\ used = 0
  BY TrailersState DEF ReaderTypes
<1>2. /\ UNCHANGED <<known, informational, status, used, firstPiece, remaining, total, delivered>>
      /\ reader' = "padding"
  BY DEF AfterSection
<1>3. ReaderTypes'
  BY <1>1, <1>2 DEF ReaderTypes
<1>4. PICK content : /\ TrailersOf(content)
                     /\ IF ended THEN /\ fields = <<>> /\ used = 0
                                      /\ history \in WholeMessages(known, asked.head, status, content)
                        ELSE Reaches(history, Carrying(known, NoBody, status, content), known, fields, used)
  BY TrailersState
<1>5. history \in WholeMessages(known, asked.head, status, content)
  <2>1. CASE ended
    BY <1>4, <2>1
  <2>2. CASE ~ended
    <3>1. history \in Carrying(known, NoBody, status, content)
      BY <1>1, <1>4, <2>2, NothingReached DEF TrailersOf
    <3>2. NoBody = (asked.head \/ status \in Bodiless)
      BY DEF NoBody
    <3> QED  BY <3>1, <3>2, WholeCarrying
  <2> QED  BY <2>1, <2>2
<1>6. NoBody' = NoBody /\ content \in Contents /\ delivered = (IF NoBody THEN <<>> ELSE content)
  BY <1>2, <1>4 DEF NoBody, TrailersOf, Arrived
<1>7. AtPadding'
  BY <1>1, <1>2, <1>5, <1>6 DEF AtPadding
<1> QED  BY <1>2, <1>3, <1>7, Elsewhere DEF ReaderInv

LEMMA EndOfContent ==
    ASSUME ReaderInv, reader = "content", firstPiece, AfterContent, ended' = TRUE, UNCHANGED <<asked, history>>
    PROVE  ReaderInv'
<1>1. /\ ReaderTypes /\ known \in BOOLEAN /\ ended \in BOOLEAN /\ firstPiece = TRUE /\ status \in Final /\ status \in Nat
      /\ LengthsAgree(fields)
  BY ContentState DEF ReaderTypes
<1>2. /\ fields' = <<>> /\ used' = 0 /\ UNCHANGED <<known, informational, status, firstPiece, remaining, total, delivered>>
      /\ reader' \in {"rejected", "trailers"}
      /\ reader' = "trailers" => NoBody \/ \A v \in DeclaredLengths(fields) : Decimal(v) = total
  BY DEF AfterContent
<1>3. ReaderTypes'
  BY <1>1, <1>2 DEF ReaderTypes
<1>4. CASE reader' = "rejected"
  BY <1>3, <1>4, GaveUp
<1>5. CASE reader' = "trailers"
  <2>1. history \in WholeMessages(known, asked.head, status, <<>>) /\ Arrived(<<>>)
    <3>1. CASE ended = TRUE
      <4>1. total = 0 /\ delivered = <<>> /\ history \in Cat(Preambles[known], Number(status))
        BY <3>1, ContentState
      <4>2. Arrived(<<>>)
        BY <4>1, EmptyContent DEF Arrived
      <4> QED  BY <4>1, <4>2, WholePreamble
    <3>2. CASE ended = FALSE
      <4>1. PICK content \in Contents : Arrived(content) /\ InContent(history, known, status, fields, TRUE, content)
        BY <1>1, <3>2, ContentState
      <4>2. content = <<>> /\ history \in Headed(known, status, fields)
        BY <1>1, <4>1, NoContentYet
      <4>3. total = 0
        BY <4>1, <4>2, EmptyContent DEF Arrived
      <4>4. asked.head \in BOOLEAN
            /\ ((asked.head \/ status \in Bodiless) \/ \A v \in DeclaredLengths(fields) : Decimal(v) = 0)
        BY <1>1, <1>2, <1>5, <4>3, NoBodyIs
      <4>5. history \in WholeMessages(known, asked.head, status, <<>>)
        BY <1>1, <4>2, <4>4, WholeHead
      <4> QED  BY <4>1, <4>2, <4>5
    <3> QED  BY <1>1, <3>1, <3>2
  <2>2. Arrived(<<>>)'
    <3>1. NoBody' = NoBody
      BY <1>2 DEF NoBody
    <3> QED  BY <1>2, <2>1, <3>1 DEF Arrived
  <2>3. AtTrailers'
    BY <1>1, <1>2, <2>1, <2>2, EmptyContent DEF AtTrailers
  <2> QED  BY <1>3, <1>5, <2>3, Elsewhere DEF ReaderInv
<1> QED  BY <1>2, <1>4, <1>5

LEMMA EndOfPadding ==
    ASSUME ReaderInv, reader = "padding", reader' = "done", UNCHANGED messageVars, ended' = TRUE,
           UNCHANGED <<asked, history>>
    PROVE  ReaderInv'
<1>1. /\ ReaderTypes /\ AtPadding /\ known \in BOOLEAN /\ ended \in BOOLEAN /\ asked.head \in BOOLEAN
      /\ history \in Seq(AnswerCell) /\ Len(history) <= MaxAnswer
  BY NoBodyIs DEF ReaderInv, ReaderTypes, AnswerCell
<1>2. ReaderTypes'
  BY <1>1, TypesKept
<1>3. status \in Final /\ status \in Nat
  BY <1>1, RustOhttpAssumption DEF AtPadding
<1>4. PICK content \in Contents :
          /\ delivered = (IF NoBody THEN <<>> ELSE content)
          /\ IF ended THEN history \in WholeMessages(known, asked.head, status, content)
             ELSE InPadding(history, known, NoBody, status, content, total)
  BY <1>1 DEF AtPadding
<1>5. history \in WholeMessages(known, asked.head, status, content)
  <2>1. CASE ended
    BY <1>4, <2>1
  <2>2. CASE ~ended
    <3>1. InPadding(history, known, asked.head \/ status \in Bodiless, status, content, total)
      BY <1>4, <2>2 DEF NoBody
    <3> QED  BY <1>1, <1>3, <3>1, WholePadded
  <2> QED  BY <2>1, <2>2
<1>6. history \in WholeAnswers[<<asked.head, status, content>>]
  BY <1>1, <1>3, <1>5, WholeOnes
<1>7. NoBody' = NoBody /\ delivered' = delivered /\ status' = status
  BY DEF NoBody, messageVars
<1>8. CleanEndIsWhole'
  BY <1>4, <1>6, <1>7 DEF CleanEndIsWhole
<1> QED  BY <1>2, <1>8, Elsewhere DEF ReaderInv

LEMMA EndKeeps ==
    ASSUME ReaderInv, End
    PROVE  ReaderInv'
<1>1. ended' = TRUE /\ UNCHANGED <<asked, history>>
  BY DEF End
<1> QED  BY <1>1, EndOfPadding, EndOfContent, EndOfSection, EndOfTrailers DEF End, Optional

LEMMA EndEarlyKeeps ==
    ASSUME ReaderInv, EndEarly
    PROVE  ReaderInv'
<1>1. ReaderTypes /\ history \in Seq(AnswerCell)
  BY DEF ReaderInv, ReaderTypes, AnswerCell
<1>2. PICK cut \in Cuts : Len(history) + Len(cut) <= MaxAnswer /\ history' = history \o cut
  BY DEF EndEarly
<1>3. cut \in Seq(AnswerCell)
  <2> DEFINE J(r) == {SubSeq(r.cells, 1, k) : k \in 0..Len(r.cells) - 1}
  <2>1. Cuts = UNION {J(r) : r \in Reads}
    BY DEF Cuts
  <2>2. PICK r \in Reads : cut \in J(r)
    <3> HIDE DEF J
    <3> QED  BY <2>1
  <2> DEFINE c == r.cells
  <2>3. PICK k \in 0..(Len(c) - 1) : cut = SubSeq(c, 1, k)
    BY <2>2
  <2>4. c \in Seq(AnswerCell)
    BY <1>1, ReadsTyped
  <2> HIDE DEF c
  <2> QED  BY <2>3, <2>4
<1>4. history' \in Seq(AnswerCell) /\ Len(history') <= MaxAnswer
  BY <1>1, <1>2, <1>3, ConcatProperties
<1>5. reader' = "rejected" /\ UNCHANGED messageVars /\ ended' = TRUE /\ asked' = asked
  BY DEF EndEarly, Reject
<1>6. ReaderTypes'
  BY <1>1, <1>4, <1>5, TypesKept
<1> QED  BY <1>5, <1>6, GaveUp

LEMMA BeforeTheAnswer ==
    ASSUME ReaderInv, SendEncapsulated \/ Answered \/ Break \/ UNCHANGED readerVars
    PROVE  ReaderInv'
<1>1. ReaderTypes /\ ended \in BOOLEAN /\ history \in Seq(AnswerCell) /\ Len(history) <= MaxAnswer
  BY DEF ReaderInv, ReaderTypes, AnswerCell
<1>2. UNCHANGED <<asked, history, ended, messageVars>>
  BY DEF SendEncapsulated, Answered, Break, readerVars
<1>3. ReaderTypes'
  BY <1>1, <1>2, TypesKept
<1>4. CASE SendEncapsulated \/ Answered
  <2>1. reader' \in {"refused", "sent", "framing"} /\ AtStart /\ reader \in {"ready", "sent"}
    BY <1>4 DEF SendEncapsulated, Answered, ReaderInv
  <2>2. AtStart'
    BY <1>2, <2>1 DEF AtStart, messageVars
  <2> QED  BY <1>3, <2>1, <2>2, Elsewhere DEF ReaderInv
<1>5. CASE Break
  BY <1>3, <1>5, GaveUp DEF Break
<1>6. CASE UNCHANGED readerVars
  <2>1. UNCHANGED <<asked, reader, history, ended, known, informational, status, fields, used, firstPiece, remaining, total, delivered>>
    BY <1>6 DEF readerVars, messageVars
  <2>2. NoBody' = NoBody
    BY <2>1 DEF NoBody
  <2>3. \A content : Arrived(content)' = Arrived(content)
    BY <2>1, <2>2 DEF Arrived
  <2>4. AtStart' /\ AtSection'
    BY <2>1 DEF ReaderInv, AtStart, AtSection
  <2>5. AtContent' /\ AtPiece'
    BY <2>1, <2>3 DEF ReaderInv, AtContent, AtPiece
  <2>6. AtTrailers' /\ AtPadding'
    BY <2>1, <2>2, <2>3 DEF ReaderInv, AtTrailers, AtPadding
  <2>7. CleanEndIsWhole'
    BY <2>1, <2>2 DEF ReaderInv, CleanEndIsWhole
  <2> QED  BY <1>3, <2>4, <2>5, <2>6, <2>7 DEF ReaderInv
<1> QED  BY <1>4, <1>5, <1>6

\* The content of an encapsulated answer ends without an error only as that of
\* a whole message of which every cell authenticated, whatever was cut, ended
\* or sent in its place.
THEOREM WholeAnswersOnly == ReaderSpec => []CleanEndIsWhole
<1>1. ReaderInit => ReaderInv
  <2> SUFFICES ASSUME ReaderInit PROVE ReaderInv
    OBVIOUS
  <2>1. ReaderTypes
    <3>1. history = <<>> /\ Len(history) = 0
      BY DEF ReaderInit
    <3>2. history \in Seq(0..3 \cup ContentCells)
      BY <3>1
    <3>3. Len(history) <= MaxAnswer
      BY <3>1, RustOhttpAssumption
    <3>4. asked \in OhttpRequests /\ {known, ended, firstPiece} \subseteq BOOLEAN
      BY DEF ReaderInit
    <3>5. 0 <= MaxInformational
      BY RustOhttpAssumption
    <3>6. {informational, used, remaining, total} \subseteq Nat /\ informational <= MaxInformational
      BY <3>5 DEF ReaderInit
    <3> QED  BY <3>2, <3>3, <3>4, <3>6 DEF ReaderTypes
  <2>2. reader = "ready"
    BY DEF ReaderInit
  <2>3. AtStart
    BY DEF ReaderInit, AtStart
  <2> QED  BY <2>1, <2>2, <2>3
           DEF ReaderInv, AtSection, AtContent, AtPiece, AtTrailers, AtPadding, CleanEndIsWhole
<1>2. ReaderInv /\ [ReaderNext]_readerVars => ReaderInv'
  BY ReadKeeps, CountedStep, EndKeeps, EndEarlyKeeps, BeforeTheAnswer DEF ReaderNext
<1>3. ReaderInv => CleanEndIsWhole
  BY DEF ReaderInv
<1> QED  BY <1>1, <1>2, <1>3, PTL DEF ReaderSpec
=============================================================================
