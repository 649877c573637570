------------------------- MODULE GoReceipts_proofs -------------------------
(***************************************************************************)
(* Proofs about GoReceipts for any set of inference calls, IDs, callers    *)
(* and lookups and any TTL.                                                *)
(*                                                                         *)
(* What the critical sections of c.mu maintain together: a lookup that     *)
(* runs or has decided is the one installed in its record (Installed), a   *)
(* record that may still need its bytes has them (RecordOK), no call has   *)
(* read a generation that is still to come (SentBefore), and a closed      *)
(* client retains nothing (Emptied).  The last one is why VerifyResponse,  *)
(* which never asks whether the client is closed, starts nothing after     *)
(* Close.                                                                  *)
(***************************************************************************)
EXTENDS GoReceipts, TLAPS

CallerOK == \A c \in Callers : rec[c] # None => fut[c] \in Lookups

RecordOK ==
    \A s \in Streams :
        /\ stream[s] # "retained" =>
               /\ verifying[s] = None
               /\ \A l \in Lookups : outcome[s][l] = "unused"
        /\ stream[s] = "retained" /\ verifying[s] = None => captured[s]
        /\ \A l \in Lookups : outcome[s][l] = "running" => captured[s]

Installed ==
    \A s \in Streams, l \in Lookups :
        outcome[s][l] \in Terminal \cup {"running"} => verifying[s] = l

RetainedOK ==
    \A id \in Ids : responses[id] # None => stream[responses[id]] = "retained"

SentBefore == \A s \in Streams : sentGeneration[s] <= generation

Emptied == closed => \A id \in Ids : responses[id] = None

IInv ==
    /\ TypeOK
    /\ CallerOK
    /\ RecordOK
    /\ Installed
    /\ RetainedOK
    /\ SentBefore
    /\ Emptied

(***************************************************************************)
(* Pruning only ever removes entries.                                      *)
(***************************************************************************)
LEMMA PrunedOK ==
    ASSUME TypeOK
    PROVE  /\ Pruned \in [Ids -> Streams \cup {None}]
           /\ \A id \in Ids : Pruned[id] \in {None, responses[id]}
BY DEF Pruned, TypeOK

LEMMA InitInv == Init => IInv
<1> SUFFICES ASSUME Init PROVE IInv
  OBVIOUS
<1> USE GoReceiptsAssumption DEF Init
<1>1. TypeOK
  BY DEF TypeOK, StreamStates, Outcomes
<1>2. CallerOK /\ RecordOK /\ Installed /\ RetainedOK
  BY DEF CallerOK, RecordOK, Installed, RetainedOK, Terminal
<1>3. SentBefore /\ Emptied
  BY DEF SentBefore, Emptied
<1> QED  BY <1>1, <1>2, <1>3 DEF IInv

-----------------------------------------------------------------------------
(***************************************************************************)
(* Retention.  A call that ends without being retained leaves its record   *)
(* as it never was; a retained one begins with its bytes and no lookup.    *)
(***************************************************************************)
LEMMA RefusedInv ==
    ASSUME IInv, NEW s \in Streams, NEW why \in {"unretained", "duplicate"},
           stream[s] = "open", Refused(s, why)
    PROVE  IInv'
<1> USE DEF IInv, Refused, recordVars, callerVars, closed
<1>1. TypeOK'
  BY DEF TypeOK, StreamStates
<1>2. CallerOK' /\ SentBefore' /\ Emptied'
  BY DEF CallerOK, SentBefore, Emptied
<1>3. RecordOK' /\ Installed' /\ RetainedOK'
  BY DEF RecordOK, Installed, RetainedOK, TypeOK
<1> QED  BY <1>1, <1>2, <1>3

LEMMA RegisterNewInv ==
    ASSUME IInv, NEW s \in Streams, NEW id \in Ids, RegisterNew(s, id)
    PROVE  IInv'
<1> USE DEF IInv, RegisterNew, callerVars
<1>1. TypeOK'
  BY PrunedOK, GoReceiptsAssumption DEF TypeOK, StreamStates, Expiry
<1>2. CallerOK' /\ SentBefore'
  BY DEF CallerOK, SentBefore
<1>3. Emptied'
  BY DEF Emptied, Shut, closed
<1>4. RecordOK' /\ Installed'
  BY DEF RecordOK, Installed, TypeOK
<1>5. RetainedOK'
  BY PrunedOK DEF RetainedOK, TypeOK
<1> QED  BY <1>1, <1>2, <1>3, <1>4, <1>5

LEMMA StreamInv ==
    ASSUME IInv, NEW s \in Streams, StreamStep(s)
    PROVE  IInv'
<1>1. CASE Send(s)
  <2> USE <1>1 DEF IInv, Send, recordVars, callerVars, closed
  <2>1. TypeOK'
    BY DEF TypeOK, StreamStates
  <2>2. CallerOK' /\ SentBefore' /\ Emptied'
    BY GoReceiptsAssumption DEF CallerOK, SentBefore, Emptied, TypeOK
  <2>3. RecordOK' /\ Installed' /\ RetainedOK'
    BY DEF RecordOK, Installed, RetainedOK, TypeOK
  <2> QED  BY <2>1, <2>2, <2>3
<1>2. CASE Abandon(s)
  BY <1>2, RefusedInv DEF Abandon, Refused
<1>3. CASE RegisterNothing(s)
  BY <1>3, RefusedInv DEF RegisterNothing
<1>4. ASSUME NEW id \in Ids, RegisterDuplicate(s, id) PROVE IInv'
  BY <1>4, RefusedInv DEF RegisterDuplicate
<1>5. ASSUME NEW id \in Ids, RegisterNew(s, id) PROVE IInv'
  BY <1>5, RegisterNewInv
<1> QED  BY <1>1, <1>2, <1>3, <1>4, <1>5 DEF StreamStep, Register

-----------------------------------------------------------------------------
(***************************************************************************)
(* Verification.                                                           *)
(***************************************************************************)
LEMMA StartInv ==
    ASSUME IInv, NEW c \in Callers, NEW id \in Ids, Start(c, id)
    PROVE  IInv'
<1> DEFINE s == responses[id]
<1> USE DEF IInv, Start, Found, Present, streamVars
<1>1. s \in Streams /\ stream[s] = "retained" /\ captured[s] /\ ~closed
  BY DEF TypeOK, RetainedOK, RecordOK, Emptied, NeedsLookup
<1>2. PICK l \in Unused(s) :
         /\ verifying' = [verifying EXCEPT ![s] = l]
         /\ outcome' = [outcome EXCEPT ![s][l] = "running"]
         /\ fut' = [fut EXCEPT ![c] = l]
  OBVIOUS
<1>3. l \in Lookups /\ outcome[s][l] = "unused"
  BY <1>2 DEF Unused
<1>4. TypeOK'
  BY <1>1, <1>2, <1>3 DEF TypeOK, Outcomes
<1>5. CallerOK'
  BY <1>1, <1>2, <1>3 DEF CallerOK, TypeOK
<1>6. RecordOK'
  BY <1>1, <1>2, <1>3, GoReceiptsAssumption DEF RecordOK, TypeOK
<1>7. Installed'
  <2>1. \A k \in Lookups : outcome[s][k] \notin Terminal \cup {"running"}
    BY <1>1, GoReceiptsAssumption DEF Installed, NeedsLookup
  <2> QED  BY <1>1, <1>2, <1>3, <2>1 DEF Installed, TypeOK
<1>8. RetainedOK' /\ SentBefore' /\ Emptied'
  BY DEF RetainedOK, SentBefore, Emptied, closed
<1> QED  BY <1>4, <1>5, <1>6, <1>7, <1>8

LEMMA CallerInv ==
    ASSUME IInv, NEW c \in Callers, CallerStep(c)
    PROVE  IInv'
<1>1. ASSUME NEW id \in Ids, NotFound(c, id) PROVE IInv'
  BY <1>1 DEF NotFound, vars, streamVars, recordVars, callerVars, IInv, TypeOK,
     CallerOK, RecordOK, Installed, RetainedOK, SentBefore, Emptied, closed
<1>2. ASSUME NEW id \in Ids, Start(c, id) PROVE IInv'
  BY <1>2, StartInv
<1>3. ASSUME NEW id \in Ids, Join(c, id) PROVE IInv'
  BY <1>3 DEF Join, Found, Present, NeedsLookup, streamVars, recordVars, IInv,
     TypeOK, CallerOK, RecordOK, Installed, RetainedOK, SentBefore, Emptied,
     closed
<1>4. CASE Return(c)
  BY <1>4 DEF Return, streamVars, recordVars, IInv, TypeOK, CallerOK, RecordOK,
     Installed, RetainedOK, SentBefore, Emptied, closed
<1> QED  BY <1>1, <1>2, <1>3, <1>4 DEF CallerStep, Receive, GiveUp

LEMMA SettleInv ==
    ASSUME IInv, NEW s \in Streams, NEW l \in Lookups, Settle(s, l)
    PROVE  IInv'
<1> USE DEF IInv, Settle, streamVars, callerVars
<1>1. PICK o \in Terminal \cup {"retryable"} :
         /\ outcome' = [outcome EXCEPT ![s][l] = o]
         /\ verifying' = [verifying EXCEPT
                ![s] = IF o = "retryable" THEN None ELSE @]
         /\ captured' = [captured EXCEPT ![s] = IF Releases(o) THEN FALSE ELSE @]
  OBVIOUS
<1>2. stream[s] = "retained" /\ captured[s] /\ verifying[s] = l
  BY DEF RecordOK, Installed
<1>3. \A k \in Lookups \ {l} : outcome[s][k] \notin Terminal \cup {"running"}
  BY <1>2 DEF Installed
<1>4. TypeOK'
  BY <1>1 DEF TypeOK, Outcomes, Terminal
<1>5. CallerOK' /\ RetainedOK' /\ SentBefore' /\ Emptied'
  BY DEF CallerOK, RetainedOK, SentBefore, Emptied, closed
<1>6. RecordOK'
  BY <1>1, <1>2, <1>3, GoReceiptsAssumption
     DEF RecordOK, TypeOK, Releases, Terminal
<1>7. Installed'
  BY <1>1, <1>2, <1>3 DEF Installed, TypeOK, Terminal
<1> QED  BY <1>4, <1>5, <1>6, <1>7

-----------------------------------------------------------------------------
(***************************************************************************)
(* Time, the cache as a whole, and Close.                                  *)
(***************************************************************************)
LEMMA CacheInv ==
    ASSUME IInv, Prune \/ ClearResponseCache \/ CloseMark
    PROVE  IInv'
<1> USE DEF IInv, Prune, ClearResponseCache, CloseMark, streamVars, recordVars,
            callerVars
<1>1. TypeOK'
  BY PrunedOK, GoReceiptsAssumption DEF TypeOK
<1>2. CallerOK' /\ RecordOK' /\ Installed'
  BY DEF CallerOK, RecordOK, Installed
<1>3. RetainedOK'
  BY PrunedOK DEF RetainedOK, TypeOK
<1>4. SentBefore'
  BY GoReceiptsAssumption DEF SentBefore, TypeOK
<1>5. Emptied'
  BY PrunedOK DEF Emptied, closed
<1> QED  BY <1>1, <1>2, <1>3, <1>4, <1>5

LEMMA QuietInv ==
    ASSUME IInv, CloseReturn \/ Tick \/ UNCHANGED vars
    PROVE  IInv'
<1> USE DEF IInv, CloseReturn, Tick, vars, streamVars, recordVars, callerVars
<1>1. TypeOK'
  BY GoReceiptsAssumption DEF TypeOK
<1>2. CallerOK' /\ RecordOK' /\ Installed' /\ RetainedOK' /\ SentBefore'
  BY DEF CallerOK, RecordOK, Installed, RetainedOK, SentBefore
<1>3. Emptied'
  BY DEF Emptied, closed
<1> QED  BY <1>1, <1>2, <1>3

LEMMA StepInv == IInv /\ [Next]_vars => IInv'
BY StreamInv, SettleInv, CallerInv, CacheInv, QuietInv DEF Next

LEMMA Invariance == Spec => []IInv
BY InitInv, StepInv, PTL DEF Spec

(***************************************************************************)
(* Every variable of the response cache keeps its type.                    *)
(***************************************************************************)
THEOREM TypeCorrect == Spec => []TypeOK
BY Invariance, PTL DEF IInv

(***************************************************************************)
(* VerifyResponse starts no goroutine once Close has begun, although it    *)
(* never asks: c.wg.Add cannot race c.wg.Wait.                             *)
(***************************************************************************)
LEMMA StepAddsNothing ==
    ASSUME IInv, [Next]_vars, closed
    PROVE  Running' \subseteq Running
<1>1. CASE outcome' = outcome
  BY <1>1 DEF Running
<1>2. ASSUME NEW s \in Streams, NEW l \in Lookups, Settle(s, l)
      PROVE  Running' \subseteq Running
  BY <1>2 DEF Settle, Running, Terminal, IInv, TypeOK
<1>3. ASSUME NEW c \in Callers, NEW id \in Ids, Start(c, id) PROVE FALSE
  BY <1>3 DEF Start, Found, Present, IInv, Emptied
<1>4. ASSUME NEW s \in Streams, StreamStep(s) PROVE outcome' = outcome
  BY <1>4 DEF StreamStep, Register, Send, Abandon, RegisterNothing,
     RegisterDuplicate, RegisterNew, Refused, recordVars
<1>5. ASSUME NEW c \in Callers, CallerStep(c) PROVE outcome' = outcome
  BY <1>3, <1>5 DEF CallerStep, NotFound, Join, Receive, GiveUp, Return, vars,
     recordVars
<1>6. ASSUME Prune \/ ClearResponseCache \/ CloseMark \/ CloseReturn \/ Tick
             \/ UNCHANGED vars
      PROVE  outcome' = outcome
  BY <1>6 DEF Prune, ClearResponseCache, CloseMark, CloseReturn, Tick, vars,
     recordVars
<1> QED  BY <1>1, <1>2, <1>4, <1>5, <1>6 DEF Next

THEOREM ClosedStartsNothing == Spec => NoLateAdd
<1>1. IInv /\ [Next]_vars => [closed => Running' \subseteq Running]_vars
  BY StepAddsNothing
<1> QED  BY <1>1, Invariance, PTL DEF Spec, NoLateAdd

-----------------------------------------------------------------------------
(***************************************************************************)
(* Refinement: the cache implements the abstract Receipts.  The lemmas     *)
(* relate the abstract variables before and after a step of each kind.     *)
(***************************************************************************)
Age == [s \in Streams |-> AgeOf(s)]
Seen == {s \in Streams : stream[s] = "retained"}
Lapsed == {s \in Streams : stream[s] = "retained" /\ ~Unexpired(s)}
Bytes == {s \in Streams : captured[s]}
Asking == [s \in Streams |-> {l \in Lookups : outcome[s][l] = "running"}]
Verdict == [s \in Streams |-> VerdictOf(s)]

LEMMA InitRefines == Init => Promise!Init
BY GoReceiptsAssumption
   DEF Init, Promise!Init, VerdictOf, AgeOf, StreamStates, Unexpired

(***************************************************************************)
(* A step that decides nothing leaves every verdict as it is.              *)
(***************************************************************************)
LEMMA SameVerdict ==
    ASSUME \A s \in Streams, l \in Lookups :
               \A v \in Terminal : outcome'[s][l] = v <=> outcome[s][l] = v
    PROVE  Verdict' = Verdict
BY DEF Verdict, VerdictOf, Terminal

LEMMA SameVerification ==
    ASSUME captured' = captured, outcome' = outcome
    PROVE  Bytes' = Bytes /\ Asking' = Asking /\ Verdict' = Verdict
BY SameVerdict DEF Bytes, Asking

LEMMA SameRetention ==
    ASSUME stream' = stream, sentGeneration' = sentGeneration, closed' = closed,
           generation' = generation, expires' = expires, clock' = clock
    PROVE  Age' = Age /\ Seen' = Seen /\ Lapsed' = Lapsed
BY DEF Age, AgeOf, Seen, Lapsed, Unexpired

(***************************************************************************)
(* Pruning is a Drop: what it removes has lapsed.                          *)
(***************************************************************************)
LEMMA PrunedDrops ==
    ASSUME TypeOK, RetainedOK
    PROVE  \E gone \in SUBSET Promise!Lapsed : Pruned = Promise!Without(gone)
<1> DEFINE gone == {id \in Ids : Pruned[id] = None /\ responses[id] # None}
<1>1. gone \subseteq Promise!Lapsed
  BY DEF Promise!Lapsed, Pruned, Present, TypeOK, RetainedOK
<1>2. Pruned = Promise!Without(gone)
  BY PrunedOK DEF Promise!Without, TypeOK
<1> QED  BY <1>1, <1>2

LEMMA StutterRefines ==
    ASSUME responses' = responses, Age' = Age, Seen' = Seen, Lapsed' = Lapsed,
           Bytes' = Bytes, Asking' = Asking, Verdict' = Verdict
    PROVE  UNCHANGED Promise!vars
BY DEF Promise!vars, Promise!retention, Promise!verification, Age, Seen,
       Lapsed, Bytes, Asking, Verdict

(***************************************************************************)
(* A request sent by a closed client is fenced at once.                    *)
(***************************************************************************)
LEMMA SendRefines ==
    ASSUME IInv, NEW s \in Streams, Send(s)
    PROVE  Promise!Send(s)
<1> USE DEF IInv, Send, recordVars, closed
<1>1. Bytes' = Bytes /\ Asking' = Asking /\ Verdict' = Verdict
  BY SameVerification
<1>2. Seen' = Seen /\ Lapsed' = Lapsed
  BY DEF Seen, Lapsed, Unexpired, TypeOK
<1>3. Age[s] = "unsent"
  BY DEF Age, AgeOf
<1>4. Age' = [Age EXCEPT ![s] = IF closed THEN "fenced" ELSE "current"]
  BY DEF Age, AgeOf, TypeOK
<1>5. Age' \in {[Age EXCEPT ![s] = a] : a \in {"current", "fenced"}}
  BY <1>4
<1> QED
  BY <1>1, <1>2, <1>3, <1>5
     DEF Promise!Send, Promise!verification, Age, Seen, Lapsed, Bytes, Asking,
         Verdict

(***************************************************************************)
(* A registration that does not retain, and an abandoned call.             *)
(***************************************************************************)
LEMMA RefusedRefines ==
    ASSUME IInv, NEW s \in Streams, NEW why \in {"unretained", "duplicate"},
           stream[s] = "open", Refused(s, why)
    PROVE  UNCHANGED Promise!vars
<1> USE DEF IInv, Refused, recordVars, closed
<1>1. Bytes' = Bytes /\ Asking' = Asking /\ Verdict' = Verdict
  BY SameVerification
<1>2. Seen' = Seen /\ Lapsed' = Lapsed
  BY DEF Seen, Lapsed, Unexpired, TypeOK
<1>3. Age' = Age
  BY DEF Age, AgeOf, TypeOK
<1> QED  BY <1>1, <1>2, <1>3, StutterRefines

LEMMA RetainRefines ==
    ASSUME IInv, NEW s \in Streams, NEW id \in Ids, RegisterNew(s, id)
    PROVE  Promise!Retain(s, id)
<1> USE DEF IInv, RegisterNew
<1>1. PICK gone \in SUBSET Promise!Lapsed : Pruned = Promise!Without(gone)
  BY PrunedDrops
<1>2. /\ Promise!Without(gone)[id] = None
      /\ responses' = [Promise!Without(gone) EXCEPT ![id] = s]
  BY <1>1 DEF Taken, Pruned
<1>3. Seen' = Seen \cup {s} /\ s \notin Seen
  BY DEF Seen, TypeOK
<1>4. Lapsed' = Lapsed
  <2>1. Expiry > clock
    BY GoReceiptsAssumption DEF Expiry, TypeOK
  <2> QED  BY <2>1 DEF Lapsed, Unexpired, TypeOK
<1>5. Bytes' = Bytes \cup {s}
  BY DEF Bytes, TypeOK
<1>6. Asking' = Asking /\ Verdict' = Verdict
  BY SameVerdict DEF Asking
<1>7. Age[s] = "current" /\ Age' = Age
  BY DEF Age, AgeOf, Fenced, Shut, closed, TypeOK
<1> QED
  BY <1>2, <1>3, <1>4, <1>5, <1>6, <1>7
     DEF Promise!Retain, Age, Seen, Lapsed, Bytes, Asking, Verdict

LEMMA StreamRefines ==
    ASSUME IInv, NEW s \in Streams, StreamStep(s)
    PROVE  Promise!Next \/ UNCHANGED Promise!vars
<1>1. CASE Send(s)
  BY <1>1, SendRefines DEF Promise!Next
<1>2. CASE Abandon(s)
  BY <1>2, RefusedRefines DEF Abandon, Refused
<1>3. CASE RegisterNothing(s)
  BY <1>3, RefusedRefines DEF RegisterNothing
<1>4. ASSUME NEW id \in Ids, RegisterDuplicate(s, id)
      PROVE  UNCHANGED Promise!vars
  BY <1>4, RefusedRefines DEF RegisterDuplicate
<1>5. ASSUME NEW id \in Ids, RegisterNew(s, id) PROVE Promise!Next
  BY <1>5, RetainRefines DEF Promise!Next
<1> QED  BY <1>1, <1>2, <1>3, <1>4, <1>5 DEF StreamStep, Register

(***************************************************************************)
(* Verification.  A lookup that runs or has decided is the installed one,  *)
(* so a record without an installed lookup is neither asking nor decided.  *)
(***************************************************************************)
LEMMA StartRefines ==
    ASSUME IInv, NEW c \in Callers, NEW id \in Ids, Start(c, id),
           NEW s \in Streams, s = responses[id]
    PROVE  \E l \in Lookups : Promise!Ask(s, l)
<1> USE DEF IInv, Start, Found, Present, NeedsLookup
<1>1. s \in Bytes
  BY DEF Bytes, TypeOK, RetainedOK, RecordOK
<1>2. PICK l \in Unused(s) : outcome' = [outcome EXCEPT ![s][l] = "running"]
  OBVIOUS
<1>3. \A k \in Lookups : outcome[s][k] \notin Terminal \cup {"running"}
  BY <1>1, GoReceiptsAssumption DEF Installed
<1>4. Verdict[s] = "undecided" /\ Asking[s] = {}
  BY <1>1, <1>3 DEF Verdict, VerdictOf, Asking, Terminal
<1>5. Asking' = [Asking EXCEPT ![s] = {l}]
  <2>1. Asking'[s] = {l}
    BY <1>1, <1>2, <1>3 DEF Asking, Unused, TypeOK
  <2>2. \A t \in Streams \ {s} : Asking'[t] = Asking[t]
    BY <1>1, <1>2 DEF Asking, TypeOK
  <2> QED  BY <1>1, <2>1, <2>2 DEF Asking
<1>6. Verdict' = Verdict
  <2>1. \A t \in Streams, k \in Lookups :
            \A v \in Terminal : outcome'[t][k] = v <=> outcome[t][k] = v
    BY <1>1, <1>2 DEF Unused, TypeOK, Terminal
  <2> QED  BY <2>1, SameVerdict
<1>7. Age' = Age /\ Seen' = Seen /\ Lapsed' = Lapsed
  BY SameRetention DEF streamVars, closed
<1>8. Bytes' = Bytes /\ responses' = responses
  BY DEF Bytes
<1>9. Promise!Ask(s, l)
  BY <1>1, <1>4, <1>5, <1>6, <1>7, <1>8
     DEF Promise!Ask, Promise!retention, Age, Seen, Lapsed, Bytes, Asking,
         Verdict
<1> QED  BY <1>2, <1>9 DEF Unused

LEMMA CallerRefines ==
    ASSUME IInv, NEW c \in Callers, CallerStep(c)
    PROVE  Promise!Next \/ UNCHANGED Promise!vars
<1>1. ASSUME NEW id \in Ids, Start(c, id) PROVE Promise!Next
  <2>1. PICK s \in Streams : s = responses[id]
    BY <1>1 DEF Start, Found, Present, IInv, TypeOK
  <2> QED  BY <1>1, <2>1, StartRefines DEF Promise!Next
<1>2. ASSUME Return(c) \/ \E id \in Ids : NotFound(c, id) \/ Join(c, id)
      PROVE  UNCHANGED Promise!vars
  <2>1. UNCHANGED <<clock, close, generation, responses, streamVars, recordVars>>
    BY <1>2 DEF NotFound, Join, Return, vars
  <2>2. Age' = Age /\ Seen' = Seen /\ Lapsed' = Lapsed
    BY <2>1, SameRetention DEF streamVars, recordVars, closed
  <2>3. Bytes' = Bytes /\ Asking' = Asking /\ Verdict' = Verdict
    BY <2>1, SameVerification DEF recordVars
  <2> QED  BY <2>1, <2>2, <2>3, StutterRefines
<1> QED  BY <1>1, <1>2 DEF CallerStep, Receive, GiveUp

LEMMA SettleRefines ==
    ASSUME IInv, NEW s \in Streams, NEW l \in Lookups, Settle(s, l)
    PROVE  Promise!Retry(s) \/ Promise!Decide(s)
<1> USE DEF IInv, Settle
<1>1. PICK o \in Terminal \cup {"retryable"} :
         /\ outcome' = [outcome EXCEPT ![s][l] = o]
         /\ captured' = [captured EXCEPT ![s] = IF Releases(o) THEN FALSE ELSE @]
  OBVIOUS
<1>2. \A k \in Lookups \ {l} : outcome[s][k] \notin Terminal \cup {"running"}
  BY DEF Installed
<1>3. Asking[s] # {} /\ Asking' = [Asking EXCEPT ![s] = {}]
  <2>1. l \in Asking[s]
    BY DEF Asking
  <2>2. Asking'[s] = {}
    BY <1>1, <1>2 DEF Asking, TypeOK, Terminal
  <2>3. \A t \in Streams \ {s} : Asking'[t] = Asking[t]
    BY <1>1 DEF Asking, TypeOK
  <2> QED  BY <2>1, <2>2, <2>3 DEF Asking
<1>4. Age' = Age /\ Seen' = Seen /\ Lapsed' = Lapsed /\ responses' = responses
  BY SameRetention DEF streamVars, closed
<1>5. CASE o = "retryable"
  <2>1. \A t \in Streams, k \in Lookups :
            \A v \in Terminal : outcome'[t][k] = v <=> outcome[t][k] = v
    BY <1>1, <1>5 DEF TypeOK, Terminal
  <2>2. Verdict' = Verdict
    BY <2>1, SameVerdict
  <2>3. Bytes' = Bytes
    BY <1>1, <1>5 DEF Bytes, Releases, TypeOK
  <2> QED
    BY <1>3, <1>4, <2>2, <2>3
       DEF Promise!Retry, Promise!retention, Age, Seen, Lapsed, Bytes, Asking,
           Verdict
<1>6. CASE o \in Terminal
  <2>1. VerdictOf(s)' = o
    BY <1>1, <1>2, <1>6 DEF VerdictOf, Terminal, TypeOK
  <2>2. \A t \in Streams \ {s} : VerdictOf(t)' = VerdictOf(t)
    BY <1>1 DEF VerdictOf, TypeOK
  <2>3. Verdict' = [Verdict EXCEPT ![s] = o]
    BY <2>1, <2>2 DEF Verdict
  <2>4. Verdict' \in {[Verdict EXCEPT ![s] = v] :
                          v \in {"ok", "failed", "cancelled"}}
    BY <1>6, <2>3 DEF Terminal
  <2>5. Bytes' \in {Bytes, Bytes \ {s}}
    BY <1>1 DEF Bytes, TypeOK
  <2> QED
    BY <1>3, <1>4, <2>4, <2>5
       DEF Promise!Decide, Promise!retention, Age, Seen, Lapsed, Bytes, Asking,
           Verdict
<1> QED  BY <1>1, <1>5, <1>6

-----------------------------------------------------------------------------
(***************************************************************************)
(* The cache as a whole.  A clear fences every call sent so far because no *)
(* call has read a generation that is still to come, and so does Close.    *)
(***************************************************************************)
LEMMA PruneRefines == IInv /\ Prune => Promise!Drop
<1> SUFFICES ASSUME IInv, Prune PROVE Promise!Drop
  OBVIOUS
<1> USE DEF IInv, Prune, streamVars, recordVars, closed
<1>1. Bytes' = Bytes /\ Asking' = Asking /\ Verdict' = Verdict
  BY SameVerification
<1>2. Age' = Age /\ Seen' = Seen /\ Lapsed' = Lapsed
  BY SameRetention
<1>3. \E gone \in SUBSET Promise!Lapsed : responses' = Promise!Without(gone)
  BY PrunedDrops
<1> QED
  BY <1>1, <1>2, <1>3
     DEF Promise!Drop, Promise!verification, Age, Seen, Lapsed, Bytes, Asking,
         Verdict

LEMMA ClearRefines == IInv /\ (ClearResponseCache \/ CloseMark) => Promise!Clear
<1> SUFFICES ASSUME IInv, ClearResponseCache \/ CloseMark PROVE Promise!Clear
  OBVIOUS
<1> USE DEF IInv, ClearResponseCache, CloseMark, streamVars, recordVars
<1>1. Bytes' = Bytes /\ Asking' = Asking /\ Verdict' = Verdict
  BY SameVerification
<1>2. Seen' = Seen /\ Lapsed' = Lapsed
  BY DEF Seen, Lapsed, Unexpired
<1>3. Age' = [s \in Streams |->
                 IF Age[s] = "current" THEN "fenced" ELSE Age[s]]
  BY GoReceiptsAssumption DEF Age, AgeOf, SentBefore, TypeOK, closed
<1> QED
  BY <1>1, <1>2, <1>3
     DEF Promise!Clear, Promise!verification, Age, Seen, Lapsed, Bytes, Asking,
         Verdict

LEMMA TickRefines == IInv /\ Tick => Promise!Lapse
<1> SUFFICES ASSUME IInv, Tick PROVE Promise!Lapse
  OBVIOUS
<1> USE DEF IInv, Tick, streamVars, recordVars
<1>1. Bytes' = Bytes /\ Asking' = Asking /\ Verdict' = Verdict
  BY SameVerification
<1>2. Age' = Age /\ Seen' = Seen
  BY DEF Age, AgeOf, Seen, closed
<1>3. Lapsed \subseteq Lapsed' /\ Lapsed' \subseteq Seen
  BY GoReceiptsAssumption DEF Lapsed, Seen, Unexpired, TypeOK
<1>4. Lapsed' = Lapsed \cup Lapsed'
  BY <1>3
<1> QED
  BY <1>1, <1>2, <1>3, <1>4
     DEF Promise!Lapse, Promise!verification, Age, Seen, Lapsed, Bytes, Asking,
         Verdict

LEMMA QuietRefines == CloseReturn \/ UNCHANGED vars => UNCHANGED Promise!vars
<1> SUFFICES ASSUME CloseReturn \/ UNCHANGED vars PROVE UNCHANGED Promise!vars
  OBVIOUS
<1>1. /\ UNCHANGED <<clock, generation, responses, streamVars, recordVars>>
      /\ closed' = closed
  BY DEF CloseReturn, vars, closed
<1>2. Age' = Age /\ Seen' = Seen /\ Lapsed' = Lapsed
  BY <1>1, SameRetention DEF streamVars, recordVars
<1>3. Bytes' = Bytes /\ Asking' = Asking /\ Verdict' = Verdict
  BY <1>1, SameVerification DEF recordVars
<1> QED  BY <1>1, <1>2, <1>3, StutterRefines

(***************************************************************************)
(* Every behaviour of the Go cache is one the abstract Receipts allow: one *)
(* lookup per completion, bytes kept while one may need them, a verdict    *)
(* that is final, and nothing retained across a clear or Close.            *)
(***************************************************************************)
THEOREM RefinesReceipts == Spec => ImplementsReceipts
<1>1. IInv /\ [Next]_vars => [Promise!Next]_(Promise!vars)
  <2> SUFFICES ASSUME IInv, [Next]_vars
               PROVE  Promise!Next \/ UNCHANGED Promise!vars
    OBVIOUS
  <2>1. ASSUME NEW s \in Streams, NEW l \in Lookups, Settle(s, l)
        PROVE  Promise!Next
    BY <2>1, SettleRefines DEF Promise!Next
  <2>2. CASE Prune \/ ClearResponseCache \/ CloseMark \/ Tick
    BY <2>2, PruneRefines, ClearRefines, TickRefines DEF Promise!Next
  <2> QED
    BY <2>1, <2>2, StreamRefines, CallerRefines, QuietRefines DEF Next
<1> QED
  BY <1>1, InitRefines, Invariance, PTL
     DEF Spec, Promise!Spec, ImplementsReceipts
=============================================================================
