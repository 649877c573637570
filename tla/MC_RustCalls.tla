---------------------------- MODULE MC_RustCalls ----------------------------
(***************************************************************************)
(* The parts of a call of the Rust client that must not take a server's    *)
(* word for anything, for TLC: a call with its answer and its receipt      *)
(* (SendCases), and the reader of encapsulated answers.  They share        *)
(* nothing, so a behaviour is one of a single part while the other stays   *)
(* where it begins.                                                        *)
(***************************************************************************)
EXTENDS SendCases, RustOhttp

VARIABLE part    \* which of the two moves

-----------------------------------------------------------------------------
(* The requests the client is asked to encapsulate. *)

Config == [length |-> 41, kem |-> 32, size |-> 4, suited |-> TRUE]
Get == [config |-> Config, sameOrigin |-> TRUE, buffered |-> TRUE, fieldsSize |-> 2, bodySize |-> 1,
        head |-> FALSE]
MCRequests == {Get, [Get EXCEPT !.head = TRUE],
               [Get EXCEPT !.config.size = 3, !.config.length = 40],
               [Get EXCEPT !.sameOrigin = FALSE], [Get EXCEPT !.bodySize = Limit + 1]}
MCElements == {"[]", "[1]"}
MCNames == {<<>>, <<0>>, <<1>>, <<2>>, <<3>>}
MCValues == {<<>>, <<1>>, <<2>>, <<3>>, <<1, 0>>}

-----------------------------------------------------------------------------
MCInit ==
    /\ part \in {"call", "reader"}
    /\ Init /\ (part # "call" => call = Plain)
    /\ ReaderInit /\ (part # "reader" => asked = Get)

MCNext ==
    /\ UNCHANGED part
    /\ \/ part = "call" /\ Next /\ UNCHANGED readerVars
       \/ part = "reader" /\ ReaderNext /\ UNCHANGED vars

MCSpec == MCInit /\ [][MCNext]_<<part, vars, readerVars>>

-----------------------------------------------------------------------------
(* A property that needs the set of all whole messages. *)

AnyWhole == [head \in BOOLEAN |-> UNION {WholeAnswers[<<head, code, content>>] : code \in Final, content \in Contents}]
Started == [head \in BOOLEAN |-> [n \in 0..MaxAnswer |->
    {SubSeq(w, 1, n) : w \in {v \in AnyWhole[head] : Len(v) >= n}}]]

\* A whole message is accepted: the reader gives up only on what no whole
\* message begins with, or on an end that leaves the message incomplete.
HonestIsAccepted ==
    reader = "rejected" =>
        history \notin (IF ended THEN AnyWhole[asked.head] ELSE Started[asked.head][Len(history)])
=============================================================================
