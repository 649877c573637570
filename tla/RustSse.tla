------------------------------ MODULE RustSse ------------------------------
(***************************************************************************)
(* Server-sent events as the Rust client reads them (rs/src/sse.rs): the   *)
(* incremental record splitter, the lines and data of a record, the        *)
(* completion ID it carries and the lifecycle of a Messages stream.        *)
(*                                                                         *)
(* A stream is a sequence of cells: the bytes CR and LF, a BOM, and the    *)
(* text of a line, which is one cell because the splitter never looks into *)
(* it.  A text is [field, value]: field "data", "event" or "other"; the    *)
(* value of a data line is "empty", "done", "garbage" (not JSON) or "json" *)
(* with a member `body`, [object, id, response, message, type, choices];   *)
(* a text whose bytes are no UTF-8 has the value "invalid".                *)
(***************************************************************************)
EXTENDS RustE2ee

CONSTANT Part    \* how many bytes of a network chunk are appended at once

ASSUME RustSseAssumption == Part \in Nat \ {0}

CR == [field |-> "cr", value |-> "empty"]
LF == [field |-> "lf", value |-> "empty"]
BOM == [field |-> "bom", value |-> "empty"]
Terminators == {CR, LF}

-----------------------------------------------------------------------------
(* SseDecoder: the unfinished record, and how far it has been looked at.   *)

NewDecoder == [pending |-> <<>>, scan |-> 0, line |-> 0]

\* One turn of the loop of scan_records, at offset i.  A CR that is the last
\* byte so far is left for later: the next byte may be its LF.
BadScanByte(pending, eof, s, i) ==
    LET byte == pending[i + 1]
        crlf == byte = CR /\ i + 2 <= Len(pending) /\ pending[i + 2] = LF
        end == i + IF crlf THEN 2 ELSE 1
    IN IF i < s.scan THEN s
       ELSE IF byte \notin Terminators THEN [s EXCEPT !.scan = i + 1]
       ELSE IF i = s.line
            THEN [s EXCEPT !.scan = end, !.line = end, !.start = end,
                           !.records = Append(@, SubSeq(pending, s.start + 1, end))]
            ELSE [s EXCEPT !.scan = end, !.line = end]

ScanByte(pending, eof, s, i) ==
    LET byte == pending[i + 1]
        crlf == byte = CR /\ i + 2 <= Len(pending) /\ pending[i + 2] = LF
        end == i + IF crlf THEN 2 ELSE 1
    IN IF i < s.scan \/ s.held THEN s
       ELSE IF byte \notin Terminators THEN [s EXCEPT !.scan = i + 1]
       ELSE IF byte = CR /\ i + 1 = Len(pending) /\ ~eof THEN [s EXCEPT !.held = TRUE]
       ELSE IF i = s.line
            THEN [s EXCEPT !.scan = end, !.line = end, !.start = end,
                           !.records = Append(@, SubSeq(pending, s.start + 1, end))]
            ELSE [s EXCEPT !.scan = end, !.line = end]

ScanRecords(d, eof) ==
    LET from == [scan |-> d.scan, line |-> d.line, start |-> 0, held |-> FALSE, records |-> <<>>]
        after[i \in 0..Len(d.pending)] ==
            IF i = 0 THEN from ELSE ScanByte(d.pending, eof, after[i - 1], i - 1)
        s == after[Len(d.pending)]
    IN [decoder |-> [pending |-> SubSeq(d.pending, s.start + 1, Len(d.pending)),
                     scan |-> s.scan - s.start, line |-> s.line - s.start],
        records |-> s.records]

\* Append a part of a chunk and scan it.
Fed(r, part) ==
    LET s == ScanRecords([r.decoder EXCEPT !.pending = @ \o part], FALSE)
    IN [s EXCEPT !.records = r.records \o @]

Parts(bytes) ==
    [k \in 1..((Len(bytes) + Part - 1) \div Part) |->
        SubSeq(bytes, (k - 1) * Part + 1, IF k * Part < Len(bytes) THEN k * Part ELSE Len(bytes))]

Push(d, bytes) ==
    LET parts == Parts(bytes)
        after[k \in 0..Len(parts)] ==
            IF k = 0 THEN [decoder |-> d, records |-> <<>>] ELSE Fed(after[k - 1], parts[k])
    IN after[Len(parts)]

\* The end of the stream also ends an unfinished record.
PushEof(d) ==
    LET s == ScanRecords(d, TRUE)
        rest == s.decoder.pending
    IN [decoder |-> NewDecoder,
        records |-> IF rest = <<>> THEN s.records ELSE Append(s.records, rest)]

-----------------------------------------------------------------------------
(* The lines of a record, its data, its event name. *)

\* Where a line ends: after LF, or after a CR that no LF follows.
LineEnds(bytes) ==
    {e \in DOMAIN bytes :
        \/ bytes[e] = LF
        \/ bytes[e] = CR /\ (e = Len(bytes) \/ bytes[e + 1] # LF)}

\* The pieces of some bytes that end at some cuts, the k-th at the k-th cut.
Ranked(cuts, k) == {c \in cuts : Cardinality({d \in cuts : d <= c}) = k}
Nth(cuts, k) == IF k = 0 THEN 0 ELSE CHOOSE c \in Ranked(cuts, k) : TRUE
PiecesOf(bytes, cuts) ==
    [k \in 1..Cardinality(cuts) |-> SubSeq(bytes, Nth(cuts, k - 1) + 1, Nth(cuts, k))]

\* `lines`, each without its terminator, which is at its end.
Text(piece) == SubSeq(piece, 1, Cardinality({k \in DOMAIN piece : piece[k] \notin Terminators}))
Lines(record) ==
    LET pieces == PiecesOf(record, LineEnds(record) \cup ({Len(record)} \ {0}))
    IN [k \in DOMAIN pieces |-> Text(pieces[k])]

\* str::from_utf8, on a whole record.
Utf8(record) == \A k \in DOMAIN record : record[k].value # "invalid"

\* A field is recognised at the start of its line only.
HasField(line, field) == Len(line) = 1 /\ line[1].field = field

\* The data lines, each at its place among the lines.
Data(lines) == [k \in {j \in DOMAIN lines : HasField(lines[j], "data")} |-> lines[k][1]]

\* `event_name`: the last event line counts; "none" when there is none.
EventName(lines) ==
    LET those == SelectSeq(lines, LAMBDA l : HasField(l, "event"))
    IN IF those = <<>> THEN "none" ELSE Last(those)[1].value

\* The data lines joined are nothing, or the end marker, or one JSON body:
\* white space around it is harmless.
Is(data, value) == \E k \in DOMAIN data : DOMAIN data = {k} /\ data[k].value = value
NoData(data) == DOMAIN data = {} \/ Is(data, "empty")
Json(data) ==
    LET solid == {k \in DOMAIN data : data[k].value # "empty"}
    IN {data[k].body : k \in {j \in solid : solid = {j} /\ data[j].value = "json"}}

-----------------------------------------------------------------------------
(* transform *)

\* The receipt ID: nested by Responses and by the first event of Messages.
ReceiptId(body, route) ==
    CASE ~body.object -> "none"
      [] route = "responses" -> body.response
      [] route = "messages" -> IF body.type = "message_start" THEN body.message ELSE "none"
      [] OTHER -> body.id

\* The record with its last data line replaced by the opened body.
Rewritten(record, body) ==
    LET data == {k \in DOMAIN record : record[k].field = "data"}
        last == CHOOSE k \in data : \A j \in data : j <= k
        Dropped(k) ==   \* an earlier data line, or its terminator
            \/ k \in data \ {last}
            \/ k - 1 \in data \ {last} /\ record[k] \in Terminators
            \/ k - 2 \in data \ {last} /\ record[k - 1] = CR /\ record[k] = LF
        kept == {k \in DOMAIN record : ~Dropped(k)}
    IN [k \in 1..Cardinality(kept) |->
           IF Nth(kept, k) = last THEN [field |-> "data", value |-> "json", body |-> body]
           ELSE record[Nth(kept, k)]]

Refused(id) == [ok |-> FALSE, out |-> <<>>, id |-> id]
Passed(record, id) == [ok |-> TRUE, out |-> record, id |-> id]

Decrypted(record, body, opened, id) ==
    IF opened.ok THEN Passed(Rewritten(record, [body EXCEPT !.choices = opened.doc]), id)
    ELSE Refused(id)

BadIdentified(record, body, found, key, id) ==
    Passed(record, IF found = "none" THEN id ELSE found)
Identified(record, body, found, key, id) ==
    IF found # "none" /\ id \notin {"none", found} THEN Refused(id)
    ELSE LET kept == IF found = "none" THEN id ELSE found
         IN IF key = "none" THEN Passed(record, kept)
            ELSE IF ~body.object THEN Refused(kept)
            ELSE IF body.choices = Absent THEN Passed(record, kept)
            ELSE Decrypted(record, body, DecryptResponse(body.choices, key, TRUE), kept)

Parsed(record, json, key, id, route) ==
    IF json = {} THEN IF key = "none" THEN Passed(record, id) ELSE Refused(id)
    ELSE LET body == CHOOSE b \in json : TRUE
         IN Identified(record, body, ReceiptId(body, route), key, id)

Transform(record, lines, data, key, id, route) ==
    IF ~Utf8(record) THEN Refused(id)
    ELSE IF NoData(data) \/ Is(data, "done") \/ EventName(lines) = "error" THEN Passed(record, id)
    ELSE Parsed(record, Json(data), key, id, route)

-----------------------------------------------------------------------------
(* MessageStreamState *)

NewLifecycle == [started |-> FALSE, stopped |-> FALSE]

\* What `observe` refuses of an event.
BadIllFormed(state, event, name) == ~event.object
IllFormed(state, event, name) ==
    \/ ~event.object
    \/ state.stopped
    \/ event.type \in {"none", "empty", "error"}
    \/ name \notin {"none", event.type}
    \/ event.type = "message_start" /\ state.started

Observed(state, event, name) ==
    [ok |-> ~IllFormed(state, event, name),
     state |-> [started |-> state.started \/ event.type = "message_start",
                stopped |-> event.type = "message_stop"]]

Observe(state, lines, data) ==
    IF (\E k \in DOMAIN lines : ~Utf8(lines[k])) \/ lines = <<>> \/ Last(lines) # <<>> \/ EventName(lines) = "error"
    THEN [ok |-> FALSE, state |-> state]
    ELSE IF NoData(data) THEN [ok |-> TRUE, state |-> state]
    ELSE IF Json(data) = {} THEN [ok |-> FALSE, state |-> state]
    ELSE Observed(state, CHOOSE event \in Json(data) : TRUE, EventName(lines))

Complete(state) == state.started /\ state.stopped
=============================================================================
