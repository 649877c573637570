----------------------------- MODULE RustOhttp -----------------------------
(***************************************************************************)
(* Oblivious HTTP in the Rust client (rs/src/ohttp.rs): which request is   *)
(* encapsulated, and the incremental reader of the encapsulated answer, a  *)
(* Binary HTTP message (RFC 9292) of known or of indeterminate length,     *)
(* which yields content as it arrives.                                     *)
(*                                                                         *)
(* A message is a sequence of cells 0..3 in place of bytes: the first cell *)
(* of an integer has one bit of length (one cell or two) and one of value. *)
(* Whoever sends the answer is free: it chooses every cell as it is read,  *)
(* ends the chunks or breaks their authentication at any point.  An end of *)
(* the chunks that authenticates is the only end the reader sees as one.   *)
(***************************************************************************)
EXTENDS Integers, SequencesExt

CONSTANTS
    OhttpRequests,                  \* what is to be sent, by which client
    Limit, FieldsLimit,             \* 2^30 and 2^20 in the code
    MaxInformational, ChunkSize,    \* 32 and 16384
    MaxLength,                      \* usize::MAX
    MaxNames,                       \* distinct names a HeaderMap can hold
    Informational, Final, Bodiless, \* status codes
    FieldNames, FieldValues,        \* cells a field name and value may be
    ContentCells,                   \* cells of content
    MaxAnswer                       \* bound on what the answer sends

ASSUME RustOhttpAssumption ==
    /\ {Limit, FieldsLimit, MaxInformational, MaxLength, MaxAnswer} \subseteq Nat
    /\ {ChunkSize, MaxNames} \subseteq Nat \ {0}
    /\ \A r \in OhttpRequests : r.head \in BOOLEAN
    /\ Informational \cup Final \subseteq Nat /\ Bodiless \subseteq Final /\ Informational \cap Final = {}
    /\ FieldNames \cup FieldValues \subseteq Seq(0..3)

VARIABLES
    asked, reader,
    history,            \* every cell of the answer so far
    ended,              \* its chunks are over, and the reader found it
    known,              \* the framing is of known length
    informational,      \* informational answers so far
    status,             \* the status whose fields are read
    fields, used,       \* the section so far, and its size
    firstPiece,         \* no piece of the content has begun
    remaining,          \* cells that the piece still lacks
    total, delivered    \* content and padding so far, and what was yielded

messageVars == <<known, informational, status, fields, used, firstPiece, remaining, total, delivered>>
readerVars == <<asked, reader, history, ended, messageVars>>

ReaderInit ==
    /\ asked \in OhttpRequests
    /\ reader = "ready" /\ history = <<>> /\ ended = FALSE
    /\ known = FALSE /\ informational = 0 /\ status = 0 /\ fields = <<>> /\ used = 0
    /\ firstPiece = TRUE /\ remaining = 0 /\ total = 0 /\ delivered = <<>>

-----------------------------------------------------------------------------
(* create_ohttp_client and send. *)

\* A key configuration: its length, KEM, the size of its suites, and whether
\* the one suite of the other clients is among them.
Configured(c) ==
    /\ c.length >= 41 /\ c.kem = 32
    /\ c.size # 0 /\ c.size % 4 = 0 /\ c.length = 37 + c.size
    /\ c.suited

Encodable(r) == r.buffered /\ r.fieldsSize <= FieldsLimit /\ r.bodySize <= Limit

SendEncapsulated ==
    /\ reader = "ready"
    /\ reader' = IF Configured(asked.config) /\ asked.sameOrigin /\ Encodable(asked)
                 THEN "sent" ELSE "refused"
    /\ UNCHANGED <<asked, history, ended, messageVars>>

\* The answer's own head: a success of the right media type, or not.
Answered ==
    /\ reader = "sent"
    /\ reader' \in {"framing", "refused"}
    /\ UNCHANGED <<asked, history, ended, messageVars>>

-----------------------------------------------------------------------------
(* Integers.  `integer` reads one cell, or two. *)

Value(cells) == IF Len(cells) = 1 THEN cells[1] ELSE (cells[1] - 2) * 4 + cells[2]
Encodings == {<<c>> : c \in {0, 1}} \cup {<<c, d>> : c \in {2, 3}, d \in 0..3}

\* slice_vector, at `at`: the cells of a vector inside a known section.
SliceVector(data, at) ==
    LET wide == data[at] >= 2
        next == at + IF wide THEN 2 ELSE 1
        size == Value(SubSeq(data, at, next - 1))
    IN IF at > Len(data) THEN [ok |-> FALSE]
       ELSE IF next - 1 > Len(data) THEN [ok |-> FALSE]
       ELSE IF next - 1 + size > Len(data) THEN [ok |-> FALSE]
       ELSE [ok |-> TRUE, next |-> next + size, slice |-> SubSeq(data, next, next + size - 1)]

\* insert: a header name is a token and not hop-by-hop, its value is field
\* content; cell 3 stands for what is not.  The name <<2>> is content-length;
\* of a value, 0 and 1 are digits.
Legal(f) == f[1] # <<>> /\ \A cells \in {f[1], f[2]} : \A k \in DOMAIN cells : cells[k] # 3

\* A map of as many names as it can hold takes nothing more, not even
\* another value of a name it has.
Room(section) == Cardinality({section[k][1] : k \in DOMAIN section}) < MaxNames

Insertable(section, name, value) == Legal(<<name, value>>) /\ Room(section)

\* The fields of a known section, from one to the next.
SliceField(data, acc) ==
    LET n == SliceVector(data, acc.at)
        v == SliceVector(data, n.next)
    IN IF ~acc.ok \/ acc.at > Len(data) THEN acc
       ELSE IF ~n.ok THEN [ok |-> FALSE]
       ELSE IF ~v.ok THEN [ok |-> FALSE]
       ELSE IF ~Insertable(acc.fields, n.slice, v.slice) THEN [ok |-> FALSE]
       ELSE [ok |-> TRUE, at |-> v.next, fields |-> Append(acc.fields, <<n.slice, v.slice>>)]
SliceFields(data) ==
    LET upTo[k \in 0..Len(data)] ==
            IF k = 0 THEN [ok |-> TRUE, at |-> 1, fields |-> <<>>] ELSE SliceField(data, upTo[k - 1])
    IN upTo[Len(data)]

\* content_length: decimal, no larger than a usize, and the same wherever it
\* is repeated.
Decimal(value) == FoldLeft(LAMBDA n, c : n * 10 + c, 0, value)
DeclaredLengths(section) == {section[k][2] : k \in {j \in DOMAIN section : section[j][1] = <<2>>}}
LengthsAgree(section) ==
    /\ \A v \in DeclaredLengths(section) :
          v # <<>> /\ (\A k \in DOMAIN v : v[k] \in {0, 1}) /\ Decimal(v) <= MaxLength
    /\ \A a, b \in DeclaredLengths(section) : Decimal(a) = Decimal(b)

-----------------------------------------------------------------------------
(* The reader: one action for every turn of its loops.  A turn reads some  *)
(* cells, all those that a successful turn reads.                          *)

Strings(n, cell) == [1..n -> cell]

\* A known section, or one line of an indeterminate one.
KnownReads ==
    UNION {{[cells |-> c \o d, size |-> Value(c), data |-> d] :
                d \in IF Value(c) <= FieldsLimit THEN Strings(Value(c), 0..3) ELSE {<<>>}} :
           c \in Encodings}
Numbers(v) == {e \in Encodings : Value(e) = v}
LineReads ==
    {[cells |-> c, name |-> <<>>] : c \in Numbers(0)}
    \cup UNION {{[cells |-> c \o n \o d \o v, name |-> n, value |-> v] :
                     c \in Numbers(Len(n)), d \in Numbers(Len(v))} :
                 n \in FieldNames \ {<<>>}, v \in FieldValues}
Lone == {[cells |-> c] : c \in Encodings}

Smaller(a, b) == IF a < b THEN a ELSE b

Reads ==
    CASE reader \in {"framing", "status", "content"} -> Lone
      [] reader \in {"section", "trailers"} -> IF known THEN KnownReads ELSE LineReads
      [] reader = "piece" -> {[cells |-> c] : c \in Strings(Smaller(remaining, ChunkSize), ContentCells)}
      [] reader = "padding" -> {[cells |-> <<c>>] : c \in {0, 1}}
      [] OTHER -> {}

Received(cells) == history' = history \o cells /\ UNCHANGED <<asked, ended>>

Reject == reader' = "rejected" /\ UNCHANGED messageVars

ReadFraming(r) ==
    /\ reader = "framing"
    /\ IF Value(r.cells) \notin {1, 3} THEN Reject
       ELSE /\ reader' = "status" /\ known' = (Value(r.cells) = 1)
            /\ UNCHANGED <<informational, status, fields, used, firstPiece, remaining, total, delivered>>

ReadStatus(r) ==
    LET code == Value(r.cells)
        more == informational + IF code \in Informational THEN 1 ELSE 0
    IN /\ reader = "status"
       /\ IF code \notin Informational \cup Final \/ more > MaxInformational THEN Reject
          ELSE /\ reader' = "section" /\ status' = code /\ informational' = more
               /\ fields' = <<>> /\ used' = 0
               /\ UNCHANGED <<known, firstPiece, remaining, total, delivered>>

BadNoBody == status \in Bodiless
NoBody == asked.head \/ status \in Bodiless

\* What follows a section that is complete: another status, the content of
\* a final answer (whose lengths must agree), or the padding.
AfterSection(section) ==
    /\ IF reader = "trailers" THEN reader' = "padding"
       ELSE IF status \in Informational THEN reader' = "status"
       ELSE reader' = IF LengthsAgree(section) THEN "content" ELSE "rejected"
    /\ fields' = section
    /\ UNCHANGED <<known, informational, status, used, firstPiece, remaining, total, delivered>>

ReadKnown(r) ==
    /\ reader \in {"section", "trailers"} /\ known
    /\ LET section == SliceFields(r.data)
       IN IF r.size > FieldsLimit \/ ~section.ok THEN Reject ELSE AfterSection(section.fields)

ReadLine(r) ==
    /\ reader \in {"section", "trailers"} /\ ~known
    /\ IF r.name = <<>> THEN AfterSection(fields)
       ELSE LET size == used + Len(r.name) + Len(r.value)
            IN IF size > FieldsLimit \/ ~Insertable(fields, r.name, r.value) THEN Reject
               ELSE /\ fields' = Append(fields, <<r.name, r.value>>) /\ used' = size
                    /\ UNCHANGED <<reader, known, informational, status, firstPiece, remaining, total, delivered>>

\* The content is complete: it is as long as was declared, if it was.
AfterContent ==
    /\ IF ~NoBody /\ \E v \in DeclaredLengths(fields) : Decimal(v) # total
       THEN reader' = "rejected"
       ELSE reader' = "trailers"
    /\ fields' = <<>> /\ used' = 0
    /\ UNCHANGED <<known, informational, status, firstPiece, remaining, total, delivered>>

ReadLength(r) ==
    /\ reader = "content"
    /\ IF Value(r.cells) = 0 THEN AfterContent
       ELSE IF Value(r.cells) > Limit THEN Reject
       ELSE /\ reader' = "piece" /\ firstPiece' = FALSE /\ remaining' = Value(r.cells)
            /\ UNCHANGED <<known, informational, status, fields, used, total, delivered>>

ReadPiece(r) ==
    LET sum == total + Len(r.cells)
        left == remaining - Len(r.cells)
    IN /\ reader = "piece"
       /\ IF remaining = 0 THEN FALSE
          ELSE IF sum > Limit \/ (~NoBody /\ \E v \in DeclaredLengths(fields) : sum > Decimal(v)) THEN Reject
          ELSE /\ total' = sum /\ remaining' = left
               /\ delivered' = IF NoBody THEN delivered ELSE delivered \o r.cells
               /\ reader' = IF left > 0 THEN "piece" ELSE IF known THEN "counted" ELSE "content"
               /\ UNCHANGED <<known, informational, status, fields, used, firstPiece>>

\* The one run of content of a known length is over.
Counted == reader = "counted" /\ AfterContent /\ UNCHANGED <<asked, history, ended>>

\* drain_padding: zeroes, within what the content left of the limit.
ReadPadding(r) ==
    /\ reader = "padding"
    /\ IF total + 1 > Limit \/ r.cells # <<0>> THEN Reject
       ELSE total' = total + 1
            /\ UNCHANGED <<reader, known, informational, status, fields, used, firstPiece, remaining, delivered>>

Read ==
    /\ ~ended
    /\ \E r \in Reads :
        /\ Len(history) + Len(r.cells) <= MaxAnswer
        /\ Received(r.cells)
        /\ \/ ReadFraming(r) \/ ReadStatus(r) \/ ReadKnown(r) \/ ReadLine(r)
           \/ ReadLength(r) \/ ReadPiece(r) \/ ReadPadding(r)

-----------------------------------------------------------------------------
(* How the answer stops. *)

\* An integer may be missing where the rest of the message may be: an end
\* there reads as zero.
BadOptional ==
    \/ reader = "content"
    \/ reader \in {"section", "trailers"} /\ (known \/ used = 0)
Optional ==
    \/ reader = "content" /\ firstPiece
    \/ reader \in {"section", "trailers"} /\ (known \/ used = 0)

\* The end, which authenticates, where the message may end.
End ==
    /\ ended' = TRUE /\ UNCHANGED <<asked, history>>
    /\ \/ reader = "padding" /\ reader' = "done" /\ UNCHANGED messageVars
       \/ reader = "content" /\ Optional /\ AfterContent
       \/ reader \in {"section", "trailers"} /\ Optional /\ AfterSection(IF known THEN <<>> ELSE fields)

\* The end where the reader needs more cells than it has.
Cuts == UNION {{SubSeq(r.cells, 1, k) : k \in 0..Len(r.cells) - 1} : r \in Reads}
EndEarly ==
    /\ \E cut \in Cuts :
        /\ IF cut = <<>> THEN ~Optional /\ reader # "padding" ELSE ~ended
        /\ Len(history) + Len(cut) <= MaxAnswer
        /\ history' = history \o cut
    /\ ended' = TRUE /\ Reject /\ UNCHANGED asked

\* A chunk that does not authenticate, or a transport error.
Break ==
    /\ Reads # {} /\ ~ended
    /\ reader' = "broken"
    /\ UNCHANGED <<asked, history, ended, messageVars>>

ReaderNext == SendEncapsulated \/ Answered \/ Read \/ Counted \/ End \/ EndEarly \/ Break

ReaderSpec == ReaderInit /\ [][ReaderNext]_readerVars

-----------------------------------------------------------------------------
(* What a whole answer is, written from the sender's side: the encodings   *)
(* of every message within the limits, for the reader to be compared with. *)

Number(v) == (IF v < 2 THEN {<<v>>} ELSE {}) \cup (IF v < 8 THEN {<<2 + (v \div 4), v % 4>>} ELSE {})
Vector(cells) == {n \o cells : n \in Number(Len(cells))}
Cat(A, B) ==
    UNION {{a \o b : a \in {x \in A : Len(x) = n}, b \in {y \in B : n + Len(y) <= MaxAnswer}} :
           n \in 0..MaxAnswer}

\* Elements of an answer: their cells, what they say, what they count for.
Element(cells, says, counts) == [cells |-> cells, says |-> says, counts |-> counts]
Beside(a, b) == Element(a.cells \o b.cells, a.says \o b.says, a.counts + b.counts)
CellsOf(A) == {e.cells : e \in A}

\* Any number of elements behind one to start with, within a limit.
Joinable(A, B, limit) ==
    {p \in A \X B : Len(p[1].cells) + Len(p[2].cells) <= MaxAnswer /\ p[1].counts + p[2].counts <= limit}
Series(starts, elements, limit) ==
    LET upTo[k \in 0..limit] ==
            IF k = 0 THEN starts
            ELSE {Beside(p[1], p[2]) : p \in Joinable(upTo[k - 1], elements, limit)}
    IN UNION {upTo[k] : k \in 0..limit}
Empty == Element(<<>>, <<>>, 0)

\* The encodings of a field.  A known section counts all its cells, and two
\* of them are at least the two numbers of a field.
Strands(n) == UNION {Strings(k, 0..3) : k \in 0..n}
FieldElements(counted) ==
    LET names == IF counted THEN Strands(FieldsLimit - 2) ELSE FieldNames
        values == IF counted THEN Strands(FieldsLimit - 2) ELSE FieldValues
    IN UNION {{Element(c, <<f>>, IF counted THEN Len(c) ELSE Len(f[1]) + Len(f[2])) :
                   c \in Cat(Vector(f[1]), Vector(f[2]))} : f \in {g \in names \X values : Legal(g)}}

\* The fields before the last leave it room, and so do those before them.
Fits(list) == list = <<>> \/ Room(Front(list))

\* A section: counted as a whole, or field by field up to a zero.
Closed(e, counted) ==
    IF counted THEN {[e EXCEPT !.cells = v] : v \in Vector(e.cells)}
    ELSE {[e EXCEPT !.cells = @ \o z] : z \in Number(0)}
Sections == [counted \in BOOLEAN |->
    UNION {Closed(e, counted) :
           e \in {s \in Series({Empty}, FieldElements(counted), FieldsLimit) : Fits(s.says)}}]

\* What comes before the answer's own status.
Framings(counted) == {Element(n, <<>>, 0) : n \in Number(IF counted THEN 1 ELSE 3)}
Interims(counted) ==
    UNION {{Element(n \o s.cells, <<>>, 1) : n \in UNION {Number(c) : c \in Informational}} :
           s \in Sections[counted]}
Preambles == [counted \in BOOLEAN |-> CellsOf(Series(Framings(counted), Interims(counted), MaxInformational))]

\* The head of an answer, whose declared lengths are one and allow the content.
Declares(list, size) == LengthsAgree(list) /\ \A v \in DeclaredLengths(list) : Decimal(v) = size
Heads(counted, code, size, free) ==
    Cat(Cat(Preambles[counted], Number(code)),
        CellsOf({s \in Sections[counted] : IF free THEN LengthsAgree(s.says) ELSE Declares(s.says, size)}))

\* Content: one piece, or pieces up to a zero.
Contents == UNION {Strings(n, ContentCells) : n \in 0..Limit}
Pieces == UNION {{Element(v, c, Len(c)) : v \in Vector(c)} : c \in Contents \ {<<>>}}
Carried(counted, content) ==
    IF counted THEN Vector(content)
    ELSE Cat(CellsOf({e \in Series({Empty}, Pieces, Limit) : e.says = content}), Number(0))

\* The whole messages of a status and a content: trailers and padding may be
\* missing, and whatever follows the status when there is no content.
WholeMessages(counted, head, code, content) ==
    LET heads == Heads(counted, code, Len(content), head \/ code \in Bodiless)
        full == Cat(heads, Carried(counted, content))
        zeros == {[k \in 1..n |-> 0] : n \in 0..(Limit - Len(content))}
    IN full \cup Cat(Cat(full, CellsOf(Sections[counted])), zeros)
       \cup IF content = <<>> THEN heads \cup Cat(Preambles[counted], Number(code)) ELSE {}
WholeAnswers ==
    [a \in {<<head, code, content>> : head \in BOOLEAN, code \in Final, content \in Contents} |->
        UNION {WholeMessages(counted, a[1], a[2], a[3]) : counted \in BOOLEAN}]

-----------------------------------------------------------------------------
(* Properties. *)

\* The content ends without an error only when the answer is a whole message
\* of which every cell authenticated, and it is that message's content:
\* wherever a chunk or the connection is cut, the reader ends with an error,
\* never as if the content were complete (integer, exact, drain_padding).
CleanEndIsWhole ==
    reader = "done" =>
        \E content \in Contents :
            /\ history \in WholeAnswers[<<asked.head, status, content>>]
            /\ delivered = IF NoBody THEN <<>> ELSE content
=============================================================================
