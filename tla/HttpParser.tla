----------------------------- MODULE HttpParser -----------------------------
(***************************************************************************)
(* parse_http_request (src/src/http_parser.c) over a buffer of tokens.  A  *)
(* token is a request line, a header line, the blank line that ends the    *)
(* head, or a piece of body; it occupies one unit of buffer.  The code     *)
(* finds headers with strstr over the whole buffer, so a token is found    *)
(* wherever it stands, in the body or in a following request too.          *)
(***************************************************************************)
EXTENDS Integers, SequencesExt

\* The number strtol finds may be negative.
Token == [kind : STRING, value : Int]

Line(k)      == [kind |-> k, value |-> 0]
Header(k, v) == [kind |-> k, value |-> v]

\* The spellings the code looks for, in the order in which it tries them.
LengthNames     == <<"Content-Length", "content-length", "CONTENT-LENGTH">>
ConnectionNames == <<"Connection", "connection", "CONNECTION">>

\* Values of the Connection header.
CLOSE == 1
KEEP  == 2
UPGRADE == 3

\* A chain of strstr calls: the position of the first occurrence of the first
\* name that occurs at all, or 0.
Strstr(buffer, name) == SelectInSeq(buffer, LAMBDA t : t.kind = name)

\* Mutant: the last spelling that occurs counts.
FindHeaderLast(buffer, names) ==
    LET found == {k \in 1 .. Len(names) : Strstr(buffer, names[k]) # 0}
    IN  IF found = {} THEN 0 ELSE Strstr(buffer, names[Max(found)])

FindHeader(buffer, names) ==
    LET found == {k \in 1 .. Len(names) : Strstr(buffer, names[k]) # 0}
    IN  IF found = {} THEN 0 ELSE Strstr(buffer, names[Min(found)])

ContentLength(buffer) ==
    LET i == FindHeader(buffer, LengthNames) IN IF i = 0 THEN 0 ELSE buffer[i].value

\* Mutant: a connection persists only on request.
KeepAliveStrict(buffer) ==
    LET i == FindHeader(buffer, ConnectionNames) IN i # 0 /\ buffer[i].value = KEEP

KeepAlive(buffer) ==
    LET i == FindHeader(buffer, ConnectionNames) IN i = 0 \/ buffer[i].value # CLOSE

\* The position after the blank line, 0 for the null pointer.
BodyStart(buffer) ==
    LET i == Strstr(buffer, "end") IN IF i = 0 THEN 0 ELSE i + 1

Malformed == [ok |-> FALSE, method |-> "UNKNOWN", content_length |-> 0,
              keep_alive |-> TRUE, body_start |-> 0]

Parse(buffer) ==
    IF buffer # <<>> /\ buffer[1].kind \in {"GET", "POST"}
    THEN [ok |-> TRUE, method |-> buffer[1].kind,
          content_length |-> ContentLength(buffer), keep_alive |-> KeepAlive(buffer),
          body_start |-> BodyStart(buffer)]
    ELSE Malformed

-----------------------------------------------------------------------------
(* What a request means, independently of how the code searches for it: the*)
(* head is what stands before the first blank line, and a header counts    *)
(* there, in any of its spellings.                                         *)

IsLength(t)     == t.kind \in {"Content-Length", "content-length", "CONTENT-LENGTH"}
IsConnection(t) == t.kind \in {"Connection", "connection", "CONNECTION"}

HeadLines(buffer) == SubSeq(buffer, 1, Strstr(buffer, "end") - 1)

HeadComplete(buffer) ==
    buffer # <<>> /\ buffer[1].kind \in {"GET", "POST"} /\ Strstr(buffer, "end") # 0

\* The head has the header in the spelling that is tried first.
Canonical(buffer, names) == Strstr(HeadLines(buffer), names[1]) # 0

Meaning(buffer) ==
    LET head   == HeadLines(buffer)
        length == SelectInSeq(head, IsLength)
        conn   == SelectInSeq(head, IsConnection)
    IN  [ok |-> TRUE, method |-> buffer[1].kind,
         content_length |-> IF length = 0 THEN 0 ELSE head[length].value,
         keep_alive |-> conn = 0 \/ head[conn].value # CLOSE,
         body_start |-> Len(head) + 2]

\* A buffer a well-behaved client fills: a complete head in which each header
\* occurs once, in a spelling the code knows, and a body that holds no line
\* that looks like one of them.
Once(buffer, names) ==
    \A i, j \in 1 .. Len(buffer) : buffer[i].kind \in names /\ buffer[j].kind \in names => i = j

WellFormed(buffer) ==
    /\ HeadComplete(buffer)
    /\ Once(buffer, Range(LengthNames)) /\ Once(buffer, Range(ConnectionNames))
    /\ \A i \in Strstr(buffer, "end") + 1 .. Len(buffer) : buffer[i].kind = "b"

=============================================================================
