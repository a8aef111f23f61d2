-------------------------- MODULE ConnectionProofs --------------------------
(***************************************************************************)
(* Theorems about module Connection, for any set of requests, any buffer,  *)
(* any number of requests and connections and any client.                  *)
(***************************************************************************)
EXTENDS Connection, HttpParserProofs, SequenceTheorems, FiniteSetTheorems

-----------------------------------------------------------------------------
(* The inductive invariant. *)

\* What lith_client_handler has to release at each of its positions.
HeldAt(l) ==
    CASE l = "idle" -> {}
      [] l \in {"peek", "drain", "ssl"} -> {"fd"}
      [] l \in {"accept", "malloc", "shutdown"} -> {"fd", "ssl"}
      [] OTHER -> {"fd", "ssl", "req"}

\* Before a request has been read, and after it has been answered.
Fresh == {"idle", "peek", "drain", "ssl", "accept", "malloc", "read"}

Shapes ==
    /\ wire \in Seq(Token) /\ outbox \in Seq(Token) /\ buffer \in Seq(Token)
    /\ answers \in Seq([status : {"moved", "posted", "file", "bad"}, close : BOOLEAN, bytes : Int])
    /\ req.keep_alive \in BOOLEAN /\ req.content_length \in Int
    /\ body <= Len(buffer)
    /\ pc \in Fresh => buffer = <<>>
    /\ pc \in {"body", "route"} => req.method \in {"GET", "POST"}
    /\ pc = "drain" => proto = "clear"

Bounds == pc # "idle" => served < MaxConnections

\* An answer that announces the end of the connection is the last.
Closing == Announced => pc \in {"drain", "free", "shutdown"}

ConnectionInv == TypeOK /\ Shapes /\ Bounds /\ held = HeldAt(pc) /\ Closing

\* The exchange with a client that waits for its answers: what has arrived and
\* is not yet answered is the last request, whole.
Pending == sent[Len(answers) + 1]

Exchanged ==
    /\ outbox = <<>>
    /\ Len(sent) \in {Len(answers), Len(answers) + 1}
    /\ \A i \in 1 .. Len(answers) : answers[i] = Expected(sent[i])
    /\ pc \in Fresh =>
          wire = IF Len(sent) = Len(answers) THEN <<>> ELSE Pending
    /\ pc \in {"body", "route", "bad"} => Len(sent) = Len(answers) + 1
    /\ pc \in {"body", "route"} => HeadComplete(Pending) /\ req = Meaning(Pending)
    /\ pc = "body" =>
          /\ Len(buffer) + Len(wire) = Len(Pending)
          /\ req.method = "POST" /\ req.content_length > 0
          /\ body + req.body_start = Len(buffer) + 1
    /\ pc = "route" => wire = <<>>
    /\ pc = "bad" => Expected(Pending) = Answer("bad", TRUE, 0)

Exchange == proto = "tls" /\ prompt => Exchanged

\* Lines that begin a request, among those that have not been read.
Starts(s) == {i \in 1 .. Len(s) : s[i].kind \in {"GET", "POST"}}
Count(s) == Cardinality(Starts(s))

Refused == answers # <<>> /\ Last(answers) = Answer("bad", TRUE, 0)

\* Every answer but a 400 is the answer to a line that begins a request.
InHand == IF pc \in {"body", "route"} THEN 1 ELSE 0

Surplus == IF Refused THEN 1 ELSE 0

Phases ==
    /\ wire # <<>> => Len(sent) > 0
    /\ outbox # <<>> => Len(sent) > 0
    /\ pc \in {"idle", "peek"} => answers = <<>>
    /\ pc = "drain" => Len(answers) = 1 /\ Len(sent) > 0
    /\ Refused => pc \in {"free", "shutdown"}

Balance ==
    pc # "drain" =>
        Len(answers) + Count(wire) + Count(outbox) + InHand <= Len(sent) + Surplus

Accounts == Phases /\ Balance

-----------------------------------------------------------------------------
(* Types, resources and the end of the connection. *)

\* What parse_http_request returns, on any buffer.
LEMMA ParseTypes ==
    ASSUME NEW b \in Seq(Token)
    PROVE  /\ Parse(b).ok \in BOOLEAN /\ Parse(b).keep_alive \in BOOLEAN
           /\ Parse(b).content_length \in Int
           /\ Parse(b).body_start \in {0} \cup 2 .. Len(b) + 1
           /\ Parse(b).ok => Parse(b).method \in {"GET", "POST"}
<1>1. Strstr(b, "end") \in 0 .. Len(b)
  BY StrstrFinds
<1>2. BodyStart(b) \in {0} \cup 2 .. Len(b) + 1
  BY <1>1 DEF BodyStart
<1>3. FindHeader(b, LengthNames) \in 0 .. Len(b)
  BY FindHeaderFinds, Spellings
<1>4. ContentLength(b) \in Int
  <2>1. \A t \in Token : t.value \in Int
    BY DEF Token
  <2>2. QED
    BY <1>3, <2>1 DEF ContentLength
<1>5. KeepAlive(b) \in BOOLEAN
  BY DEF KeepAlive
<1>6. CASE b # <<>> /\ b[1].kind \in {"GET", "POST"}
  BY <1>2, <1>4, <1>5, <1>6 DEF Parse
<1>7. CASE ~(b # <<>> /\ b[1].kind \in {"GET", "POST"})
  <2>1. Parse(b) = Malformed
    BY <1>7 DEF Parse
  <2>2. /\ Malformed.ok = FALSE /\ Malformed.keep_alive = TRUE
        /\ Malformed.content_length = 0 /\ Malformed.body_start = 0
    BY DEF Malformed
  <2>3. Parse(b).ok = FALSE /\ Parse(b).keep_alive = TRUE
    BY <2>1, <2>2, Zenon
  <2>4. Parse(b).content_length = 0 /\ Parse(b).body_start = 0
    BY <2>1, <2>2, Zenon
  <2>5. Parse(b).ok \in BOOLEAN /\ Parse(b).keep_alive \in BOOLEAN
    BY <2>3, Zenon
  <2>6. Parse(b).content_length \in Int /\ Parse(b).body_start \in {0} \cup 2 .. Len(b) + 1
    BY <2>4
  <2>7. QED
    BY <2>3, <2>5, <2>6, Zenon
<1>8. QED
  BY <1>6, <1>7

\* Initially.
LEMMA InitConnection == Init => ConnectionInv
<1> SUFFICES ASSUME Init PROVE ConnectionInv
  OBVIOUS
<1>1. TypeOK
  BY ConnectionAssumption DEF Init, TypeOK
<1>2. Shapes
  BY DEF Init, Shapes, Malformed, Fresh
<1>3. Bounds /\ held = HeldAt(pc) /\ Closing
  BY DEF Init, Bounds, HeldAt, Closing, Announced
<1>4. QED
  BY <1>1, <1>2, <1>3 DEF ConnectionInv

\* Steps of the client.
LEMMA ClientKeepsConnection ==
    ASSUME ConnectionInv, ClientStep \/ (\E p \in Protocols, m \in Manners : Accepted(p, m))
    PROVE  ConnectionInv'
<1> USE DEF ConnectionInv
<1>1. ASSUME NEW p \in Protocols, NEW m \in Manners, Accepted(p, m) PROVE ConnectionInv'
  <2>1. TypeOK'
    BY <1>1, ConnectionAssumption DEF TypeOK, Accepted, parseVars
  <2>2. Shapes'
    BY <1>1 DEF Shapes, Accepted, parseVars, Fresh
  <2>3. Bounds' /\ (held = HeldAt(pc))' /\ Closing'
    BY <1>1 DEF Bounds, HeldAt, Closing, Announced, Accepted
  <2>4. QED
    BY <2>1, <2>2, <2>3
<1>2. ASSUME NEW r \in Requests, ClientSend(r) PROVE ConnectionInv'
  <2>1. TypeOK'
    <3>1. sent' \in Seq(Requests) /\ Len(sent') <= MaxRequests
      <4>1. sent' = Append(sent, r) /\ sent \in Seq(Requests) /\ Len(sent) < MaxRequests
        BY <1>2 DEF TypeOK, ClientSend
      <4>2. QED
        BY <4>1, ConnectionAssumption
    <3>2. UNCHANGED <<client, proto, prompt, pc, held, buffer, body, alive, served>>
      BY <1>2 DEF ClientSend, parseVars
    <3>3. QED
      BY <3>1, <3>2 DEF TypeOK
  <2>2. r \in Seq(Token)
    BY ConnectionAssumption
  <2>3. Shapes'
    <3>1. wire' \in Seq(Token) /\ outbox' \in Seq(Token)
      <4>1. wire \in Seq(Token) /\ outbox \in Seq(Token)
        BY DEF Shapes
      <4>2. \/ wire' = wire \o r /\ outbox' = outbox
            \/ outbox' = outbox \o r /\ wire' = wire
        BY <1>2, Zenon DEF ClientSend
      <4>3. wire \o r \in Seq(Token) /\ outbox \o r \in Seq(Token)
        BY <2>2, <4>1
      <4>4. QED
        BY <4>1, <4>2, <4>3
    <3>2. UNCHANGED <<pc, proto, buffer, req, body, answers>>
      BY <1>2 DEF ClientSend, parseVars
    <3>3. QED
      BY <3>1, <3>2 DEF Shapes
  <2>4. Bounds' /\ (held = HeldAt(pc))' /\ Closing'
    BY <1>2 DEF Bounds, Closing, Announced, ClientSend
  <2>5. QED
    BY <2>1, <2>3, <2>4
<1>3. ASSUME ClientPart PROVE ConnectionInv'
  <2>1. TypeOK'
    BY <1>3 DEF TypeOK, ClientPart, parseVars
  <2>2. Shapes'
    BY <1>3 DEF Shapes, ClientPart, parseVars
  <2>3. Bounds' /\ (held = HeldAt(pc))' /\ Closing'
    BY <1>3 DEF Bounds, Closing, Announced, ClientPart
  <2>4. QED
    BY <2>1, <2>2, <2>3
<1>4. ASSUME ClientClose PROVE ConnectionInv'
  <2>1. TypeOK'
    BY <1>4 DEF TypeOK, ClientClose, parseVars
  <2>2. Shapes'
    BY <1>4 DEF Shapes, ClientClose, parseVars
  <2>3. Bounds' /\ (held = HeldAt(pc))' /\ Closing'
    BY <1>4 DEF Bounds, Closing, Announced, ClientClose
  <2>4. QED
    BY <2>1, <2>2, <2>3
<1>5. QED
  BY <1>1, <1>2, <1>3, <1>4 DEF ClientStep

\* The ways back to thread_pool_pop: each releases what is held.
LEMMA CloseKeepsConnection ==
    ASSUME ConnectionInv, pc # "idle", alive' \in BOOLEAN,
           NEW released, Close(released), HeldAt(pc) \ released = {}
    PROVE  ConnectionInv'
<1> USE DEF ConnectionInv
<1>1. TypeOK'
  BY ConnectionAssumption DEF TypeOK, Close, Bounds
<1>2. Shapes'
  BY DEF Shapes, Close, Malformed, Fresh
<1>3. Bounds' /\ (held = HeldAt(pc))' /\ Closing'
  BY DEF Bounds, Close, Closing, Announced, HeldAt
<1>4. QED
  BY <1>1, <1>2, <1>3

\* The worker between thread_pool_pop and the first read of a request.
LEMMA SessionKeepsConnection ==
    ASSUME ConnectionInv,
           \/ PeekEmpty \/ PeekTls \/ PeekClear \/ Drain \/ DrainEnd
           \/ SslNew \/ SslNewFail \/ SslAccept \/ SslAcceptFail \/ AllocRequest \/ AllocFail
    PROVE  ConnectionInv'
<1> USE DEF ConnectionInv, Runs
<1>1. CASE PeekEmpty \/ DrainEnd \/ SslNewFail
  <2>1. Close({"fd"}) /\ alive' = alive /\ HeldAt(pc) \ {"fd"} = {} /\ pc # "idle"
    BY <1>1 DEF PeekEmpty, DrainEnd, SslNewFail, HeldAt
  <2>2. QED
    BY <2>1, CloseKeepsConnection DEF TypeOK
<1>2. CASE SslAcceptFail
  <2>1. Close({"ssl", "fd"}) /\ alive' = alive /\ HeldAt(pc) \ {"ssl", "fd"} = {} /\ pc # "idle"
    BY <1>2 DEF SslAcceptFail, HeldAt
  <2>2. QED
    BY <2>1, CloseKeepsConnection DEF TypeOK
<1>3. CASE PeekTls \/ Drain \/ SslNew \/ SslAccept \/ AllocRequest \/ AllocFail
  <2> USE DEF PeekTls, Drain, SslNew, SslAccept, AllocRequest, AllocFail
  <2>1. TypeOK'
    BY <1>3 DEF TypeOK, clientVars, parseVars
  <2>2. Shapes'
    BY <1>3 DEF Shapes, clientVars, parseVars, Fresh
  <2>3. (held = HeldAt(pc))'
    BY <1>3 DEF HeldAt
  <2>4. Bounds' /\ Closing'
    BY <1>3 DEF Bounds, Closing, Announced
  <2>5. QED
    BY <2>1, <2>2, <2>3, <2>4
<1>4. CASE PeekClear
  <2>1. TypeOK'
    BY <1>4 DEF PeekClear, TypeOK, clientVars, parseVars, Write
  <2>2. Shapes'
    BY <1>4 DEF PeekClear, Shapes, clientVars, parseVars, Fresh, Answer
  <2>3. Bounds' /\ (held = HeldAt(pc))' /\ Closing'
    BY <1>4 DEF PeekClear, Bounds, Closing, HeldAt
  <2>4. QED
    BY <2>1, <2>2, <2>3
<1>5. QED
  BY <1>1, <1>2, <1>3, <1>4

\* The keep-alive loop reads.
LEMMA ReadKeepsConnection ==
    ASSUME ConnectionInv, NEW k \in 1 .. Len(wire), ReadRequest(k) \/ ReadBody(k)
    PROVE  ConnectionInv'
<1> USE DEF ConnectionInv, Runs
<1>1. /\ wire \in Seq(Token) /\ buffer \in Seq(Token)
      /\ SubSeq(wire, 1, k) \in Seq(Token) /\ Len(SubSeq(wire, 1, k)) = k
      /\ SubSeq(wire, k + 1, Len(wire)) \in Seq(Token)
  BY DEF Shapes
<1>2. CASE ReadRequest(k)
  <2> DEFINE r == Parse(SubSeq(wire, 1, k))
  <2>1. /\ r.ok \in BOOLEAN /\ r.keep_alive \in BOOLEAN /\ r.content_length \in Int
        /\ r.body_start \in {0} \cup 2 .. k + 1
        /\ r.ok => r.method \in {"GET", "POST"}
    BY <1>1, ParseTypes
  <2>2. /\ pc = "read" /\ k <= BufferSize - Len(buffer)
        /\ buffer' = SubSeq(wire, 1, k) /\ req' = r
        /\ body' = IF r.body_start = 0 THEN 0 ELSE k - r.body_start + 1
        /\ wire' = SubSeq(wire, k + 1, Len(wire))
        /\ pc' \in {"bad", "body", "route"}
        /\ pc' \in {"body", "route"} => r.ok
        /\ UNCHANGED <<client, proto, prompt, sent, outbox, held, answers, alive, served>>
    BY <1>2, <2>1 DEF ReadRequest, Chunk
  <2> HIDE DEF r
  <2>3. TypeOK'
    <3>1. k \in Nat /\ k <= BufferSize /\ Len(buffer') = k /\ body' \in 0 .. k
      <4>1. k \in Nat /\ k >= 1 /\ Len(buffer) \in Nat /\ BufferSize \in Nat
        BY <1>1, ConnectionAssumption
      <4>2. Len(buffer') = k
        BY <1>1, <2>2
      <4>3. r.body_start \in Nat /\ (r.body_start = 0 \/ r.body_start \in 2 .. k + 1)
        BY <2>1, <4>1
      <4>4. body' \in 0 .. k
        BY <2>2, <4>1, <4>3
      <4>5. k <= BufferSize
        BY <2>2, <4>1
      <4>6. QED
        BY <4>1, <4>2, <4>4, <4>5
    <3>2. body' \in 0 .. BufferSize
      BY <3>1, ConnectionAssumption
    <3>3. pc' \in {"bad", "body", "route"}
      BY <2>2
    <3>4. QED
      BY <2>2, <3>1, <3>2, <3>3 DEF TypeOK
  <2>4. Shapes'
    <3>1. /\ outbox' \in Seq(Token)
          /\ answers' \in Seq([status : {"moved", "posted", "file", "bad"}, close : BOOLEAN, bytes : Int])
      BY <2>2 DEF Shapes
    <3>2. wire' \in Seq(Token) /\ buffer' \in Seq(Token) /\ Len(buffer') = k
      BY <1>1, <2>2
    <3>3. body' <= Len(buffer')
      BY <2>1, <2>2, <3>2
    <3>4. /\ req'.keep_alive \in BOOLEAN /\ req'.content_length \in Int
          /\ pc' \in {"body", "route"} => req'.method \in {"GET", "POST"}
      BY <2>1, <2>2
    <3>5. pc' \notin Fresh /\ pc' # "drain"
      BY <2>2 DEF Fresh
    <3>6. QED
      BY <3>1, <3>2, <3>3, <3>4, <3>5 DEF Shapes
  <2>5. Bounds' /\ (held = HeldAt(pc))' /\ Closing'
    BY <2>2 DEF Bounds, Closing, HeldAt, Announced
  <2>6. QED
    BY <2>3, <2>4, <2>5
<1>3. CASE ReadBody(k)
  <2>1. /\ pc = "body" /\ k <= BufferSize - Len(buffer)
        /\ buffer' = buffer \o SubSeq(wire, 1, k) /\ body' = body + k
        /\ wire' = SubSeq(wire, k + 1, Len(wire))
        /\ UNCHANGED <<client, proto, prompt, sent, outbox, pc, held, req, answers, alive, served>>
    BY <1>3 DEF ReadBody, Chunk
  <2>2. buffer' \in Seq(Token) /\ Len(buffer') = Len(buffer) + k
    BY <1>1, <2>1
  <2>3. TypeOK'
    BY <1>1, <2>1, <2>2, ConnectionAssumption DEF TypeOK, Shapes
  <2>4. Shapes'
    BY <1>1, <2>1, <2>2 DEF TypeOK, Shapes, Fresh
  <2>5. Bounds' /\ (held = HeldAt(pc))' /\ Closing'
    BY <2>1 DEF Bounds, Closing, Announced
  <2>6. QED
    BY <2>3, <2>4, <2>5
<1>4. QED
  BY <1>2, <1>3

\* The keep-alive loop answers, and ends.
LEMMA AnswerKeepsConnection ==
    ASSUME ConnectionInv, ReadEnd \/ BodyEnd \/ Route \/ BadRequest \/ FreeRequest \/ Hangup
    PROVE  ConnectionInv'
<1> USE DEF ConnectionInv, Runs
<1>1. CASE ReadEnd \/ BodyEnd \/ FreeRequest
  <2> USE DEF ReadEnd, BodyEnd, FreeRequest
  <2>1. TypeOK'
    BY <1>1 DEF TypeOK, clientVars, parseVars
  <2>2. Shapes'
    BY <1>1 DEF Shapes, clientVars, parseVars, Fresh
  <2>3. (held = HeldAt(pc))'
    BY <1>1 DEF HeldAt
  <2>4. Bounds' /\ Closing'
    BY <1>1 DEF Bounds, Closing, Announced
  <2>5. QED
    BY <2>1, <2>2, <2>3, <2>4
<1>2. CASE Route
  <2>1. /\ pc = "route" /\ alive' \in BOOLEAN /\ pc' = IF req.keep_alive THEN "read" ELSE "free"
        /\ buffer' = <<>> /\ body' = 0 /\ req' = Malformed
        /\ UNCHANGED <<client, proto, prompt, sent, outbox, wire, held, served>>
    BY <1>2 DEF Route, Write, clientVars
  <2>2. PICK s \in {"posted", "file"}, n \in Int :
           answers' = Append(answers, [status |-> s, close |-> ~req.keep_alive, bytes |-> n])
    BY <1>2 DEF Route, Answer, Shapes
  <2>3. TypeOK'
    BY <2>1, ConnectionAssumption DEF TypeOK
  <2>4. Shapes'
    BY <2>1, <2>2 DEF Shapes, Malformed, Fresh
  <2>5. Closing'
    <3>1. Last(answers').close = ~req.keep_alive
      BY <2>2 DEF Last, Shapes
    <3>2. QED
      BY <2>1, <3>1 DEF Closing, Announced, Shapes
  <2>6. Bounds' /\ (held = HeldAt(pc))'
    BY <2>1 DEF Bounds, HeldAt
  <2>7. QED
    BY <2>3, <2>4, <2>5, <2>6
<1>3. CASE BadRequest
  <2>1. TypeOK'
    BY <1>3 DEF BadRequest, TypeOK, clientVars, parseVars, Write
  <2>2. Shapes'
    BY <1>3 DEF BadRequest, Shapes, clientVars, parseVars, Fresh, Answer
  <2>3. Bounds' /\ (held = HeldAt(pc))' /\ Closing'
    BY <1>3 DEF BadRequest, Bounds, Closing, HeldAt
  <2>4. QED
    BY <2>1, <2>2, <2>3
<1>4. CASE Hangup
  <2>1. /\ Close({"ssl", "fd"}) /\ alive' \in BOOLEAN /\ pc # "idle"
        /\ HeldAt(pc) \ {"ssl", "fd"} = {}
    BY <1>4 DEF Hangup, Write, HeldAt
  <2>2. QED
    BY <2>1, CloseKeepsConnection
<1>5. QED
  BY <1>1, <1>2, <1>3, <1>4

\* The types, the resources by position, the bound on connections and the
\* finality of an announced end are an inductive invariant.
THEOREM ConnectionInvariant == Spec => []ConnectionInv
<1>1. ConnectionInv /\ [Next]_vars => ConnectionInv'
  <2> SUFFICES ASSUME ConnectionInv, [Next]_vars PROVE ConnectionInv'
    OBVIOUS
  <2>1. CASE WorkerStep
    BY <2>1, SessionKeepsConnection, ReadKeepsConnection, AnswerKeepsConnection DEF WorkerStep
  <2>2. CASE ClientStep \/ (\E p \in Protocols, m \in Manners : Accepted(p, m))
    BY <2>2, ClientKeepsConnection
  <2>3. CASE Rest \/ UNCHANGED vars
    BY <2>3 DEF Rest, vars, clientVars, parseVars, ConnectionInv, TypeOK, Shapes, Bounds,
                HeldAt, Closing, Announced
  <2>4. QED
    BY <2>1, <2>2, <2>3 DEF Next
<1>2. QED
  BY InitConnection, <1>1, PTL DEF Spec

\* Types of the locals of lith_client_handler: in particular SSL_read never
\* writes past the buffer, whatever the client sends and in whatever pieces.
THEOREM ConnectionTypeCorrect == Spec => []TypeOK
  BY ConnectionInvariant, PTL DEF ConnectionInv

\* A worker that is back at thread_pool_pop holds nothing of its last client.
THEOREM NothingIsKept == Spec => []NothingKept
<1>1. ConnectionInv => NothingKept
  BY DEF ConnectionInv, NothingKept, HeldAt
<1>2. QED
  BY <1>1, ConnectionInvariant, PTL

\* The server hangs up only on a client that is silent or has been told, and
\* once it has told it sends no further answer.
THEOREM ConnectionsEndForCause == Spec => EndsForCause
<1> DEFINE A == /\ pc = "read" /\ pc' = "free" => Silent
                /\ pc = "route" /\ pc' = "free" => Announced'
                /\ Len(answers') > Len(answers) => ~Announced
<1>1. ConnectionInv /\ [Next]_vars => [A]_vars
  <2> SUFFICES ASSUME ConnectionInv, Next PROVE A
    OBVIOUS
  <2> USE DEF ConnectionInv, Runs
  <2>1. ASSUME pc = "read", pc' = "free" PROVE Silent
    <3>1. ReadEnd
      BY <2>1 DEF Next, WorkerStep, ClientStep, PeekEmpty, PeekTls, PeekClear, Drain, DrainEnd,
           SslNew, SslNewFail, SslAccept, SslAcceptFail, AllocRequest, AllocFail, ReadRequest,
           ReadBody, BodyEnd, Route, BadRequest, FreeRequest, Hangup, Rest, ClientSend,
           ClientPart, ClientClose, Accepted, vars
    <3>2. QED
      BY <3>1 DEF ReadEnd
  <2>2. ASSUME pc = "route", pc' = "free" PROVE Announced'
    <3>1. Route
      BY <2>2 DEF Next, WorkerStep, ClientStep, PeekEmpty, PeekTls, PeekClear, Drain, DrainEnd,
           SslNew, SslNewFail, SslAccept, SslAcceptFail, AllocRequest, AllocFail, ReadRequest,
           ReadBody, ReadEnd, BodyEnd, BadRequest, FreeRequest, Hangup, Rest, ClientSend,
           ClientPart, ClientClose, Accepted, vars
    <3>2. PICK s, n :
             answers' = Append(answers, [status |-> s, close |-> ~req.keep_alive, bytes |-> n])
      BY <3>1 DEF Route, Answer
    <3>3. Len(answers') = Len(answers) + 1 /\ Last(answers').close = ~req.keep_alive
      BY <3>2 DEF Last, Shapes
    <3>4. ~req.keep_alive
      BY <3>1, <2>2 DEF Route
    <3>5. answers' # <<>>
      BY <3>2 DEF Shapes
    <3>6. QED
      BY <3>3, <3>4, <3>5 DEF Announced
  <2>3. ASSUME Len(answers') > Len(answers) PROVE ~Announced
    <3>1. answers \in Seq([status : {"moved", "posted", "file", "bad"}, close : BOOLEAN,
                           bytes : Int])
      BY DEF Shapes
    <3>2. \/ pc \in {"peek", "route", "bad"}
          \/ answers' = answers
          \/ answers' = <<>>
      BY Zenon DEF Next, WorkerStep, ClientStep, PeekEmpty, PeekTls, PeekClear, Drain, DrainEnd,
           SslNew, SslNewFail, SslAccept, SslAcceptFail, AllocRequest, AllocFail, ReadRequest,
           ReadBody, ReadEnd, BodyEnd, Route, BadRequest, FreeRequest, Hangup, Rest, ClientSend,
           ClientPart, ClientClose, Accepted, vars, Close
    <3>3. pc \in {"peek", "route", "bad"}
      BY <2>3, <3>1, <3>2
    <3>4. QED
      BY <3>3 DEF Closing
  <2>4. QED
    BY <2>1, <2>2, <2>3
<1>2. QED
  BY <1>1, ConnectionInvariant, PTL DEF Spec, EndsForCause

-----------------------------------------------------------------------------
(* Requests and answers, for a client that waits for its answers and sends *)
(* orderly requests.                                                       *)

OrderlyRequests == \A r \in Requests : Orderly(r)

\* What one SSL_read of an orderly request makes parse_http_request say,
\* wherever the read stops after the head.
LEMMA OrderlyRead ==
    ASSUME NEW r \in Seq(Token), Orderly(r), NEW k \in 1 .. Len(r),
           k = Len(r) \/ BodyStart(SubSeq(r, 1, k)) # 0
    PROVE  LET P == Parse(SubSeq(r, 1, k))
           IN  \/ /\ HeadComplete(r) /\ P = Meaning(r) /\ P.ok
                  /\ P.body_start \in 2 .. k + 1
                  /\ ~(P.method = "POST" /\ P.content_length > 0) => k = Len(r)
               \/ ~P.ok /\ Expected(r) = Answer("bad", TRUE, 0)
<1> DEFINE b == SubSeq(r, 1, k)
           P == Parse(b)
           e == Strstr(r, "end")
<1>1. b \in Seq(Token) /\ Len(b) = k /\ \A i \in 1 .. k : b[i] = r[i]
  OBVIOUS
<1>2. b # <<>> /\ r # <<>> /\ b[1] = r[1]
  BY <1>1
<1> HIDE DEF b
<1>3. CASE r[1].kind \in {"GET", "POST"}
  <2>1. WellFormed(r) /\ HeadComplete(r)
    BY <1>3 DEF Orderly, WellFormed
  <2>2. /\ e \in 2 .. Len(r) /\ r[e].kind = "end" /\ Len(HeadLines(r)) = e - 1
        /\ \A i \in 1 .. e - 1 : r[i].kind # "end"
    BY <2>1, HeadIsPrefix
  <2> HIDE DEF e
  <2>3. k \in e .. Len(r)
    <3>1. CASE k = Len(r)
      BY <2>2, <3>1
    <3>2. CASE BodyStart(b) # 0
      <4>1. Strstr(b, "end") \in 1 .. k /\ b[Strstr(b, "end")].kind = "end"
        BY <1>1, <3>2, StrstrFinds DEF BodyStart
      <4>2. r[Strstr(b, "end")].kind = "end"
        BY <4>1, <1>1
      <4>3. QED
        BY <4>1, <4>2, <2>2
    <3>3. QED
      BY <3>1, <3>2 DEF b
  <2>4. P = Meaning(r)
    <3>1. WellFormed(b) /\ Meaning(b) = Meaning(r)
      BY <2>1, <2>3, PrefixMeansTheSame DEF b, e
    <3>2. QED
      BY <1>1, <3>1, ParserFindsMeaning
  <2>5. P.ok /\ P.body_start = e + 1
    BY <2>2, <2>4 DEF Meaning
  <2>6. P.content_length \in Int
    BY <1>1, ParseTypes
  <2>7. Len(r) + 1 = P.body_start + IF P.method = "POST" /\ P.content_length > 0
                                       THEN P.content_length ELSE 0
    BY <1>3, <2>4 DEF Orderly
  <2> HIDE DEF P
  <2>8. ~(P.method = "POST" /\ P.content_length > 0) => k = Len(r)
    BY <2>2, <2>3, <2>5, <2>6, <2>7
  <2>9. P.body_start \in 2 .. k + 1
    BY <2>2, <2>3, <2>5
  <2>10. QED
    BY <2>1, <2>4, <2>5, <2>8, <2>9 DEF P, b
<1>4. CASE r[1].kind \notin {"GET", "POST"}
  <2>1. ~P.ok
    BY <1>2, <1>4 DEF Parse, Malformed
  <2>2. ~HeadComplete(r)
    BY <1>4 DEF HeadComplete
  <2>3. QED
    BY <2>1, <2>2 DEF Expected, b
<1>5. QED
  BY <1>3, <1>4

\* What is read and what is left make up what was there.
LEMMA SplitSeq ==
    ASSUME NEW T, NEW s \in Seq(T), NEW k \in 1 .. Len(s)
    PROVE  /\ SubSeq(s, 1, k) \in Seq(T) /\ Len(SubSeq(s, 1, k)) = k
           /\ SubSeq(s, k + 1, Len(s)) \in Seq(T)
           /\ Len(SubSeq(s, k + 1, Len(s))) = Len(s) - k
           /\ SubSeq(s, 1, k) \o SubSeq(s, k + 1, Len(s)) = s
           /\ SubSeq(s, 1, k)[1] = s[1]
<1>1. SubSeq(s, 1, k) \in Seq(T) /\ Len(SubSeq(s, 1, k)) = k /\ SubSeq(s, 1, k)[1] = s[1]
  OBVIOUS
<1>2. SubSeq(s, k + 1, Len(s)) \in Seq(T) /\ Len(SubSeq(s, k + 1, Len(s))) = Len(s) - k
  OBVIOUS
<1>3. SubSeq(s, 1, k) \o SubSeq(s, k + 1, Len(s)) = s
  BY ConcatAdjacentSubSeq, SubSeqFull
<1>4. QED
  BY <1>1, <1>2, <1>3

\* A new connection, and the end of one.
LEMMA NewExchange ==
    ASSUME sent' = <<>>, outbox' = <<>>, wire' = <<>>, answers' = <<>>, pc' \in {"idle", "peek"}
    PROVE  Exchanged'
<1>1. Len(sent') = 0 /\ Len(answers') = 0
  OBVIOUS
<1>2. 1 .. Len(answers') = {}
  BY <1>1
<1>3. QED
  BY <1>1, <1>2 DEF Exchanged, Fresh

\* A step that touches neither requests nor answers nor what has arrived.
LEMMA IdleExchange ==
    ASSUME Exchanged, UNCHANGED <<sent, outbox, wire, answers>>,
           pc \in Fresh, pc' \in Fresh \cup {"free", "shutdown"}
    PROVE  Exchanged'
  BY DEF Exchanged, Fresh, Pending

\* The next request is sent when the last has been answered.
LEMMA SendExchange ==
    ASSUME ConnectionInv, Exchanged, prompt, NEW r \in Requests, ClientSend(r)
    PROVE  Exchanged'
<1>1. /\ sent \in Seq(Requests) /\ r \in Seq(Token) /\ Len(sent) \in Nat
  BY ConnectionAssumption DEF ConnectionInv, TypeOK
<1>2. /\ Len(answers) = Len(sent) /\ sent' = Append(sent, r)
      /\ wire' = wire \o r /\ UNCHANGED <<outbox, answers, pc, buffer, req, body>>
  BY DEF ClientSend, parseVars
<1>3. /\ Len(sent') = Len(sent) + 1 /\ sent'[Len(sent) + 1] = r
      /\ \A i \in 1 .. Len(sent) : sent'[i] = sent[i]
  BY <1>1, <1>2
<1>4. pc \notin {"body", "route", "bad"}
  BY <1>1, <1>2 DEF Exchanged
<1>5. pc \in Fresh => wire' = r
  <2>1. pc \in Fresh => wire = <<>>
    BY <1>2 DEF Exchanged
  <2>2. QED
    BY <1>1, <1>2, <2>1, ConcatEmptySeq
<1>6. \A i \in 1 .. Len(answers') : answers'[i] = Expected(sent'[i])
  BY <1>2, <1>3 DEF Exchanged
<1>7. Pending' = r
  BY <1>2, <1>3 DEF Pending
<1>8. /\ Len(sent') = Len(answers') + 1 /\ pc' \notin {"body", "route", "bad"}
      /\ outbox' = <<>>
      /\ pc' \in Fresh => wire' = r
  BY <1>1, <1>2, <1>3, <1>4, <1>5 DEF Exchanged
<1>9. Len(sent') # Len(answers')
  BY <1>1, <1>2, <1>3
<1>10. QED
  BY <1>6, <1>7, <1>8, <1>9 DEF Exchanged

\* An answer that fits the request it is given to.
LEMMA AnswerFits ==
    ASSUME ConnectionInv, Exchanged, Len(sent) = Len(answers) + 1,
           answers' = Append(answers, Expected(Pending)), sent' = sent
    PROVE  /\ Len(answers') = Len(sent')
           /\ \A i \in 1 .. Len(answers') : answers'[i] = Expected(sent'[i])
<1>1. Len(answers) \in Nat
  BY DEF ConnectionInv, Shapes
<1>2. /\ Len(answers') = Len(answers) + 1 /\ answers'[Len(answers) + 1] = Expected(Pending)
      /\ \A i \in 1 .. Len(answers) : answers'[i] = answers[i]
  BY DEF ConnectionInv, Shapes
<1>3. ASSUME NEW i \in 1 .. Len(answers') PROVE answers'[i] = Expected(sent'[i])
  <2>1. CASE i = Len(answers) + 1
    BY <1>2, <2>1 DEF Pending
  <2>2. CASE i \in 1 .. Len(answers)
    BY <1>2, <2>2 DEF Exchanged
  <2>3. QED
    BY <1>1, <1>2, <2>1, <2>2
<1>4. QED
  BY <1>2, <1>3

\* The first read of a request: its head, and as much of its body as came.
LEMMA ReadExchange ==
    ASSUME ConnectionInv, Exchanged, prompt, OrderlyRequests,
           NEW k \in 1 .. Len(wire), ReadRequest(k)
    PROVE  Exchanged'
<1> DEFINE r == Pending
           P == Parse(SubSeq(r, 1, k))
<1>1. pc = "read" /\ buffer = <<>> /\ wire # <<>> /\ pc \in Fresh
  BY DEF ConnectionInv, ReadRequest, Runs, Silent, Shapes, Fresh
<1>2. Len(sent) = Len(answers) + 1 /\ wire = r
  BY <1>1 DEF Exchanged
<1>3. Len(answers) \in Nat /\ sent \in Seq(Requests)
  BY DEF ConnectionInv, TypeOK, Shapes
<1>4. r \in Seq(Token) /\ Orderly(r)
  <2>1. r \in Requests
    BY <1>2, <1>3 DEF Pending
  <2>2. QED
    BY <2>1, ConnectionAssumption DEF OrderlyRequests
<1> HIDE DEF r
<1>5. k = Len(r) \/ BodyStart(SubSeq(r, 1, k)) # 0
  <2>1. buffer \o SubSeq(wire, 1, k) = SubSeq(r, 1, k)
    <3>1. SubSeq(r, 1, k) \in Seq(Token)
      BY <1>2, <1>4
    <3>2. QED
      BY <1>1, <1>2, <3>1, ConcatEmptySeq
  <2>2. QED
    BY <1>2, <2>1 DEF ReadRequest, Chunk
<1>6. \/ /\ HeadComplete(r) /\ P = Meaning(r) /\ P.ok
         /\ P.body_start \in 2 .. k + 1
         /\ ~(P.method = "POST" /\ P.content_length > 0) => k = Len(r)
      \/ ~P.ok /\ Expected(r) = Answer("bad", TRUE, 0)
  BY <1>2, <1>4, <1>5, OrderlyRead
<1>7. /\ buffer' = SubSeq(r, 1, k) /\ req' = P
      /\ body' = IF P.body_start = 0 THEN 0 ELSE k - P.body_start + 1
      /\ wire' = SubSeq(r, k + 1, Len(r))
      /\ pc' = CASE ~P.ok -> "bad"
                 [] P.ok /\ P.method = "POST" /\ P.content_length > 0 -> "body"
                 [] OTHER -> "route"
      /\ UNCHANGED <<sent, outbox, answers>>
  BY <1>2 DEF ReadRequest
<1>8. Pending' = r
  BY <1>7 DEF Pending, r
<1> HIDE DEF P
<1>9. CASE P.ok
  <2>1. /\ HeadComplete(r) /\ P = Meaning(r) /\ P.body_start \in 2 .. k + 1
        /\ ~(P.method = "POST" /\ P.content_length > 0) => k = Len(r)
    BY <1>6, <1>9
  <2>2. CASE P.method = "POST" /\ P.content_length > 0
    <3>1. pc' = "body"
      BY <1>7, <1>9, <2>2
    <3>2. Len(buffer') + Len(wire') = Len(r)
      <4>1. Len(buffer') = k /\ Len(wire') = Len(r) - k
        BY <1>2, <1>4, <1>7, SplitSeq
      <4>2. QED
        BY <1>4, <4>1
    <3>3. body' + req'.body_start = Len(buffer') + 1
      <4>1. Len(buffer') = k
        BY <1>2, <1>4, <1>7
      <4>2. QED
        BY <1>7, <2>1, <4>1
    <3>4. QED
      BY <1>2, <1>7, <1>8, <2>1, <2>2, <3>1, <3>2, <3>3 DEF Exchanged, Fresh
  <2>3. CASE ~(P.method = "POST" /\ P.content_length > 0)
    <3>1. pc' = "route"
      BY <1>7, <1>9, <2>3
    <3>2. wire' = <<>>
      BY <1>4, <1>7, <2>1, <2>3, SubSeqEmpty
    <3>3. QED
      BY <1>2, <1>7, <1>8, <2>1, <3>1, <3>2 DEF Exchanged, Fresh
  <2>4. QED
    BY <2>2, <2>3
<1>10. CASE ~P.ok
  <2>1. pc' = "bad" /\ Expected(r) = Answer("bad", TRUE, 0)
    BY <1>6, <1>7, <1>10
  <2>2. QED
    BY <1>2, <1>7, <1>8, <2>1 DEF Exchanged, Fresh
<1>11. QED
  BY <1>9, <1>10

\* Further reads, of the body, and the end of the loop: it stops exactly when
\* the whole request has been read.
LEMMA BodyExchange ==
    ASSUME ConnectionInv, Exchanged, OrderlyRequests,
           BodyEnd \/ (\E k \in 1 .. Len(wire) : ReadBody(k))
    PROVE  Exchanged'
<1> DEFINE r == Pending
<1>1. /\ pc = "body" /\ Len(sent) = Len(answers) + 1
      /\ HeadComplete(r) /\ req = Meaning(r) /\ req.method = "POST" /\ req.content_length > 0
      /\ Len(buffer) + Len(wire) = Len(r)
      /\ body + req.body_start = Len(buffer) + 1
  BY DEF BodyEnd, ReadBody, Runs, Exchanged
<1>2. /\ Len(answers) \in Nat /\ sent \in Seq(Requests) /\ wire \in Seq(Token)
      /\ buffer \in Seq(Token)
  BY DEF ConnectionInv, TypeOK, Shapes
<1>3. r \in Seq(Token) /\ Orderly(r)
  <2>1. r \in Requests
    BY <1>1, <1>2 DEF Pending
  <2>2. QED
    BY <2>1, ConnectionAssumption DEF OrderlyRequests
<1> HIDE DEF r
<1>4. ASSUME NEW k \in 1 .. Len(wire), ReadBody(k) PROVE Exchanged'
  <2>1. /\ buffer' = buffer \o SubSeq(wire, 1, k) /\ body' = body + k
        /\ wire' = SubSeq(wire, k + 1, Len(wire))
        /\ UNCHANGED <<sent, outbox, pc, req, answers>>
    BY <1>4 DEF ReadBody
  <2>2. /\ SubSeq(wire, 1, k) \in Seq(Token) /\ Len(SubSeq(wire, 1, k)) = k
        /\ Len(SubSeq(wire, k + 1, Len(wire))) = Len(wire) - k
    BY <1>2, SplitSeq
  <2>3. Len(buffer') = Len(buffer) + k
    BY <1>2, <2>1, <2>2
  <2>4. Len(buffer') + Len(wire') = Len(r)
    <3>1. Len(wire') = Len(wire) - k
      BY <2>1, <2>2
    <3>2. Len(buffer) \in Nat /\ Len(wire) \in Nat /\ k \in Nat
      BY <1>2
    <3>3. Len(buffer) + Len(wire) = Len(r)
      BY <1>1
    <3>4. QED
      BY <2>3, <3>1, <3>2, <3>3
  <2>5. body' + req'.body_start = Len(buffer') + 1
    <3>1. Len(buffer) \in Nat /\ body \in Int /\ req.body_start = Len(HeadLines(r)) + 2
      BY <1>1, <1>2 DEF ConnectionInv, TypeOK, Meaning
    <3>2. Len(HeadLines(r)) \in Nat
      BY <1>1, <1>3, HeadIsPrefix
    <3>3. k \in Nat /\ body' = body + k /\ req' = req /\ Len(buffer') = Len(buffer) + k
      BY <1>2, <2>1, <2>3
    <3>4. req.body_start \in Nat /\ body + req.body_start = Len(buffer) + 1
      BY <1>1, <3>1, <3>2
    <3>5. QED
      BY <3>1, <3>3, <3>4
  <2>6. Pending' = r
    BY <2>1 DEF Pending, r
  <2>7. QED
    BY <1>1, <2>1, <2>4, <2>5, <2>6 DEF Exchanged, Fresh, r
<1>5. CASE BodyEnd
  <2>1. /\ WantsBody => wire = <<>>
        /\ pc' = "route" /\ UNCHANGED <<sent, outbox, wire, req, answers>>
    BY <1>5 DEF BodyEnd, Silent, clientVars, parseVars
  <2>2. /\ Len(r) <= BufferSize
        /\ Len(r) + 1 = req.body_start + req.content_length
    BY <1>1, <1>3 DEF Orderly, HeadComplete
  <2>3. Len(r) = Len(buffer) + Len(wire)
    BY <1>1
  <2>4. /\ Len(buffer) \in Nat /\ Len(wire) \in Nat /\ body \in Int /\ BufferSize \in Nat
        /\ req.content_length \in Int
    BY <1>2, ConnectionAssumption DEF ConnectionInv, TypeOK, Shapes
  <2>5. req.body_start \in Nat
    <3>1. req.body_start = Len(HeadLines(r)) + 2
      BY <1>1 DEF Meaning
    <3>2. Len(HeadLines(r)) \in Nat
      BY <1>1, <1>3, HeadIsPrefix
    <3>3. QED
      BY <3>1, <3>2
  <2>6. Len(wire) = 0
    <3>1. CASE WantsBody
      BY <2>1, <3>1
    <3>2. CASE ~WantsBody
      BY <1>1, <2>2, <2>3, <2>4, <2>5, <3>2 DEF WantsBody
    <3>3. QED
      BY <3>1, <3>2
  <2>7. wire = <<>>
    BY <1>2, <2>6, EmptySeq
  <2>8. Pending' = r
    BY <2>1 DEF Pending, r
  <2>9. QED
    BY <1>1, <2>1, <2>7, <2>8 DEF Exchanged, Fresh, r
<1>6. QED
  BY <1>4, <1>5

\* The answer to a request that has been read whole, and the 400.
LEMMA AnswerExchange ==
    ASSUME ConnectionInv, Exchanged, Route \/ BadRequest
    PROVE  Exchanged'
<1>1. Len(sent) = Len(answers) + 1 /\ UNCHANGED <<sent, outbox, wire>> /\ outbox = <<>>
  BY DEF Route, BadRequest, Runs, Exchanged, clientVars
<1>2. answers' = Append(answers, Expected(Pending))
  <2>1. CASE Route
    <3>1. HeadComplete(Pending) /\ req = Meaning(Pending)
      BY <2>1 DEF Route, Runs, Exchanged
    <3>2. QED
      BY <2>1, <3>1 DEF Route, Expected
  <2>2. CASE BadRequest
    BY <2>2 DEF BadRequest, Runs, Exchanged
  <2>3. QED
    BY <2>1, <2>2
<1>3. /\ Len(answers') = Len(sent')
      /\ \A i \in 1 .. Len(answers') : answers'[i] = Expected(sent'[i])
  BY <1>1, <1>2, AnswerFits
<1>4. \/ pc' = "free"
      \/ pc' = "read" /\ wire' = <<>>
  BY <1>1 DEF Route, BadRequest, Runs, Exchanged
<1>5. QED
  BY <1>1, <1>3, <1>4 DEF Exchanged, Fresh

\* The exchange is kept by every step.
LEMMA ExchangeStep ==
    ASSUME OrderlyRequests, ConnectionInv, Exchange, [Next]_vars
    PROVE  Exchange'
<1> SUFFICES ASSUME (proto = "tls" /\ prompt)' PROVE Exchanged'
  BY DEF Exchange
<1>1. ASSUME NEW p \in Protocols, NEW m \in Manners, Accepted(p, m) PROVE Exchanged'
  BY <1>1, NewExchange DEF Accepted
<1>2. CASE PeekEmpty \/ DrainEnd \/ SslNewFail \/ SslAcceptFail \/ Hangup
  BY <1>2, NewExchange DEF PeekEmpty, DrainEnd, SslNewFail, SslAcceptFail, Hangup, Close
<1>3. ASSUME UNCHANGED <<proto, prompt>> PROVE proto = "tls" /\ prompt /\ Exchanged
  BY <1>3 DEF Exchange
<1>4. CASE PeekTls \/ SslNew \/ SslAccept \/ AllocRequest \/ AllocFail \/ ReadEnd
  <2>1. /\ UNCHANGED <<proto, prompt, sent, outbox, wire, answers>>
        /\ pc \in Fresh /\ pc' \in Fresh \cup {"free", "shutdown"}
    BY <1>4 DEF PeekTls, SslNew, SslAccept, AllocRequest, AllocFail, ReadEnd, Runs, Fresh,
                clientVars
  <2>2. QED
    BY <1>3, <2>1, IdleExchange
<1>5. CASE PeekClear \/ Drain
  <2>1. UNCHANGED <<proto, prompt>> /\ proto = "clear"
    BY <1>5 DEF PeekClear, Drain, Runs, clientVars, ConnectionInv, Shapes
  <2>2. QED
    BY <1>3, <2>1
<1>6. ASSUME NEW k \in 1 .. Len(wire), ReadRequest(k) PROVE Exchanged'
  <2>1. UNCHANGED <<proto, prompt>>
    BY <1>6 DEF ReadRequest
  <2>2. QED
    BY <1>3, <1>6, <2>1, ReadExchange
<1>7. CASE BodyEnd \/ (\E k \in 1 .. Len(wire) : ReadBody(k))
  <2>1. UNCHANGED <<proto, prompt>>
    BY <1>7 DEF BodyEnd, ReadBody, clientVars
  <2>2. QED
    BY <1>3, <1>7, <2>1, BodyExchange
<1>8. CASE Route \/ BadRequest
  <2>1. UNCHANGED <<proto, prompt>>
    BY <1>8 DEF Route, BadRequest, clientVars
  <2>2. QED
    BY <1>3, <1>8, <2>1, AnswerExchange
<1>9. CASE FreeRequest \/ ClientClose \/ Rest \/ UNCHANGED vars
  <2>1. /\ UNCHANGED <<proto, prompt, sent, wire, answers, buffer, req, body>>
        /\ outbox' = outbox \/ outbox' = <<>>
        /\ pc' = pc \/ pc' = "shutdown"
    BY <1>9 DEF FreeRequest, ClientClose, Rest, vars, clientVars, parseVars
  <2>2. Exchanged
    BY <1>3, <2>1
  <2>3. UNCHANGED <<Pending>>
    BY <2>1 DEF Pending
  <2>4. QED
    BY <2>1, <2>2, <2>3 DEF Exchanged, Fresh
<1>10. ASSUME NEW r \in Requests, ClientSend(r) PROVE Exchanged'
  <2>1. UNCHANGED <<proto, prompt>>
    BY <1>10 DEF ClientSend
  <2>2. QED
    BY <1>3, <1>10, <2>1, SendExchange
<1>11. CASE ClientPart
  <2>1. UNCHANGED <<proto, prompt>> /\ outbox # <<>>
    BY <1>11 DEF ClientPart
  <2>2. QED
    BY <1>3, <2>1 DEF Exchanged
<1>12. QED
  BY <1>1, <1>2, <1>4, <1>5, <1>6, <1>7, <1>8, <1>9, <1>10, <1>11
     DEF Next, WorkerStep, ClientStep

\* A client that sends orderly requests, and waits for each answer before the
\* next, gets one answer for each, in order, and the one it asks for.
THEOREM AnswersAreRight ==
    ASSUME OrderlyRequests
    PROVE  Spec => []AnswersMatch
<1>1. Init => Exchange
  <2> SUFFICES ASSUME Init PROVE Exchanged
    BY DEF Exchange
  <2>1. Len(sent) = 0 /\ Len(answers) = 0 /\ 1 .. Len(answers) = {}
    BY DEF Init
  <2>2. QED
    BY <2>1 DEF Init, Exchanged, Fresh
<1>2. ConnectionInv /\ Exchange /\ [Next]_vars => Exchange'
  BY ExchangeStep
<1>3. ConnectionInv /\ Exchange => AnswersMatch
  <2>1. ConnectionInv => Len(answers) \in Nat
    BY DEF ConnectionInv, Shapes
  <2>2. QED
    BY <2>1 DEF Exchange, Exchanged, AnswersMatch
<1>4. QED
  BY <1>1, <1>2, <1>3, ConnectionInvariant, PTL DEF Spec

-----------------------------------------------------------------------------
(* How many answers there can be, whatever the client does. *)

\* At most one line of a request begins a request.
OneStart == \A r \in Requests : Once(r, {"GET", "POST"})

\* The lines that begin requests can be counted.
LEMMA CountType ==
    ASSUME NEW s \in Seq(Token)
    PROVE  /\ IsFiniteSet(Starts(s)) /\ Count(s) \in Nat
           /\ s = <<>> => Count(s) = 0
<1>1. IsFiniteSet(1 .. Len(s)) /\ Starts(s) \in SUBSET (1 .. Len(s))
  <2>1. Len(s) \in Int /\ 1 \in Int
    OBVIOUS
  <2>2. IsFiniteSet(1 .. Len(s))
    BY <2>1, FS_Interval, Zenon
  <2>3. Starts(s) \in SUBSET (1 .. Len(s))
    BY Zenon DEF Starts
  <2>4. QED
    BY <2>2, <2>3
<1>2. IsFiniteSet(Starts(s)) /\ Count(s) \in Nat
  <2>1. IsFiniteSet(Starts(s))
    BY <1>1, FS_Subset, Zenon
  <2>2. QED
    BY <2>1, FS_CardinalityType, Zenon DEF Count
<1>3. s = <<>> => Starts(s) = {}
  BY DEF Starts
<1>4. QED
  BY <1>2, <1>3, FS_EmptySet DEF Count

\* A set of numbers that is shifted has as many elements.
LEMMA ShiftCounts ==
    ASSUME NEW S \in SUBSET Int, IsFiniteSet(S), NEW n \in Int, NEW T \in SUBSET Int,
           \A i \in T : i + n \in S
    PROVE  IsFiniteSet(T) /\ Cardinality(T) <= Cardinality(S)
<1> DEFINE f == [i \in T |-> i + n]
<1>1. f \in Injection(T, S)
  BY DEF Injection, IsInjective
<1> HIDE DEF f
<1>2. QED
  BY <1>1, FS_Injection, Zenon

\* More lines arrive.
LEMMA CountConcat ==
    ASSUME NEW s \in Seq(Token), NEW t \in Seq(Token)
    PROVE  Count(s \o t) <= Count(s) + Count(t)
<1> DEFINE A == {i \in Starts(s \o t) : i <= Len(s)}
           B == {i \in Starts(s \o t) : i > Len(s)}
<1>1. /\ s \o t \in Seq(Token) /\ Len(s \o t) = Len(s) + Len(t)
      /\ \A i \in 1 .. Len(s) + Len(t) : (s \o t)[i] =
            IF i <= Len(s) THEN s[i] ELSE t[i - Len(s)]
  BY ConcatProperties
<1>2. Len(s) \in Nat /\ Len(t) \in Nat
  OBVIOUS
<1>3. A \subseteq Starts(s)
  BY <1>1, <1>2 DEF Starts
<1>4. B \in SUBSET Int /\ \A i \in B : i + (0 - Len(s)) \in Starts(t)
  BY <1>1, <1>2 DEF Starts
<1>5. Starts(s \o t) = A \cup B
  BY <1>1, <1>2 DEF Starts
<1>6. Starts(t) \in SUBSET Int /\ IsFiniteSet(Starts(s)) /\ IsFiniteSet(Starts(t))
  <2>1. Starts(t) \in SUBSET Int
    BY DEF Starts
  <2>2. QED
    BY <2>1, CountType
<1> HIDE DEF A, B
<1>7. IsFiniteSet(A) /\ Cardinality(A) <= Count(s)
  <2>1. A \in SUBSET Starts(s)
    BY <1>3
  <2>2. QED
    BY <1>6, <2>1, FS_Subset, Zenon DEF Count
<1>8. IsFiniteSet(B) /\ Cardinality(B) <= Count(t)
  <2>1. PICK n \in Int : n = 0 - Len(s)
    BY <1>2
  <2>2. \A i \in B : i + n \in Starts(t)
    BY <1>4, <2>1
  <2>3. QED
    BY <1>4, <1>6, <2>2, ShiftCounts DEF Count
<1>9. Cardinality(A) \in Nat /\ Cardinality(B) \in Nat /\ Cardinality(A \cap B) \in Nat
  <2>1. A \cap B \in SUBSET A
    OBVIOUS
  <2>2. IsFiniteSet(A \cap B)
    BY <1>7, <2>1, FS_Subset, Zenon
  <2>3. QED
    BY <1>7, <1>8, <2>2, FS_CardinalityType, Zenon
<1>10. Cardinality(A \cup B) = Cardinality(A) + Cardinality(B) - Cardinality(A \cap B)
  BY <1>7, <1>8, FS_Union, Zenon
<1>11. Count(s) \in Nat /\ Count(t) \in Nat /\ Count(s \o t) = Cardinality(A \cup B)
  BY <1>5, CountType DEF Count
<1>12. QED
  BY <1>7, <1>8, <1>9, <1>10, <1>11

\* One request brings at most one.
LEMMA CountRequest ==
    ASSUME NEW r \in Seq(Token), Once(r, {"GET", "POST"})
    PROVE  Count(r) <= 1
<1>1. CASE Starts(r) = {}
  BY <1>1, FS_EmptySet DEF Count
<1>2. CASE Starts(r) # {}
  <2>1. PICK i : i \in Starts(r)
    BY <1>2
  <2>2. Starts(r) = {i}
    BY <2>1 DEF Starts, Once
  <2>3. Count(r) = 1
    BY <2>2, FS_Singleton, Zenon DEF Count
  <2>4. QED
    BY <2>3
<1>3. QED
  BY <1>1, <1>2

\* Lines are read: what is left has one fewer, if the first began a request.
LEMMA CountRest ==
    ASSUME NEW s \in Seq(Token), NEW k \in 1 .. Len(s)
    PROVE  Count(SubSeq(s, k + 1, Len(s))) + (IF 1 \in Starts(s) THEN 1 ELSE 0) <= Count(s)
<1> DEFINE t == SubSeq(s, k + 1, Len(s))
           S == Starts(s) \ {1}
<1>1. /\ t \in Seq(Token) /\ Len(t) = Len(s) - k
      /\ \A i \in 1 .. Len(s) - k : t[i] = s[k + i]
  OBVIOUS
<1>2. Len(s) \in Nat
  OBVIOUS
<1> HIDE DEF t
<1>3. Starts(t) \in SUBSET Int /\ \A i \in Starts(t) : i + k \in S
  BY <1>1, <1>2 DEF Starts
<1>4. IsFiniteSet(Starts(s)) /\ Count(s) \in Nat /\ Count(t) \in Nat
  BY <1>1, CountType
<1>5. /\ IsFiniteSet(S)
      /\ Cardinality(S) = IF 1 \in Starts(s) THEN Count(s) - 1 ELSE Count(s)
  BY <1>4, FS_RemoveElement, Zenon DEF Count
<1>6. Count(t) <= Cardinality(S)
  <2>1. S \in SUBSET Int /\ k \in Int
    BY <1>2 DEF Starts
  <2> HIDE DEF S
  <2>2. QED
    BY <1>3, <1>5, <2>1, ShiftCounts DEF Count
<1> HIDE DEF S
<1>7. QED
  BY <1>4, <1>5, <1>6 DEF t

\* A line that is passed on counts where it arrives.
LEMMA CountAppend ==
    ASSUME NEW s \in Seq(Token), NEW o \in Seq(Token), o # <<>>
    PROVE  Count(Append(s, Head(o))) + Count(Tail(o)) <= Count(s) + Count(o)
<1> DEFINE a == Append(s, Head(o))
           one == IF 1 \in Starts(o) THEN 1 ELSE 0
<1>1. /\ a \in Seq(Token) /\ Len(a) = Len(s) + 1 /\ a[Len(s) + 1] = o[1]
      /\ \A i \in 1 .. Len(s) : a[i] = s[i]
  OBVIOUS
<1>2. Len(s) \in Nat /\ Len(o) \in Nat /\ 1 \in 1 .. Len(o)
  OBVIOUS
<1>3. Tail(o) = SubSeq(o, 1 + 1, Len(o)) /\ Tail(o) \in Seq(Token)
  BY TailIsSubSeq
<1> HIDE DEF a
<1>4. Count(Tail(o)) + one <= Count(o)
  BY <1>2, <1>3, CountRest
<1>5. Starts(a) \subseteq IF 1 \in Starts(o) THEN Starts(s) \cup {Len(s) + 1} ELSE Starts(s)
  BY <1>1, <1>2 DEF Starts
<1>6. /\ IsFiniteSet(Starts(s)) /\ Count(s) \in Nat /\ Count(a) \in Nat
      /\ Count(o) \in Nat /\ Count(Tail(o)) \in Nat
  BY <1>1, <1>3, CountType
<1>7. Count(a) <= Count(s) + one
  <2>1. CASE 1 \in Starts(o)
    <3> DEFINE U == Starts(s) \cup {Len(s) + 1}
    <3>1. Starts(a) \in SUBSET U
      BY <1>5, <2>1
    <3>2. /\ IsFiniteSet(U)
          /\ Cardinality(U) = IF Len(s) + 1 \in Starts(s) THEN Count(s) ELSE Count(s) + 1
      BY <1>6, FS_AddElement, Zenon DEF Count
    <3> HIDE DEF U
    <3>3. Count(a) <= Cardinality(U)
      BY <3>1, <3>2, FS_Subset, Zenon DEF Count
    <3>4. QED
      BY <1>6, <2>1, <3>2, <3>3
  <2>2. CASE 1 \notin Starts(o)
    <3>1. Starts(a) \in SUBSET Starts(s)
      BY <1>5, <2>2
    <3>2. Count(a) <= Count(s)
      BY <1>6, <3>1, FS_Subset, Zenon DEF Count
    <3>3. QED
      BY <1>6, <2>2, <3>2
  <2>3. QED
    BY <2>1, <2>2
<1>8. one \in {0, 1}
  OBVIOUS
<1> HIDE DEF one
<1>9. QED
  BY <1>4, <1>6, <1>7, <1>8 DEF a

\* The client sends.
LEMMA ClientAccounts ==
    ASSUME OneStart, ConnectionInv, Accounts, ClientStep
    PROVE  Accounts'
<1>1. /\ wire \in Seq(Token) /\ outbox \in Seq(Token) /\ sent \in Seq(Requests)
      /\ Len(answers) \in Nat /\ Len(sent) \in Nat /\ InHand \in Nat /\ Surplus \in Nat
      /\ Count(wire) \in Nat /\ Count(outbox) \in Nat
  BY CountType DEF ConnectionInv, Shapes, TypeOK, InHand, Surplus
<1>2. UNCHANGED <<answers, pc>> /\ UNCHANGED <<InHand, Refused, Surplus>>
  BY DEF ClientStep, ClientSend, ClientPart, ClientClose, InHand, Refused, Surplus
<1>3. ASSUME /\ Len(sent') \in Nat /\ Len(sent') >= Len(sent)
             /\ wire' # <<>> => Len(sent') > 0
             /\ outbox' # <<>> => Len(sent') > 0
             /\ Count(wire') \in Nat /\ Count(outbox') \in Nat
             /\ Count(wire') + Count(outbox') + Len(sent)
                   <= Count(wire) + Count(outbox) + Len(sent')
      PROVE  Accounts'
  <2>1. Phases'
    BY <1>1, <1>2, <1>3 DEF Accounts, Phases
  <2>2. Balance'
    <3>1. pc # "drain" =>
            Len(answers) + Count(wire) + Count(outbox) + InHand <= Len(sent) + Surplus
      BY DEF Accounts, Balance
    <3>2. Len(answers') = Len(answers) /\ InHand' = InHand /\ Surplus' = Surplus
      BY <1>2
    <3>3. ASSUME Len(answers) + Count(wire) + Count(outbox) + InHand <= Len(sent) + Surplus
          PROVE  Len(answers) + Count(wire') + Count(outbox') + InHand <= Len(sent') + Surplus
      <4> HIDE DEF Count, InHand, Surplus
      <4>1. PICK c \in Nat : c = Count(wire') + Count(outbox')
        BY <1>3
      <4>2. PICK d \in Nat : d = Count(wire) + Count(outbox)
        BY <1>1
      <4>3. c + Len(sent) <= d + Len(sent')
        BY <1>3, <4>1, <4>2
      <4>4. Len(answers) + d + InHand <= Len(sent) + Surplus
        BY <1>1, <3>3, <4>2
      <4>5. Len(answers) + c + InHand <= Len(sent') + Surplus
        BY <1>1, <1>3, <4>3, <4>4
      <4>6. QED
        BY <1>1, <1>3, <4>1, <4>5
    <3>4. QED
      BY <1>2, <3>1, <3>2, <3>3 DEF Balance
  <2>3. QED
    BY <2>1, <2>2 DEF Accounts
<1>4. ASSUME NEW r \in Requests, ClientSend(r) PROVE Accounts'
  <2>1. r \in Seq(Token) /\ Count(r) <= 1 /\ Count(r) \in Nat
    BY ConnectionAssumption, CountRequest, CountType DEF OneStart
  <2>2. Len(sent') = Len(sent) + 1
    BY <1>1, <1>4 DEF ClientSend
  <2>3. PICK w \in Seq(Token) : w = wire \o r /\ Count(w) <= Count(wire) + 1 /\ Count(w) \in Nat
    <3>1. wire \o r \in Seq(Token)
      BY <1>1, <2>1, ConcatProperties
    <3>2. Count(wire \o r) \in Nat
      BY <3>1, CountType
    <3>3. Count(wire \o r) <= Count(wire) + Count(r)
      BY <1>1, <2>1, CountConcat
    <3>4. Count(wire \o r) <= Count(wire) + 1
      BY <1>1, <2>1, <3>2, <3>3
    <3>5. QED
      BY <3>1, <3>2, <3>4, Zenon
  <2>4. PICK o \in Seq(Token) : o = outbox \o r /\ Count(o) <= Count(outbox) + 1 /\ Count(o) \in Nat
    <3>1. outbox \o r \in Seq(Token)
      BY <1>1, <2>1, ConcatProperties
    <3>2. Count(outbox \o r) \in Nat
      BY <3>1, CountType
    <3>3. Count(outbox \o r) <= Count(outbox) + Count(r)
      BY <1>1, <2>1, CountConcat
    <3>4. Count(outbox \o r) <= Count(outbox) + 1
      BY <1>1, <2>1, <3>2, <3>3
    <3>5. QED
      BY <3>1, <3>2, <3>4, Zenon
  <2>5. \/ wire' = w /\ outbox' = outbox
        \/ outbox' = o /\ wire' = wire
    BY <1>4, <2>3, <2>4, Zenon DEF ClientSend
  <2>6. /\ Count(wire') \in Nat /\ Count(outbox') \in Nat
        /\ Count(wire') + Count(outbox') <= Count(wire) + Count(outbox) + 1
    <3>1. CASE wire' = w /\ outbox' = outbox
      <4>1. Count(wire') = Count(w) /\ Count(outbox') = Count(outbox)
        BY <3>1, Zenon
      <4>2. QED
        BY <1>1, <2>3, <4>1
    <3>2. CASE outbox' = o /\ wire' = wire
      <4>1. Count(wire') = Count(wire) /\ Count(outbox') = Count(o)
        BY <3>2, Zenon
      <4>2. QED
        BY <1>1, <2>4, <4>1
    <3>3. QED
      BY <2>5, <3>1, <3>2
  <2>7. QED
    BY <1>1, <1>3, <2>2, <2>6
<1>5. CASE ClientPart
  <2>1. /\ wire' = Append(wire, Head(outbox)) /\ outbox' = Tail(outbox) /\ outbox # <<>>
        /\ sent' = sent
    BY <1>5 DEF ClientPart
  <2>2. Count(wire') + Count(outbox') <= Count(wire) + Count(outbox)
    BY <1>1, <2>1, CountAppend
  <2>3. Count(wire') \in Nat /\ Count(outbox') \in Nat
    <3>1. Append(wire, Head(outbox)) \in Seq(Token) /\ Tail(outbox) \in Seq(Token)
      BY <1>1, <2>1
    <3>2. QED
      BY <2>1, <3>1, CountType
  <2>4. Len(sent') = Len(sent) /\ Len(sent) > 0
    BY <2>1 DEF Accounts, Phases
  <2>5. QED
    BY <1>1, <1>3, <2>2, <2>3, <2>4
<1>6. CASE ClientClose
  <2>1. wire' = wire /\ outbox' = <<>> /\ sent' = sent
    BY <1>6 DEF ClientClose
  <2>2. Count(outbox') = 0
    <3>1. outbox' \in Seq(Token)
      BY <2>1
    <3>2. QED
      BY <2>1, <3>1, CountType
  <2>3. Count(wire') = Count(wire) /\ Len(sent') = Len(sent)
    BY <2>1, Zenon
  <2>4. wire' # <<>> => Len(sent') > 0
    BY <2>1 DEF Accounts, Phases
  <2>5. QED
    BY <1>1, <1>3, <2>1, <2>2, <2>3, <2>4
<1>7. QED
  BY <1>4, <1>5, <1>6 DEF ClientStep

Blank ==
    sent = <<>> /\ wire = <<>> /\ outbox = <<>> /\ answers = <<>> /\ pc \in {"idle", "peek"}

\* A connection that begins, or is over, owes nothing.
LEMMA FreshAccounts == Blank => Accounts
<1> SUFFICES ASSUME Blank PROVE Accounts
  OBVIOUS
<1> USE DEF Blank
<1>1. Len(sent) = 0 /\ Len(answers) = 0
  OBVIOUS
<1>2. Count(wire) = 0 /\ Count(outbox) = 0
  <2>1. wire \in Seq(Token) /\ outbox \in Seq(Token)
    OBVIOUS
  <2>2. QED
    BY <2>1, CountType
<1>3. InHand = 0 /\ ~Refused /\ Surplus = 0
  BY DEF InHand, Refused, Surplus
<1>4. Phases
  BY <1>3 DEF Phases
<1>5. Balance
  BY <1>1, <1>2, <1>3 DEF Balance
<1>6. QED
  BY <1>4, <1>5 DEF Accounts

\* The worker answers.
LEMMA WorkerAccounts ==
    ASSUME ConnectionInv, Accounts, WorkerStep
    PROVE  Accounts'
<1>1. /\ wire \in Seq(Token) /\ outbox \in Seq(Token) /\ sent \in Seq(Requests)
      /\ Len(answers) \in Nat /\ Len(sent) \in Nat /\ InHand \in Nat /\ Surplus \in Nat
      /\ Count(wire) \in Nat /\ Count(outbox) \in Nat
  BY CountType DEF ConnectionInv, Shapes, TypeOK, InHand, Surplus
<1>2. CASE PeekEmpty \/ DrainEnd \/ SslNewFail \/ SslAcceptFail \/ Hangup
  <2>1. Blank'
    BY <1>2 DEF PeekEmpty, DrainEnd, SslNewFail, SslAcceptFail, Hangup, Close, Blank
  <2>2. QED
    BY <2>1, FreshAccounts, PTL
<1>3. CASE PeekTls \/ SslNew \/ SslAccept \/ AllocRequest \/ AllocFail \/ ReadEnd \/ BodyEnd
           \/ FreeRequest
  <2>1. /\ UNCHANGED <<sent, wire, outbox, answers>>
        /\ pc' \notin {"idle", "peek", "drain"} /\ pc # "drain"
        /\ pc' \in {"free", "shutdown"} \/ pc \notin {"free", "shutdown"}
        /\ pc' \in {"body", "route"} <=> pc \in {"body", "route"}
    BY <1>3 DEF PeekTls, SslNew, SslAccept, AllocRequest, AllocFail, ReadEnd, BodyEnd,
                FreeRequest, Runs, clientVars
  <2>2. UNCHANGED <<Refused, InHand, Surplus>>
    BY <2>1 DEF InHand, Refused, Surplus
  <2>3. Phases'
    BY <2>1, <2>2 DEF Accounts, Phases
  <2>4. Balance'
    BY <2>1, <2>2 DEF Accounts, Balance
  <2>5. QED
    BY <2>3, <2>4 DEF Accounts
<1>4. CASE PeekClear
  <2>1. /\ pc = "peek" /\ wire # <<>> /\ UNCHANGED <<sent, wire, outbox>> /\ pc' = "drain"
        /\ answers' = Append(answers, Answer("moved", TRUE, 0))
    BY <1>4 DEF PeekClear, Runs, Silent, clientVars
  <2>2. answers = <<>> /\ Len(sent) > 0
    BY <2>1 DEF Accounts, Phases
  <2>3. answers' = <<Answer("moved", TRUE, 0)>>
    BY <2>1, <2>2
  <2>4. Len(answers') = 1 /\ Last(answers') = Answer("moved", TRUE, 0)
    BY <2>3 DEF Last
  <2>5. ~Refused'
    BY <2>4 DEF Refused, Answer
  <2>6. QED
    BY <2>1, <2>2, <2>4, <2>5 DEF Accounts, Phases, Balance
<1>5. CASE Drain
  <2>1. /\ pc = "drain" /\ wire' = <<>> /\ UNCHANGED <<sent, outbox, answers, pc>>
        /\ UNCHANGED <<Refused>>
    BY <1>5 DEF Drain, Runs, Refused
  <2>2. QED
    BY <2>1 DEF Accounts, Phases, Balance
<1>6. ASSUME NEW k \in 1 .. Len(wire), ReadRequest(k) PROVE Accounts'
  <2> DEFINE b == SubSeq(wire, 1, k)
  <2>1. /\ pc = "read" /\ wire' = SubSeq(wire, k + 1, Len(wire))
        /\ UNCHANGED <<sent, outbox, answers>> /\ UNCHANGED <<Refused, Surplus>>
        /\ pc' = CASE ~Parse(b).ok -> "bad"
                   [] Parse(b).ok /\ Parse(b).method = "POST" /\ Parse(b).content_length > 0
                        -> "body"
                   [] OTHER -> "route"
    BY <1>6 DEF ReadRequest, Runs, Refused, Surplus
  <2>2. Parse(b).ok => 1 \in Starts(wire)
    <3>1. b \in Seq(Token) /\ b[1] = wire[1]
      BY <1>1, SplitSeq
    <3>2. QED
      BY <1>1, <3>1 DEF Parse, Malformed, Starts
  <2>3. pc' \in {"bad", "body", "route"} /\ (pc' # "bad" => 1 \in Starts(wire))
    <3> HIDE DEF b
    <3> QED BY <2>1, <2>2
  <2>4. Count(wire') + InHand' <= Count(wire) /\ Count(wire') \in Nat /\ InHand' \in {0, 1}
    <3>1. Count(wire') + (IF 1 \in Starts(wire) THEN 1 ELSE 0) <= Count(wire)
      BY <1>1, <2>1, CountRest
    <3>2. wire' \in Seq(Token)
      BY <1>1, <2>1, SplitSeq
    <3>3. Count(wire') \in Nat
      BY <3>2, CountType
    <3>4. InHand' \in {0, 1} /\ (InHand' = 1 => 1 \in Starts(wire))
      BY <2>3 DEF InHand
    <3>5. QED
      BY <1>1, <3>1, <3>3, <3>4
  <2>5. InHand = 0 /\ ~Refused /\ wire # <<>>
    BY <1>6, <2>1 DEF InHand, Accounts, Phases, ReadRequest, Silent
  <2>6. Phases'
    BY <2>1, <2>3, <2>5 DEF Accounts, Phases
  <2>7. Len(answers) + Count(wire) + Count(outbox) + InHand <= Len(sent) + Surplus
    BY <2>1 DEF Accounts, Balance
  <2>8. /\ Len(answers') = Len(answers) /\ Len(sent') = Len(sent)
        /\ Count(outbox') = Count(outbox) /\ Surplus' = Surplus
    BY <2>1
  <2>9. Balance'
    BY <1>1, <2>4, <2>5, <2>7, <2>8 DEF Balance
  <2>10. QED
    BY <2>6, <2>9 DEF Accounts
<1>7. ASSUME NEW k \in 1 .. Len(wire), ReadBody(k) PROVE Accounts'
  <2>1. /\ pc = "body" /\ wire' = SubSeq(wire, k + 1, Len(wire)) /\ wire # <<>>
        /\ UNCHANGED <<sent, outbox, answers, pc>> /\ UNCHANGED <<Refused, InHand, Surplus>>
    BY <1>7 DEF ReadBody, Runs, Refused, InHand, Silent, Surplus
  <2>2. wire' \in Seq(Token)
    BY <1>1, <2>1, SplitSeq
  <2>3. Count(wire') \in Nat
    BY <2>2, CountType
  <2>4. Count(wire') + (IF 1 \in Starts(wire) THEN 1 ELSE 0) <= Count(wire)
    BY <1>1, <2>1, CountRest
  <2>5. Count(wire') <= Count(wire)
    BY <1>1, <2>3, <2>4
  <2>6. Phases'
    BY <2>1 DEF Accounts, Phases
  <2>7. Len(answers) + Count(wire) + Count(outbox) + InHand <= Len(sent) + Surplus
    BY <2>1 DEF Accounts, Balance
  <2>8. /\ Len(answers') = Len(answers) /\ Len(sent') = Len(sent) /\ InHand' = InHand
        /\ Count(outbox') = Count(outbox) /\ Surplus' = Surplus
    BY <2>1
  <2>9. Balance'
    BY <1>1, <2>3, <2>5, <2>7, <2>8 DEF Balance
  <2>10. QED
    BY <2>6, <2>9 DEF Accounts
<1>8. CASE Route \/ BadRequest
  <2>1. /\ pc \in {"route", "bad"} /\ UNCHANGED <<sent, wire, outbox>>
        /\ pc' \in {"read", "free"} /\ (pc = "bad" => pc' = "free")
    BY <1>8 DEF Route, BadRequest, Runs, clientVars
  <2>2. PICK a : /\ answers' = Append(answers, a)
                 /\ pc = "route" => a.status # "bad"
                 /\ pc = "bad" => a = Answer("bad", TRUE, 0)
    <3>1. CASE Route
      <4>1. \E a : answers' = Append(answers, a) /\ a.status # "bad"
        BY <3>1 DEF Route, Answer
      <4>2. QED
        BY <3>1, <4>1 DEF Route, Runs
    <3>2. CASE BadRequest
      BY <3>2 DEF BadRequest, Runs
    <3>3. QED
      BY <1>8, <3>1, <3>2
  <2>3. Len(answers') = Len(answers) + 1 /\ Last(answers') = a /\ answers' # <<>>
    <3>1. /\ Len(Append(answers, a)) = Len(answers) + 1
          /\ Append(answers, a)[Len(answers) + 1] = a
      BY DEF ConnectionInv, Shapes
    <3>2. QED
      BY <1>1, <2>2, <3>1 DEF Last
  <2>4. ~Refused
    BY <2>1 DEF Accounts, Phases
  <2>5. Refused' <=> pc = "bad"
    BY <2>1, <2>2, <2>3 DEF Refused, Answer
  <2>6. Surplus' = 1 - InHand /\ InHand' = 0 /\ Surplus = 0
    BY <2>1, <2>4, <2>5 DEF InHand, Surplus
  <2>7. Phases'
    BY <2>1, <2>5 DEF Accounts, Phases
  <2>8. Len(answers) + Count(wire) + Count(outbox) + InHand <= Len(sent) + Surplus
    BY <2>1 DEF Accounts, Balance
  <2>9. /\ Len(sent') = Len(sent) /\ Count(outbox') = Count(outbox)
        /\ Count(wire') = Count(wire) /\ Surplus' \in {0, 1}
    BY <2>1 DEF Surplus
  <2>10. Balance'
    <3>1. /\ Len(answers) + Count(wire) + Count(outbox) + InHand <= Len(sent)
          /\ Len(sent') + Surplus' = Len(sent) + 1 - InHand
      <4>1. Len(answers) + Count(wire) + Count(outbox) + InHand <= Len(sent)
        BY <1>1, <2>6, <2>8
      <4>2. QED
        BY <1>1, <2>6, <2>9, <4>1
    <3>2. Len(answers) + 1 + Count(wire) + Count(outbox) <= Len(sent) + 1 - InHand
      BY <1>1, <3>1
    <3>3. QED
      BY <1>1, <2>3, <2>6, <2>9, <3>1, <3>2 DEF Balance
  <2>11. QED
    BY <2>7, <2>10 DEF Accounts
<1>9. QED
  BY <1>2, <1>3, <1>4, <1>5, <1>6, <1>7, <1>8 DEF WorkerStep

\* Whatever a client sends and however the network cuts it up, as long as no
\* request contains a second line that looks like the first of one: there is
\* at most one answer too many, a 400, and it is the last.
THEOREM SurplusIsBounded ==
    ASSUME OneStart
    PROVE  Spec => []SurplusEnds
<1>1. Init => Accounts
  BY FreshAccounts DEF Init, Blank
<1>2. ConnectionInv /\ Accounts /\ [Next]_vars => Accounts'
  <2> SUFFICES ASSUME ConnectionInv, Accounts, [Next]_vars PROVE Accounts'
    OBVIOUS
  <2>1. CASE WorkerStep
    BY <2>1, WorkerAccounts
  <2>2. CASE ClientStep
    BY <2>2, ClientAccounts
  <2>3. ASSUME NEW p \in Protocols, NEW m \in Manners, Accepted(p, m) PROVE Accounts'
    <3>1. Blank'
      BY <2>3 DEF Accepted, Blank
    <3>2. QED
      BY <3>1, FreshAccounts, PTL
  <2>4. CASE Rest \/ UNCHANGED vars
    <3>1. UNCHANGED <<sent, wire, outbox, answers, pc>>
      BY <2>4 DEF Rest, vars, clientVars
    <3>2. UNCHANGED <<Refused, InHand, Surplus>>
      BY <3>1 DEF InHand, Refused, Surplus
    <3>3. QED
      BY <3>1, <3>2 DEF Accounts, Phases, Balance
  <2>5. QED
    BY <2>1, <2>2, <2>3, <2>4 DEF Next
<1>3. ConnectionInv /\ Accounts => SurplusEnds
  <2> SUFFICES ASSUME ConnectionInv, Accounts PROVE SurplusEnds
    OBVIOUS
  <2>1. /\ Len(answers) \in Nat /\ Len(sent) \in Nat /\ InHand \in Nat
        /\ Count(wire) \in Nat /\ Count(outbox) \in Nat
    BY CountType DEF ConnectionInv, Shapes, TypeOK, InHand
  <2>2. CASE pc = "drain"
    <3>1. Len(answers) = 1 /\ Len(sent) > 0
      BY <2>2 DEF Accounts, Phases
    <3>2. Len(answers) <= Len(sent)
      BY <2>1, <3>1
    <3>3. QED
      BY <3>2 DEF SurplusEnds
  <2>3. CASE pc # "drain" /\ ~Refused
    <3>1. Len(answers) + Count(wire) + Count(outbox) + InHand <= Len(sent)
      BY <2>1, <2>3 DEF Accounts, Balance, Surplus
    <3>2. Len(answers) <= Len(sent)
      BY <2>1, <3>1
    <3>3. QED
      BY <3>2 DEF SurplusEnds
  <2>4. CASE pc # "drain" /\ Refused
    <3>1. Len(answers) + Count(wire) + Count(outbox) + InHand <= Len(sent) + 1
      BY <2>1, <2>4 DEF Accounts, Balance, Surplus
    <3>2. Len(answers) <= Len(sent) \/ Len(answers) = Len(sent) + 1
      BY <2>1, <3>1
    <3>3. QED
      BY <2>4, <3>2 DEF SurplusEnds, Refused
  <2>5. QED
    BY <2>2, <2>3, <2>4
<1>4. QED
  BY <1>1, <1>2, <1>3, ConnectionInvariant, PTL DEF Spec

=============================================================================
