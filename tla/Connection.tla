----------------------------- MODULE Connection -----------------------------
(***************************************************************************)
(* One connection in the hands of one worker: the body of the loop of      *)
(* lith_client_handler (src/src/server_worker.c) between thread_pool_pop   *)
(* and the next one.  The client and the network are the environment.      *)
(*                                                                         *)
(* A request is a sequence of tokens of module HttpParser; SSL_read hands  *)
(* over some non-empty prefix of what has arrived, as far as it fits.      *)
(***************************************************************************)
EXTENDS HttpParser

CONSTANTS Requests,       \* the requests a client may send
          MaxRequests,    \* bound: requests of one connection
          MaxConnections, \* bound: connections the worker serves
          BufferSize,     \* BUFFER_SIZE - 1, in tokens
          Manners,        \* of clients: TRUE if they may be prompt, FALSE if not
          Protocols,      \* what clients speak: "tls", "clear"
          MayReset        \* clients may reset the connection

ASSUME ConnectionAssumption ==
    /\ MaxRequests \in Nat /\ MaxConnections \in Nat /\ BufferSize \in Nat \ {0}
    /\ Manners \subseteq BOOLEAN /\ MayReset \in BOOLEAN
    /\ Protocols \subseteq {"tls", "clear"}
    /\ Requests \subseteq Seq(Token)

VARIABLES
    client, proto, prompt,        \* the client: open, closed or reset; what it
                                  \* speaks; whether it sends whole requests
    sent, outbox,                 \* requests begun; tokens of them not yet sent
    wire,                         \* tokens that have arrived and are not yet read
    pc, held,                     \* the worker: position, resources to release
    buffer, req, body,            \* buffer, HttpRequest, body_received
    answers,                      \* responses on this connection
    alive,                        \* the process has not been killed
    served                        \* connections closed so far

clientVars == <<client, proto, prompt, sent, outbox, wire>>
parseVars  == <<buffer, req, body>>
vars == <<clientVars, pc, held, parseVars, answers, alive, served>>

Answer(status, close, bytes) == [status |-> status, close |-> close, bytes |-> bytes]

\* Writing to a connection the peer has reset raises SIGPIPE, which nothing
\* in the program ignores or handles, unless an error is reported first.
Write == alive' \in IF client = "reset" THEN BOOLEAN ELSE {TRUE}

\* recv or SSL_read gives up: all is read and the peer is gone, or nothing
\* has arrived for the three seconds of SO_RCVTIMEO.
Silent == wire = <<>>

-----------------------------------------------------------------------------
(* The client. *)

\* A new connection has been popped from the queue.
Accepted(p, m) ==
    /\ pc = "idle" /\ alive /\ served < MaxConnections
    /\ client' = "open" /\ proto' = p /\ prompt' = m
    /\ sent' = <<>> /\ outbox' = <<>> /\ wire' = <<>>
    /\ answers' = <<>>
    /\ pc' = "peek" /\ held' = {"fd"}
    /\ UNCHANGED <<parseVars, alive, served>>

\* A prompt client waits for its answers and gets its request through in one
\* go; any other is free to pipeline and to stop in the middle.
ClientSend(r) ==
    /\ client = "open" /\ pc # "idle" /\ Len(sent) < MaxRequests
    /\ prompt => Len(answers) = Len(sent)
    /\ sent' = Append(sent, r)
    /\ IF prompt THEN wire' = wire \o r /\ UNCHANGED outbox
                 ELSE outbox' = outbox \o r /\ UNCHANGED wire
    /\ UNCHANGED <<client, proto, prompt, pc, held, parseVars, answers, alive, served>>

ClientPart ==
    /\ client = "open" /\ outbox # <<>>
    /\ wire' = Append(wire, Head(outbox)) /\ outbox' = Tail(outbox)
    /\ UNCHANGED <<client, proto, prompt, sent, pc, held, parseVars, answers, alive, served>>

ClientClose ==
    /\ pc # "idle"
    /\ \/ client = "open" /\ client' = "closed"
       \/ MayReset /\ client # "reset" /\ client' = "reset"
    /\ outbox' = <<>>
    /\ UNCHANGED <<proto, prompt, sent, wire, pc, held, parseVars, answers, alive, served>>

-----------------------------------------------------------------------------
(* Protocol sniffing, the redirect of cleartext clients, the TLS session. *)

Runs(l) == pc = l /\ alive

\* The way back to thread_pool_pop, releasing what the code at hand releases.
Close(released) ==
    /\ pc' = "idle" /\ held' = held \ released /\ served' = served + 1
    /\ client' = "closed" /\ sent' = <<>> /\ outbox' = <<>> /\ wire' = <<>>
    /\ answers' = <<>>
    /\ buffer' = <<>> /\ req' = Malformed /\ body' = 0
    /\ UNCHANGED <<proto, prompt>>

\* recv(MSG_PEEK) <= 0.
PeekEmpty ==
    /\ Runs("peek") /\ Silent
    /\ Close({"fd"}) /\ UNCHANGED alive

\* The first byte is that of a TLS handshake.
PeekTls ==
    /\ Runs("peek") /\ proto = "tls"
    /\ pc' = "ssl"
    /\ UNCHANGED <<clientVars, held, parseVars, answers, alive, served>>

\* The 301 goes out without looking at more than the path and the host; then
\* everything the client still sends is thrown away.
PeekClear ==
    /\ Runs("peek") /\ ~Silent /\ proto = "clear"
    /\ Write
    /\ answers' = Append(answers, Answer("moved", TRUE, 0))
    /\ pc' = "drain"
    /\ UNCHANGED <<clientVars, held, parseVars, served>>

Drain ==
    /\ Runs("drain") /\ ~Silent
    /\ wire' = <<>>
    /\ UNCHANGED <<client, proto, prompt, sent, outbox, pc, held, parseVars, answers, alive, served>>

\* Mutant: the socket has no receive timeout while draining.
DrainEndAtEof ==
    /\ Runs("drain") /\ Silent /\ client # "open"
    /\ Close({"fd"}) /\ UNCHANGED alive

DrainEnd ==
    /\ Runs("drain") /\ Silent
    /\ Close({"fd"}) /\ UNCHANGED alive

SslNew ==
    /\ Runs("ssl")
    /\ held' = held \cup {"ssl"}
    /\ pc' = "accept"
    /\ UNCHANGED <<clientVars, parseVars, answers, alive, served>>

SslNewFail ==
    /\ Runs("ssl")
    /\ Close({"fd"}) /\ UNCHANGED alive

\* Mutant: the failed handshake forgets SSL_free.
SslAcceptFailLeak ==
    /\ Runs("accept")
    /\ Close({"fd"}) /\ UNCHANGED alive

SslAcceptFail ==
    /\ Runs("accept")
    /\ Close({"ssl", "fd"}) /\ UNCHANGED alive

SslAccept ==
    /\ Runs("accept")
    /\ pc' = "malloc"
    /\ UNCHANGED <<clientVars, held, parseVars, answers, alive, served>>

AllocRequest ==
    /\ Runs("malloc")
    /\ held' = held \cup {"req"}
    /\ pc' = "read"
    /\ UNCHANGED <<clientVars, parseVars, answers, alive, served>>

AllocFail ==
    /\ Runs("malloc")
    /\ pc' = "shutdown"
    /\ UNCHANGED <<clientVars, held, parseVars, answers, alive, served>>

-----------------------------------------------------------------------------
(* The keep-alive loop. *)

\* Mutant: no room is kept for the terminator.
ChunkOverlong(k) ==
    /\ k <= BufferSize + 1 - Len(buffer)
    /\ prompt => k = Len(wire) \/ BodyStart(buffer \o SubSeq(wire, 1, k)) # 0

\* What one SSL_read may return: some prefix that fits.  A prompt client's
\* head arrives in one piece, its body in any.
Chunk(k) ==
    /\ k <= BufferSize - Len(buffer)
    /\ prompt => k = Len(wire) \/ BodyStart(buffer \o SubSeq(wire, 1, k)) # 0

ReadRequest(k) ==
    LET b == SubSeq(wire, 1, k)
        r == Parse(b)
    IN  /\ Runs("read") /\ ~Silent /\ Chunk(k)
        /\ buffer' = b /\ req' = r
        /\ body' = IF r.body_start = 0 THEN 0 ELSE k - r.body_start + 1
        /\ wire' = SubSeq(wire, k + 1, Len(wire))
        /\ pc' = CASE ~r.ok -> "bad"
                   [] r.ok /\ r.method = "POST" /\ r.content_length > 0 -> "body"
                   [] OTHER -> "route"
        /\ UNCHANGED <<client, proto, prompt, sent, outbox, held, answers, alive, served>>

ReadEnd ==
    /\ Runs("read") /\ Silent
    /\ pc' = "free"
    /\ UNCHANGED <<clientVars, held, parseVars, answers, alive, served>>

\* Mutant: the loop stops one short.
WantsBodyShort == body + 1 < req.content_length /\ Len(buffer) < BufferSize

WantsBody == body < req.content_length /\ Len(buffer) < BufferSize

ReadBody(k) ==
    /\ Runs("body") /\ WantsBody /\ ~Silent /\ Chunk(k)
    /\ buffer' = buffer \o SubSeq(wire, 1, k) /\ body' = body + k
    /\ wire' = SubSeq(wire, k + 1, Len(wire))
    /\ UNCHANGED <<client, proto, prompt, sent, outbox, pc, held, req, answers, alive, served>>

\* The loop ends because the body is complete, the buffer is full, or the
\* read failed: the router is called in each case.
BodyEnd ==
    /\ Runs("body") /\ (WantsBody => Silent)
    /\ pc' = "route"
    /\ UNCHANGED <<clientVars, held, parseVars, answers, alive, served>>

\* Mutant: keep_alive is not looked at.
RouteKeepsOpen ==
    /\ Runs("route")
    /\ Write
    /\ answers' = Append(answers, IF req.method = "POST"
                          THEN Answer("posted", ~req.keep_alive, req.content_length)
                          ELSE Answer("file", ~req.keep_alive, 0))
    /\ pc' = "read"
    /\ buffer' = <<>> /\ body' = 0 /\ req' = Malformed
    /\ UNCHANGED <<clientVars, held, served>>

\* handle_http_route: the answer to a POST reports the announced length.
Route ==
    /\ Runs("route")
    /\ Write
    /\ answers' = Append(answers, IF req.method = "POST"
                          THEN Answer("posted", ~req.keep_alive, req.content_length)
                          ELSE Answer("file", ~req.keep_alive, 0))
    /\ pc' = IF req.keep_alive THEN "read" ELSE "free"
    /\ buffer' = <<>> /\ body' = 0 /\ req' = Malformed
    /\ UNCHANGED <<clientVars, held, served>>

\* Mutant: after a malformed request the connection stays open.
BadRequestKeepsOpen ==
    /\ Runs("bad")
    /\ Write
    /\ answers' = Append(answers, Answer("bad", TRUE, 0))
    /\ pc' = "read"
    /\ UNCHANGED <<clientVars, held, parseVars, served>>

BadRequest ==
    /\ Runs("bad")
    /\ Write
    /\ answers' = Append(answers, Answer("bad", TRUE, 0))
    /\ pc' = "free"
    /\ UNCHANGED <<clientVars, held, parseVars, served>>

FreeRequest ==
    /\ Runs("free")
    /\ held' = held \ {"req"}
    /\ pc' = "shutdown"
    /\ UNCHANGED <<clientVars, parseVars, answers, alive, served>>

\* SSL_shutdown writes the close_notify; SSL_free; close.
Hangup ==
    /\ Runs("shutdown")
    /\ Write
    /\ Close({"ssl", "fd"})

Rest ==
    /\ ~alive \/ (pc = "idle" /\ served = MaxConnections)
    /\ UNCHANGED vars

-----------------------------------------------------------------------------
Init ==
    /\ client = "closed" /\ proto = "tls" /\ prompt = TRUE
    /\ sent = <<>> /\ outbox = <<>> /\ wire = <<>>
    /\ pc = "idle" /\ held = {}
    /\ buffer = <<>> /\ req = Malformed /\ body = 0
    /\ answers = <<>> /\ alive = TRUE /\ served = 0

WorkerStep ==
    \/ PeekEmpty \/ PeekTls \/ PeekClear \/ Drain \/ DrainEnd
    \/ SslNew \/ SslNewFail \/ SslAccept \/ SslAcceptFail \/ AllocRequest \/ AllocFail
    \/ \E k \in 1 .. Len(wire) : ReadRequest(k) \/ ReadBody(k)
    \/ ReadEnd \/ BodyEnd \/ Route \/ BadRequest \/ FreeRequest \/ Hangup

ClientStep ==
    \/ \E r \in Requests : ClientSend(r)
    \/ ClientPart \/ ClientClose

Next ==
    \/ WorkerStep \/ ClientStep
    \/ \E p \in Protocols, m \in Manners : Accepted(p, m)
    \/ Rest

Spec == Init /\ [][Next]_vars

\* The worker runs, and a read that gets nothing times out.
FairSpec == Spec /\ WF_vars(WorkerStep)

-----------------------------------------------------------------------------
(* Properties. *)

\* Types of the locals of lith_client_handler; in particular the buffer never
\* holds more than it has room for.
TypeOK ==
    /\ client \in {"open", "closed", "reset"} /\ proto \in {"tls", "clear"} /\ prompt \in BOOLEAN
    /\ sent \in Seq(Requests) /\ Len(sent) <= MaxRequests
    /\ pc \in {"idle", "peek", "drain", "ssl", "accept", "malloc", "read", "body", "route",
               "bad", "free", "shutdown"}
    /\ held \subseteq {"fd", "ssl", "req"}
    /\ Len(buffer) <= BufferSize
    /\ body \in 0 .. BufferSize /\ alive \in BOOLEAN /\ served \in 0 .. MaxConnections

\* A worker that is back for its next connection has released everything of
\* the last one, however that one ended.
NothingKept == pc = "idle" => held = {}

\* What a request asks for, read from its meaning.
Expected(r) ==
    IF ~HeadComplete(r) THEN Answer("bad", TRUE, 0)
    ELSE IF Meaning(r).method = "POST"
         THEN Answer("posted", ~Meaning(r).keep_alive, Meaning(r).content_length)
         ELSE Answer("file", ~Meaning(r).keep_alive, 0)

\* What an orderly client sends: well-formed requests that fit the buffer, each
\* with the body it announces, which only a POST has; or lines that do not
\* begin like a request.
Orderly(r) ==
    /\ Len(r) \in 1 .. BufferSize
    /\ r[1].kind \in {"GET", "POST"} =>
          /\ WellFormed(r)
          /\ Len(r) + 1 = Meaning(r).body_start
                + IF Meaning(r).method = "POST" /\ Meaning(r).content_length > 0
                  THEN Meaning(r).content_length ELSE 0

\* Every client that waits for its answers gets them, one for one and in
\* order, each the one its request asks for: nothing of one request is left
\* over and taken for the next, however the bodies were cut up.
AnswersMatch == proto = "tls" /\ prompt =>
    /\ Len(answers) <= Len(sent)
    /\ \A i \in 1 .. Len(answers) : answers[i] = Expected(sent[i])

Announced == answers # <<>> /\ Last(answers).close

\* The server ends a connection only after an answer that announced it, or on
\* a client that is silent or gone; and after such an answer sends no other.
EndsForCause ==
    [][/\ pc = "read" /\ pc' = "free" => Silent
       /\ pc = "route" /\ pc' = "free" => Announced'
       /\ Len(answers') > Len(answers) => ~Announced]_vars

\* The worker is never lost to a client that reads what it is sent and sends
\* no more than MaxRequests requests, however it cuts them up, stops in the
\* middle, falls silent, closes or resets: every read has SO_RCVTIMEO behind it.
WorkerReturns == (pc # "idle") ~> (pc = "idle" \/ ~alive)

\* A POST that is reported as received has been received.
PostReceived == pc = "route" /\ req.method = "POST" => body >= req.content_length

\* However a client cuts up and runs together its requests, it gets at most
\* one answer too many (when the rest of a head or body is taken for a request
\* of its own), and that one says 400 and ends the connection.
SurplusEnds ==
    \/ Len(answers) <= Len(sent)
    \/ Len(answers) = Len(sent) + 1 /\ Last(answers) = Answer("bad", TRUE, 0)

=============================================================================
