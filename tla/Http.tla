------------------------------- MODULE Http -------------------------------
(***************************************************************************)
(* One connection between an HttpConnection (client) and HttpServer's      *)
(* handleClient() loop over an HttpSession, with the servlet dispatch and  *)
(* the writers and parsers of both messages.  The bytes arrive in pieces   *)
(* of any size.  Either side may also be a foreign peer that sends         *)
(* whatever it likes.                                                      *)
(***************************************************************************)
EXTENDS HttpParser

CONSTANTS
    Foreign,        \* which sides may be foreign: subset of {"none", "client", "server"}
    UsedMethods,    \* the methods the client uses
    Paths,
    Patterns,       \* the glob patterns, each as the set of paths it matches
    Servlets,       \* what a servlet answers: [status, body, close, throws]
    ClientPieces,   \* what a foreign client sends, as sequences of <<kind, n>>
    ServerPieces,   \* what a foreign server sends
    MaxRequests,    \* bound: requests on the connection
    MaxForeign,     \* bound: pieces a foreign peer sends
    MaxRoutes       \* bound: changes of the routing table

Servlet == [status: Nat, body: Nat, close: BOOLEAN, throws: BOOLEAN]

ASSUME HttpAssumption ==
    /\ Foreign \subseteq {"none", "client", "server"} /\ UsedMethods \subseteq Methods
    /\ Servlets \subseteq Servlet
    /\ \A piece \in ClientPieces \cup ServerPieces : piece \in Seq(LineKinds \X Int)
    /\ MaxRequests \in Nat /\ MaxForeign \in Nat /\ MaxRoutes \in Nat

VARIABLES
    foreign,        \* the side that is foreign in this behaviour
    toServer, toClient,    \* bytes on the wire
    sides,          \* the sides whose socket is open
    \* HttpConnection
    cpc, cin, method, reusable,
    requests,       \* requests sent
    answers,        \* what recvResponse() has returned
    \* HttpSession and handleClient()
    spc, sin, request, response,
    served,         \* requests the server has read
    keep,           \* keep_alive_
    \* ServletDispatch
    exact, globs, default, routes

client == <<cpc, cin, method, reusable, requests, answers>>
server == <<spc, sin, request, response, served>>
dispatch == <<exact, globs, default, routes, keep>>
httpVars == <<foreign, toServer, toClient, sides, client, server, dispatch>>

NotFound == [status |-> 404, body |-> 1, close |-> FALSE, throws |-> FALSE]
NoServlet == [status |-> 0, body |-> 0, close |-> FALSE, throws |-> FALSE]
NoRequest == [method |-> "none", id |-> 0, close |-> FALSE]
NoResponse == [status |-> 0, body |-> 0, close |-> FALSE]

HttpInit ==
    /\ foreign \in Foreign
    /\ toServer = <<>> /\ toClient = <<>> /\ sides = {"client", "server"}
    /\ cpc = IF foreign = "client" THEN "idle" ELSE "new"
    /\ cin = <<>> /\ method = "GET" /\ reusable = TRUE
    /\ requests = 0 /\ answers = <<>>
    /\ spc = "recv" /\ sin = <<>> /\ request = NoRequest /\ response = NoResponse
    /\ served = 0 /\ keep = TRUE
    /\ exact = [p \in Paths |-> NoServlet] /\ globs = <<>> /\ default = NotFound /\ routes = 0

-----------------------------------------------------------------------------
(* The messages as they are written. *)

Data(n, id) == [i \in 1..n |-> Token("data", 0, id)]

\* HttpRequest::dump()
RequestText(m, close, body, id) ==
    <<Token(m, 11, id), Token("connection", IF close THEN 1 ELSE 0, id)>>
        \o (IF body > 0 THEN <<Token("length", body, id)>> ELSE <<>>)
        \o <<Token("crlf", 0, id)>> \o Data(body, id)

\* ResponseAllowsBody()
AllowsBody(status) == status \notin 100..199 \cup {204, 304}

\* HttpResponse::dump()
ResponseText(r, id) ==
    <<Token("status", r.status, id), Token("connection", IF r.close THEN 1 ELSE 0, id)>>
        \o (IF AllowsBody(r.status) THEN <<Token("length", r.body, id)>> ELSE <<>>)
        \o <<Token("crlf", 0, id)>>
        \o (IF AllowsBody(r.status) THEN Data(r.body, id) ELSE <<>>)

\* SocketStream::read(): what is on the wire, in a piece of any size.
Read(wire, buffer, wire2, buffer2) ==
    \E k \in 1..Len(wire) : /\ buffer2 = buffer \o SubSeq(wire, 1, k)
                            /\ wire2 = SubSeq(wire, k + 1, Len(wire))

\* What can have arrived of the line t after what is in the buffer; the size of
\* a chunk may be followed by an extension of any length.
Beginnings(buffer, t) ==
    IF HeaderEnd(buffer) # 0 /\ t.k = "size" THEN {1, MaxHeader + 1} ELSE {1}

\* Stream::writeFixSize() that fails: some of the text has been sent.
Partial(text) == {SubSeq(text, 1, k) : k \in 0..(Len(text) - 1)}

Rest(buffer, r) == SubSeq(buffer, r.used + 1, Len(buffer))

Ids(buffer, r) == {buffer[i].id : i \in 1..r.used}

-----------------------------------------------------------------------------
(* HttpConnection *)

\* Socket::connect() closes the socket when it fails.
ConnectFails == sides' = {} /\ spc' = "done"

\* DoRequest(): the connection is made, or the host is not found, there is no
\* socket, or connect() fails.
Dial ==
    /\ cpc = "new" /\ cpc' = "idle"
    /\ \/ UNCHANGED <<reusable, answers, sides, spc>>
       \/ /\ answers' = Append(answers, [error |-> "CONNECT_FAIL", ids |-> {}])
          /\ reusable' = FALSE /\ ConnectFails
    /\ UNCHANGED <<foreign, toServer, toClient, cin, method, requests, sin, request, response,
                   served, dispatch>>

\* sendRequest() over a fresh connection, or one the pool takes for reusable.
SendRequest ==
    /\ foreign # "client" /\ cpc = "idle" /\ "client" \in sides /\ reusable
    /\ requests < MaxRequests
    /\ \E m \in UsedMethods, close \in BOOLEAN, body \in 0..1 :
          /\ m = "POST" <=> body = 1
          /\ method' = m
          /\ toServer' = toServer \o (IF "server" \in sides
                                      THEN RequestText(m, close, body, requests + 1) ELSE <<>>)
    /\ cpc' = "recv" /\ reusable' = FALSE /\ requests' = requests + 1
    /\ UNCHANGED <<foreign, toClient, sides, cin, answers, server, dispatch>>

\* Writing fails, because the server has gone or the timeout has passed: the
\* connection is closed.
SendRequestFails ==
    /\ foreign # "client" /\ cpc = "idle" /\ "client" \in sides /\ reusable
    /\ requests < MaxRequests
    /\ method' \in UsedMethods
    /\ \E part \in Partial(RequestText(method', FALSE, IF method' = "POST" THEN 1 ELSE 0,
                                       requests + 1)) :
          toServer' = toServer \o (IF "server" \in sides THEN part ELSE <<>>)
    /\ answers' = Append(answers, [error |-> "SEND_ERROR", ids |-> {}])
    /\ reusable' = FALSE /\ requests' = requests + 1 /\ sides' = sides \ {"client"}
    /\ UNCHANGED <<foreign, toClient, cpc, cin, server, dispatch>>

\* The call ends without a response and closes the connection.
ClientGivesUp(error) ==
    /\ answers' = Append(answers, [error |-> error, ids |-> {}])
    /\ cpc' = "idle" /\ reusable' = FALSE /\ sides' = sides \ {"client"}
    /\ UNCHANGED <<cin, method, requests>>

\* The peer has closed and everything it sent has been read.
ClientAtEof == toClient = <<>> /\ "server" \notin sides

Buffered == ParseResponse(cin, method, FALSE, 0)

\* 1xx, except a switch of protocols, announces another response.
IsInterim(status) == status \in 100..199 \ {101}

\* recvResponse(): the buffer holds a response or an error.
ClientParses ==
    /\ cpc = "recv" /\ cin # <<>> /\ (HasError(Buffered) \/ IsFinished(Buffered))
    /\ \/ HasError(Buffered) /\ ClientGivesUp("PARSE_ERROR")
       \/ LET r == Buffered
              status == r.msg.line.n
          IN /\ IsFinished(r)
             /\ cin' = Rest(cin, r)
             /\ \/ /\ IsInterim(status)
                   /\ UNCHANGED <<cpc, reusable, answers>>
                \/ /\ ~IsInterim(status)
                   /\ cpc' = "idle" /\ reusable' = (~r.msg.close /\ status # 101)
                   /\ answers' = Append(answers, [error |-> "OK", ids |-> Ids(cin, r)])
             /\ UNCHANGED <<method, requests, sides>>
    /\ UNCHANGED <<foreign, toServer, toClient, server, dispatch>>

\* There is not enough in the buffer, and more can be read.
ClientReads ==
    /\ cpc = "recv" /\ (cin = <<>> \/ Buffered = Incomplete)
    /\ Read(toClient, cin, toClient', cin')
    /\ UNCHANGED <<foreign, toServer, sides, cpc, method, reusable, requests, answers, server,
                   dispatch>>

\* Reading ends within a line that is too long already.
ClientReadsPart ==
    /\ cpc = "recv" /\ Buffered = Incomplete /\ toClient # <<>>
    /\ \E part \in Beginnings(cin, toClient[1]) :
          HasError(ParseResponse(cin, method, FALSE, part))
    /\ ClientGivesUp("PARSE_ERROR")
    /\ UNCHANGED <<foreign, toServer, toClient, server, dispatch>>

\* The peer has closed: a body that the end of the connection delimits is
\* complete, anything else fails.
ClientEof ==
    LET r == ParseResponse(cin, method, TRUE, 0) IN
    /\ cpc = "recv" /\ (cin = <<>> \/ Buffered = Incomplete) /\ ClientAtEof
    /\ IF cin # <<>> /\ IsFinished(r)
       THEN /\ answers' = Append(answers, [error |-> "OK", ids |-> Ids(cin, r)])
            /\ cin' = Rest(cin, r)
            /\ cpc' = "idle" /\ reusable' = FALSE /\ sides' = sides \ {"client"}
            /\ UNCHANGED <<method, requests>>
       ELSE ClientGivesUp("RECEIVE_CLOSE_BY_PEER")
    /\ UNCHANGED <<foreign, toServer, toClient, server, dispatch>>

\* The receive timeout.
ClientTimeout ==
    /\ cpc = "recv" /\ (cin = <<>> \/ Buffered = Incomplete) /\ toClient = <<>>
    /\ ClientGivesUp("TIMEOUT")
    /\ UNCHANGED <<foreign, toServer, toClient, server, dispatch>>

-----------------------------------------------------------------------------
(* HttpSession and HttpServer *)

CloseSession ==
    /\ spc' = "done" /\ sides' = sides \ {"server"}
    /\ UNCHANGED <<sin, request, response, served>>

SessionBuffered == ParseRequest(sin, 0)

\* recvRequest(): the buffer holds a request or an error.
ServerParses ==
    /\ spc = "recv" /\ sin # <<>> /\ (HasError(SessionBuffered) \/ IsFinished(SessionBuffered))
    /\ \/ HasError(SessionBuffered) /\ CloseSession
       \/ LET r == SessionBuffered
          IN /\ IsFinished(r)
             /\ sin' = Rest(sin, r)
             /\ request' = [method |-> r.msg.line.k, id |-> r.msg.line.id, close |-> r.msg.close]
             /\ spc' = "handle" /\ served' = served + 1
             /\ UNCHANGED <<response, sides>>
    /\ UNCHANGED <<foreign, toServer, toClient, client, dispatch>>

ServerReads ==
    /\ spc = "recv" /\ (sin = <<>> \/ SessionBuffered = Incomplete)
    /\ Read(toServer, sin, toServer', sin')
    /\ UNCHANGED <<foreign, toClient, sides, client, spc, request, response, served, dispatch>>

\* Reading ends within a line that is too long already.
ServerReadsPart ==
    /\ spc = "recv" /\ SessionBuffered = Incomplete /\ toServer # <<>>
    /\ \E part \in Beginnings(sin, toServer[1]) : HasError(ParseRequest(sin, part))
    /\ CloseSession
    /\ UNCHANGED <<foreign, toServer, toClient, client, dispatch>>

\* The client has closed, or the receive timeout has passed.
ServerCloses ==
    /\ spc = "recv" /\ (sin = <<>> \/ SessionBuffered = Incomplete) /\ toServer = <<>>
    /\ CloseSession
    /\ UNCHANGED <<foreign, toServer, toClient, client, dispatch>>

\* getMatchedServlet(): the exact route, the first glob that matches, the
\* default servlet.
Matched(p) ==
    LET Hit == {i \in DOMAIN globs : p \in globs[i].pattern}
    IN IF exact[p] # NoServlet THEN exact[p]
       ELSE IF Hit # {} THEN globs[SetMin(Hit)].servlet ELSE default

\* Mutant: the servlet's body stays in the answer to a HEAD request.
BodyKept(m, body) == body

\* The body that is sent: none for HEAD.
Body(m, body) == IF m = "HEAD" THEN 0 ELSE body

\* handleClient(): the servlet fills the response; an exception, or no servlet
\* at all, becomes a 500.
Handle ==
    /\ spc = "handle"
    /\ \E p \in Paths :
          LET s == Matched(p)
              r == IF s.throws \/ s = NoServlet THEN [s EXCEPT !.status = 500, !.body = 1] ELSE s
              close == r.close \/ request.close \/ ~keep
          IN response' = [status |-> r.status, close |-> close,
                          body |-> Body(request.method, r.body)]
    /\ spc' = "send"
    /\ UNCHANGED <<foreign, toServer, toClient, sides, client, sin, request, served, dispatch>>

\* sendResponse(), then the next request or the end of the session.
SendResponse ==
    /\ spc = "send"
    /\ toClient' = toClient \o ResponseText(response, request.id)
    /\ IF response.close THEN CloseSession
       ELSE spc' = "recv" /\ UNCHANGED <<sides, sin, request, response, served>>
    /\ UNCHANGED <<foreign, toServer, client, dispatch>>

\* Sending fails, because the client has gone or the timeout has passed.
SendFails ==
    /\ spc = "send"
    /\ \E part \in Partial(ResponseText(response, request.id)) : toClient' = toClient \o part
    /\ CloseSession
    /\ UNCHANGED <<foreign, toServer, client, dispatch>>

-----------------------------------------------------------------------------
(* ServletDispatch: the routes change while requests are handled. *)

Change == routes < MaxRoutes /\ routes' = routes + 1

AddServlet ==
    /\ Change
    /\ \E p \in Paths, s \in Servlets : exact' = [exact EXCEPT ![p] = s]
    /\ UNCHANGED <<globs, default, keep, foreign, toServer, toClient, sides, client, server>>

DelServlet ==
    /\ Change
    /\ \E p \in Paths : exact[p] # NoServlet /\ exact' = [exact EXCEPT ![p] = NoServlet]
    /\ UNCHANGED <<globs, default, keep, foreign, toServer, toClient, sides, client, server>>

\* delGlobServlet(): the first route with this pattern is erased.
Without(pattern) ==
    LET Found == {i \in DOMAIN globs : globs[i].pattern = pattern}
        i == SetMin(Found)
    IN IF Found = {} THEN globs ELSE SubSeq(globs, 1, i - 1) \o SubSeq(globs, i + 1, Len(globs))

\* addGlobServlet(): a pattern that is there already moves to the end.
AddGlob ==
    /\ Change
    /\ \E g \in Patterns, s \in Servlets :
          globs' = Append(Without(g), [pattern |-> g, servlet |-> s])
    /\ UNCHANGED <<exact, default, keep, foreign, toServer, toClient, sides, client, server>>

DelGlob ==
    /\ Change
    /\ \E g \in Patterns : Without(g) # globs /\ globs' = Without(g)
    /\ UNCHANGED <<exact, default, keep, foreign, toServer, toClient, sides, client, server>>

\* setDefault(), also to no servlet; setName() of the server resets it to a
\* NotFoundServlet.
SetDefault ==
    /\ Change
    /\ default' \in Servlets \cup {NotFound, NoServlet}
    /\ UNCHANGED <<exact, globs, keep, foreign, toServer, toClient, sides, client, server>>

\* setServletDispatch() of the server: a new table.
SetServletDispatch ==
    /\ Change
    /\ exact' = [p \in Paths |-> NoServlet] /\ globs' = <<>> /\ default' = NotFound
    /\ UNCHANGED <<keep, foreign, toServer, toClient, sides, client, server>>

SetKeepAlive ==
    /\ Change
    /\ keep' = ~keep
    /\ UNCHANGED <<exact, globs, default, foreign, toServer, toClient, sides, client, server>>

-----------------------------------------------------------------------------
(* A foreign peer sends a piece when the one before has been read. *)

Marked(piece) == [i \in DOMAIN piece |-> Token(piece[i][1], piece[i][2], 0)]

ForeignSends ==
    /\ foreign \in sides
    /\ \/ /\ foreign = "client" /\ requests < MaxForeign /\ spc = "recv" /\ toServer = <<>>
          /\ \E piece \in ClientPieces : toServer' = Marked(piece)
          /\ requests' = requests + 1 /\ UNCHANGED <<toClient, served>>
       \/ /\ foreign = "server" /\ served < MaxForeign /\ cpc = "recv" /\ toClient = <<>>
          /\ \E piece \in ServerPieces : toClient' = Marked(piece)
          /\ served' = served + 1 /\ UNCHANGED <<toServer, requests>>
    /\ UNCHANGED <<foreign, sides, cpc, cin, method, reusable, answers, spc, sin, request,
                   response, dispatch>>

ForeignCloses ==
    /\ foreign \in sides
    /\ sides' = sides \ {foreign}
    /\ UNCHANGED <<foreign, toServer, toClient, client, server, dispatch>>

-----------------------------------------------------------------------------

ClientStep == foreign # "client" /\ (ClientParses \/ ClientReads \/ ClientEof)
ServerStep == foreign # "server" /\ (ServerParses \/ ServerReads \/ Handle \/ SendResponse)
Routing == foreign = "none" /\ (\/ AddServlet \/ DelServlet \/ AddGlob \/ DelGlob
                                 \/ SetDefault \/ SetServletDispatch \/ SetKeepAlive)

HttpNext ==
    \/ Dial \/ SendRequest \/ SendRequestFails
    \/ ClientStep \/ (foreign # "client" /\ (ClientReadsPart \/ ClientTimeout))
    \/ ServerStep \/ (foreign # "server" /\ (ServerReadsPart \/ ServerCloses \/ SendFails))
    \/ Routing \/ ForeignSends \/ ForeignCloses

HttpSpec == HttpInit /\ [][HttpNext]_httpVars

\* Both sides go on with what they have; nobody is obliged to send a request,
\* and no timeout has to pass.
HttpFairSpec == HttpSpec /\ WF_httpVars(ClientStep) /\ WF_httpVars(ServerStep)

-----------------------------------------------------------------------------
(* Properties. *)

\* HttpResult::Error, with one value for both ways a write fails.
Outcomes == {"OK", "CONNECT_FAIL", "SEND_ERROR", "PARSE_ERROR", "RECEIVE_CLOSE_BY_PEER", "TIMEOUT"}

HttpTypeOK ==
    /\ foreign \in Foreign /\ sides \subseteq {"client", "server"}
    /\ toServer \in Seq(Tokens) /\ toClient \in Seq(Tokens)
    /\ cpc \in {"new", "idle", "recv"} /\ cin \in Seq(Tokens)
    /\ method \in UsedMethods \cup {"GET"} /\ reusable \in BOOLEAN
    /\ requests \in Nat /\ answers \in Seq([error: Outcomes, ids: SUBSET Nat])
    /\ spc \in {"recv", "handle", "send", "done"} /\ sin \in Seq(Tokens)
    /\ request \in [method: LineKinds \cup {"none"}, id: Nat, close: BOOLEAN]
    /\ response \in [status: Nat, body: Nat, close: BOOLEAN]
    /\ served \in Nat /\ keep \in BOOLEAN /\ routes \in 0..MaxRoutes
    /\ exact \in [Paths -> Servlet] /\ default \in Servlet
    /\ globs \in Seq([pattern: Patterns, servlet: Servlet])

\* The n-th call on a connection returns the answer to the n-th request and no
\* byte of another message, and a connection that goes back to the pool as
\* reusable has nothing left to read, which the next call would take for its
\* answer: keep-alive, HEAD, empty bodies, closing and the way the bytes are
\* cut never make the two sides disagree about where a message ends.
InStep ==
    foreign = "none" =>
        /\ \A n \in DOMAIN answers : answers[n].error = "OK" => answers[n].ids = {n}
        /\ cpc = "idle" /\ reusable => cin = <<>> /\ toClient = <<>>

\* The first k tokens of the buffer and the parts of the next that a read can
\* end with.
Cuts(buffer) ==
    {cut \in (0..(Len(buffer) - 1)) \X {0, 1, MaxHeader + 1} :
        cut[2] = 0 \/ cut[2] \in Beginnings(SubSeq(buffer, 1, cut[1]), buffer[cut[1] + 1])}

\* The limits on what follows the header section of a response bound the bytes
\* of an incomplete line of a chunk size, which they do not bound once it is
\* complete, and count the CR of the empty line after the trailers, which they
\* do not count once its LF is there.
TooLongForNow(s, part, r) ==
    part > 0 /\ HeaderEnd(s) # 0 /\ r = Error("HEADER_TOO_LARGE")

\* What a parser makes of the buffer does not depend on how the bytes were
\* cut: a verdict on the first bytes, that of a cut within a line included, is
\* the verdict on all of them.  The one thing that does depend on the cut is
\* TooLongForNow.
CutsDoNotMatter ==
    /\ \A cut \in Cuts(sin) :
          LET r == ParseRequest(SubSeq(sin, 1, cut[1]), cut[2])
          IN r # Incomplete => ParseRequest(sin, 0) = r
    /\ \A cut \in Cuts(cin) :
          LET s == SubSeq(cin, 1, cut[1])
              r == ParseResponse(s, method, FALSE, cut[2])
          IN r # Incomplete => \/ ParseResponse(cin, method, FALSE, 0) = r
                              \/ TooLongForNow(s, cut[2], r)

\* Two droplet peers never wait for each other: a call that has sent its
\* request comes back without the help of a timeout.
CallReturns == (foreign = "none" /\ cpc = "recv") ~> cpc = "idle"
=============================================================================
