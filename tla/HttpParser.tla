---------------------------- MODULE HttpParser ----------------------------
(***************************************************************************)
(* HttpRequestParser and HttpResponseParser as functions of the bytes that *)
(* are buffered: the parsers keep nothing between two calls that did not   *)
(* finish, each call looks at the whole buffer again.                      *)
(*                                                                         *)
(* A buffer is a sequence of tokens, each a line with its CRLF, and a part *)
(* of a line that has not arrived in full: the searches for a CRLF do not  *)
(* find it, but its bytes count where the parser bounds what it waits for. *)
(* part is the size of that part in tokens, 0 if there is none; it is 1    *)
(* for the beginning of any line, a lone CR included, and more only where  *)
(* a single line may be longer than the limits.                            *)
(*                                                                         *)
(* "crlf" is the empty line, "data" a unit of a body; where the parser     *)
(* looks for a line, a unit is a line that is neither a header nor a chunk *)
(* size.  The kind says what the text checks of the parser make of the     *)
(* line (a bad method, a line that is no header), n is its number, id      *)
(* marks the message the sender meant it for and is never looked at.       *)
(***************************************************************************)
EXTENDS Integers, Sequences

CONSTANTS
    MaxHeader,   \* kMaxHeaderSize, in tokens
    MaxBody      \* kMaxBodySize, in tokens

ASSUME LimitsAssumption == MaxHeader \in Nat /\ MaxBody \in Nat

Methods == {"GET", "HEAD", "POST", "CONNECT"}

HeaderKinds == {"length", "encoding", "connection", "other"}

LineKinds ==
    Methods \cup HeaderKinds \cup {"status", "status10", "unknown", "size", "crlf", "data"}

Tokens == [k: LineKinds, n: Int, id: Nat]
Token(k, n, id) == [k |-> k, n |-> n, id |-> id]

\* What a call of execute() finds out.  close is what initConnection() sets,
\* from and upto are the body.
NoMessage  == [line |-> Token("none", 0, 0), close |-> FALSE, from |-> 1, upto |-> 0]
Incomplete == [error |-> "NONE", used |-> 0, msg |-> NoMessage]
Error(e)   == [error |-> e, used |-> 0, msg |-> NoMessage]
Finished(u, m) == [error |-> "NONE", used |-> u, msg |-> m]

IsFinished(r) == r.used > 0
HasError(r)   == r.error # "NONE"

SetMin(S) == CHOOSE x \in S : \A y \in S : x <= y

-----------------------------------------------------------------------------
(* The header section. *)

\* find("\r\n\r\n"): the empty line that ends it, 0 if it is not there.
HeaderEnd(in) ==
    LET E == {i \in 2..Len(in) : in[i].k = "crlf"}
    IN IF E = {} THEN 0 ELSE SetMin(E)

\* Mutant: the limit is not looked at once the section is complete.
HeaderTooLargeLate(in, e, part) == e = 0 /\ Len(in) + part > MaxHeader

\* The section must fit whether it is complete or not.
HeaderTooLarge(in, e, part) == (IF e = 0 THEN Len(in) + part ELSE e) > MaxHeader

\* The header lines, by name.
Lines(in, e, k) == {i \in 2..(e - 1) : in[i].k = k}

\* A second or unreadable Content-Length, and lines that are no headers.
BadLength(in, e) ==
    {i \in Lines(in, e, "length") : in[i].n < 0 \/ \E j \in Lines(in, e, "length") : j < i}
BadLine(in, e) ==
    {i \in 2..(e - 1) : in[i].k \notin HeaderKinds}

\* The error of the first line that has one; refused are lines that are
\* headers the parser does not accept at all.
HeaderError(in, e, refused) ==
    LET Bad == BadLength(in, e) \cup BadLine(in, e) \cup refused
        i   == SetMin(Bad)
    IN IF Bad = {} THEN "NONE"
       ELSE IF i \in refused THEN "UNSUPPORTED_TRANSFER_ENCODING"
       ELSE IF i \in BadLength(in, e) THEN "INVALID_CONTENT_LENGTH"
       ELSE "INVALID_HEADER"

ContentLength(in, e) ==
    IF Lines(in, e, "length") = {} THEN 0 ELSE in[SetMin(Lines(in, e, "length"))].n

-----------------------------------------------------------------------------
(* HttpRequestParser::parse() *)

RequestLineError(t) ==
    CASE t.k \in Methods      -> IF t.n \in {10, 11} THEN "NONE" ELSE "INVALID_VERSION"
      [] t.k = "unknown"      -> "INVALID_METHOD"
      [] OTHER                -> "INVALID_REQUEST_TARGET"

\* HttpRequest::initConnection(): a header that occurs twice has its last value.
RequestCloses(in, e) ==
    LET C == Lines(in, e, "connection")
    IN IF C = {} THEN in[1].n = 10
       ELSE \E i \in C : in[i].n = 1 /\ \A j \in C : j <= i

ParseRequest(in, part) ==
    LET e == HeaderEnd(in)
        n == ContentLength(in, e)
        headers == HeaderError(in, e, Lines(in, e, "encoding"))
    IN IF HeaderTooLarge(in, e, part) THEN Error("HEADER_TOO_LARGE")
       ELSE IF e = 0 THEN Incomplete
       ELSE IF RequestLineError(in[1]) # "NONE" THEN Error(RequestLineError(in[1]))
       ELSE IF headers # "NONE" THEN Error(headers)
       ELSE IF n > MaxBody THEN Error("BODY_TOO_LARGE")
       ELSE IF Len(in) < e + n THEN Incomplete
       ELSE Finished(e + n, [line |-> in[1], close |-> RequestCloses(in, e),
                             from |-> e + 1, upto |-> e + n])

-----------------------------------------------------------------------------
(* HttpResponseParser::parse() *)

StatusLineError(t) ==
    CASE t.k \in {"status", "status10"} -> IF t.n \in 100..999 THEN "NONE" ELSE "INVALID_STATUS"
      [] t.k = "unknown"                -> "INVALID_VERSION"
      [] OTHER                          -> "INVALID_STATUS"

\* HttpResponse::initConnection(): the values are joined, close goes first.
ResponseCloses(in, e) ==
    LET C == {in[i].n : i \in Lines(in, e, "connection")}
    IN 1 \in C \/ (C = {} /\ in[1].k = "status10")

\* The final coding, and no other, is chunked.
FinalChunked(in, T) == \A i \in T : in[i].n = 1 <=> \A j \in T : j <= i

\* Mutant: only the method is looked at.
ResponseHasNoBodyByMethod(method, status) == method = "HEAD"

ResponseHasNoBody(method, status) ==
    \/ method = "HEAD"
    \/ method = "CONNECT" /\ status \in 200..299
    \/ status \in 100..199 \cup {204, 304}

\* The trailers after the last chunk, from b: headers up to an empty line.  What
\* has arrived of an incomplete section counts in full, of a complete one all
\* but the empty line.  A Connection among them replaces that of the header
\* section.
Trailers(in, b, m, part) ==
    LET Closing(i) == {j \in b..(i - 1) : in[j].k = "connection"}
        Stop == {i \in b..Len(in) : \/ in[i].k \notin HeaderKinds
                                    \/ i - b > MaxHeader}
        i == SetMin(Stop)
    IN IF Stop = {}
       THEN IF Len(in) - b + 1 + part > MaxHeader THEN Error("HEADER_TOO_LARGE") ELSE Incomplete
       ELSE IF i - b > MaxHeader THEN Error("HEADER_TOO_LARGE")
       ELSE IF in[i].k # "crlf" THEN Error("INVALID_HEADER")
       ELSE IF Closing(i) = {} THEN Finished(i, m)
       ELSE Finished(i, [m EXCEPT !.close =
                 \E j \in Closing(i) : in[j].n = 1 /\ \A l \in Closing(i) : l <= j])

\* ParseChunkSize(): extensions are dropped, the rest must be a number.
IsChunkSize(t) == t.k = "size" /\ t.n >= 0

\* The chunks after the header end e.  chunk[<<p, b>>]: the parser is at p and
\* has b units of body.  A line with a size is bounded only while it has not
\* arrived in full.
Chunks(in, e, m, part) ==
    LET chunk[x \in (1..(Len(in) + 1)) \X (0..MaxBody)] ==
            LET p == x[1]
                n == in[p].n
            IN IF p > Len(in)
               THEN IF part > MaxHeader THEN Error("HEADER_TOO_LARGE") ELSE Incomplete
               ELSE IF ~IsChunkSize(in[p]) THEN Error("INVALID_CHUNK_SIZE")
               ELSE IF n = 0 THEN Trailers(in, p + 1, [m EXCEPT !.upto = p], part)
               ELSE IF n > MaxBody - x[2] THEN Error("BODY_TOO_LARGE")
               ELSE IF Len(in) < p + n + 1 THEN Incomplete
               ELSE IF in[p + n + 1].k # "crlf" THEN Error("INVALID_CHUNK_SIZE")
               ELSE chunk[<<p + n + 2, x[2] + n>>]
    IN chunk[<<e + 1, 0>>]

\* A body of the length the header gives.
SizedBody(in, e, n, m) ==
    IF Len(in) < e + n THEN Incomplete ELSE Finished(e + n, [m EXCEPT !.upto = e + n])

\* A body that ends with the connection.
CloseDelimited(in, e, m, eof) ==
    IF Len(in) - e > MaxBody THEN Error("BODY_TOO_LARGE")
    ELSE IF ~eof THEN Incomplete
    ELSE Finished(Len(in), [m EXCEPT !.close = TRUE, !.upto = Len(in)])

ParseResponse(in, method, eof, part) ==
    LET e == HeaderEnd(in)
        n == ContentLength(in, e)
        T == Lines(in, e, "encoding")
        headers == HeaderError(in, e, {})
        m == [line |-> in[1], close |-> ResponseCloses(in, e), from |-> e + 1, upto |-> e]
    IN IF HeaderTooLarge(in, e, part) THEN Error("HEADER_TOO_LARGE")
       ELSE IF e = 0 THEN Incomplete
       ELSE IF StatusLineError(in[1]) # "NONE" THEN Error(StatusLineError(in[1]))
       ELSE IF headers # "NONE" THEN Error(headers)
       ELSE IF T # {} /\ Lines(in, e, "length") # {} THEN Error("INVALID_CONTENT_LENGTH")
       ELSE IF n > MaxBody THEN Error("BODY_TOO_LARGE")
       ELSE IF ResponseHasNoBody(method, in[1].n) THEN Finished(e, m)
       ELSE IF T # {}
       THEN IF FinalChunked(in, T) THEN Chunks(in, e, m, part)
            ELSE Error("UNSUPPORTED_TRANSFER_ENCODING")
       ELSE IF Lines(in, e, "length") # {} THEN SizedBody(in, e, n, m)
       ELSE CloseDelimited(in, e, m, eof)
=============================================================================
