----------------------------- MODULE Connection -----------------------------
(***************************************************************************)
(* One connection of the legacy service's web server, from accept to       *)
(* close_connection (civetweb.c): reading a request header into the        *)
(* connection's buffer, finding the handler's way through handle_request,  *)
(* giving the handler the request's content, plain or chunked, answering   *)
(* it, and deciding whether the same connection serves another one.  How an*)
(* answer is written, and the limit on its rate, are the module Throttle.  *)
(*                                                                         *)
(* The client's bytes are a stream of tokens: "G" is a request line, "h" a *)
(* header line (both with their line end), "e" an empty line, "d" a chunk  *)
(* size, "b" and all others payload.  What is read is remembered as        *)
(* positions of the stream, so that a byte delivered twice, out of order   *)
(* or to the wrong request can be told apart.  A call that waits for the   *)
(* client has a SET of results: the client may send any part of what it    *)
(* still has to send, stay silent past the time limit, break the           *)
(* connection, or the server may be stopped.                               *)
(***************************************************************************)
EXTENDS Integers, Sequences, FiniteSets, SequencesExt

CONSTANTS
    Cases,       \* connections to be looked at: [script, pipelined, config, faults]
    BufSize,     \* conn->buf_size, in tokens
    MaxHeaders,  \* MG_MAX_HEADERS
    ReadSizes,   \* the sizes a handler reads in
    Int64Max     \* INT64_MAX: more than any content has

\* A URI: how it starts, whether all its characters are allowed, and for one that names a server the
\* labels of its name, the port behind it, whether a path follows and whether that has a colon.
Uris == [start: STRING, clean: BOOLEAN, host: Seq(STRING), port: Nat, path: BOOLEAN, colon: BOOLEAN]

\* How a message announces its content, or fails to; in one way, and a length that is given is the
\* content's.
Framings == {"none", "length", "negative", "unparsable", "chunked", "miscounted"}

\* A message: empty lines in front, a request line of some words, header lines, an empty line and the
\* content, in chunks.  The headers the server looks for are fields of it.
Messages ==
    [blanks: Nat, lines: Nat, words: Nat, method: STRING, version: STRING, uri: Uris,
     wish: STRING, framing: Framings, host: STRING, form: STRING, query: Seq(STRING),
     content: Seq(Seq(STRING))]

HasBody == {"POST", "PUT", "CONNECT", "PATCH", "REPORT"}
Methods == HasBody \cup {"GET", "DELETE", "HEAD", "OPTIONS", "PROPFIND", "MKCOL"}
ValidPorts == 1..65535
Faults == {"late", "broken", "stopped"}

Settings ==
    [keep_alive: BOOLEAN, cors: BOOLEAN, redirect: BOOLEAN, https: BOOLEAN, port: ValidPorts,
     domain: Seq(STRING), domain_check: BOOLEAN]

\* The size that stands before a chunk; a miscounting client announces one byte too few.
ChunkSize(msg, i) == Len(msg.content[i]) - (IF msg.framing = "miscounted" THEN 1 ELSE 0)

\* Clients send no chunk of size 0 but the last, and no content they do not announce with a method
\* that has none.
ASSUME ConnectionAssumption ==
    /\ BufSize \in Nat \ {0} /\ ReadSizes \subseteq Nat \ {0}
    /\ Int64Max \in Nat /\ MaxHeaders \in Nat
    /\ Cases \subseteq [script: Seq(Messages), pipelined: BOOLEAN, config: Settings, faults: SUBSET Faults]
    /\ \A k \in Cases : \A m \in 1..Len(k.script) :
          /\ \A i \in 1..Len(k.script[m].content) : ChunkSize(k.script[m], i) > 0
          /\ k.script[m].framing = "none" /\ k.script[m].method \notin HasBody =>
                k.script[m].content = << >>

VARIABLES
    stream,      \* what this client sends
    pipelined,   \* the client does not wait for an answer before its next message
    config,      \* the options, and the port the client has connected to
    faults,      \* what may interrupt this connection
    conn,        \* struct mg_connection, what the socket holds, and stop_flag
    pc,          \* "ready", "dispatch", "handler", "tail", "closed"
    delivered,   \* what mg_read has given the handler of this request
    last_read,   \* what mg_read returned last
    announced    \* the Connection header of the answer, "" before there is one

vars == <<stream, pipelined, config, faults, conn, pc, delivered, last_read, announced>>
setup == <<stream, pipelined, config, faults>>

(***************************************************************************)
(* The client's stream.                                                    *)
(***************************************************************************)
Token(m, t, data) == [t |-> t, m |-> m, data |-> data, n |-> 0, request |-> {}]

Payload(m, chunk) == [i \in 1..Len(chunk) |-> Token(m, chunk[i], TRUE)]

Chunk(m, chunk, size) ==
    <<[Token(m, "d", FALSE) EXCEPT !.n = size], Token(m, "e", FALSE)>>
        \o Payload(m, chunk) \o <<Token(m, "e", FALSE)>>

ContentTokens(m, msg) ==
    IF msg.framing \in {"chunked", "miscounted"}
    THEN FlattenSeq([i \in 1..Len(msg.content) |-> Chunk(m, msg.content[i], ChunkSize(msg, i))])
         \o Chunk(m, << >>, 0)
    ELSE Payload(m, FlattenSeq(msg.content))

MessageTokens(m, msg) ==
    [i \in 1..msg.blanks |-> Token(m, "e", FALSE)]
    \o <<[Token(m, "G", FALSE) EXCEPT !.request = {msg}]>>
    \o [i \in 1..msg.lines |-> Token(m, "h", FALSE)]
    \o <<Token(m, "e", FALSE)>> \o ContentTokens(m, msg)

Stream(script) == FlattenSeq([m \in 1..Len(script) |-> MessageTokens(m, script[m])])

NoPort == 0

\* The token at a position; position 0 is memory nobody wrote to.
Junk == Token(0, "z", FALSE)
At(p) == IF p = 0 THEN Junk ELSE stream[p]

\* The length of the stream up to the end of message m.
Sent(m) == Cardinality({p \in 1..Len(stream) : stream[p].m <= m})

\* Where the content of message m stands in the stream, up to a position of it.
ContentUpTo(m) ==
    LET upto[p \in 0..Len(stream)] ==
            IF p = 0 THEN << >>
            ELSE IF stream[p].m = m /\ stream[p].data THEN Append(upto[p - 1], p) ELSE upto[p - 1]
    IN  upto

Content(m) == ContentUpTo(m)[Len(stream)]

Smaller(a, b) == IF a <= b THEN a ELSE b
Higher(a, b) == IF a >= b THEN a ELSE b

\* What has been sent and not yet received.
Waiting(c) ==
    LET last == IF pipelined THEN Len(stream)
                ELSE Sent(c.handled_requests + 1)
    IN  last - c.received

Received(c, k) == [i \in 1..k |-> c.received + i]

(***************************************************************************)
(* Reading from the socket.                                                *)
(***************************************************************************)
\* What may keep recv from giving more than k bytes; a client that has no more to send at least
\* stays silent or closes.
Interruptions(c, k) ==
    IF c.stopped THEN {"stopped"} ELSE IF c.broken THEN {"broken"}
    ELSE faults \cup (IF k = Waiting(c) THEN {"late", "broken"} ELSE {})

After(c, why, k) ==
    [c EXCEPT !.received = @ + k, !.broken = @ \/ why = "broken",
              !.stopped = @ \/ why = "stopped", !.late = @ \/ why = "late"]

\* pull_inner, repeated until len bytes are there or something intervenes: [n, data, c].
pull_all(c, len) ==
    IF len = 0 \/ c.stopped THEN {[n |-> 0, data |-> << >>, c |-> c]}
    ELSE LET whole == IF len <= Waiting(c) /\ ~c.broken
                      THEN {[n |-> len, data |-> Received(c, len),
                             c |-> [c EXCEPT !.received = @ + len, !.consumed_content = @ + len]]}
                      ELSE {}
             part(k, why) ==
                 [n |-> IF k = 0 /\ why # "late" THEN -1 ELSE k, data |-> Received(c, k),
                  c |-> [After(c, why, k) EXCEPT !.consumed_content = @ + k]]
             most == IF c.broken THEN 0 ELSE Smaller(len - 1, Waiting(c))
         IN  whole \cup UNION {{part(k, why) : why \in Interruptions(c, k)} : k \in 0..most}

\* Mutant of mg_read_inner: a second read starts at the beginning of the content again.
mg_read_inner_again(c, len) ==
    LET want == Smaller(len, c.content_len - c.consumed_content)
        have == Higher(0, Smaller(want, c.data_len - c.request_len))
    IN  {[n |-> IF r.n >= 0 THEN have + r.n ELSE have,
          data |-> SubSeq(c.buf, c.request_len + 1, c.request_len + have) \o r.data, c |-> r.c] :
            r \in pull_all([c EXCEPT !.consumed_content = @ + have], Higher(0, want - have))}

\* Content of known or unknown length; what the buffer holds of it first.
mg_read_inner(c, len) ==
    LET first == c.consumed_content = 0
        c1 == IF first /\ c.is_chunked = 1
              THEN [c EXCEPT !.content_len = len, !.is_chunked = 2]
              ELSE IF first /\ c.content_len = -1
              THEN [c EXCEPT !.content_len = Int64Max, !.must_close = TRUE]
              ELSE c
        want == Smaller(len, c1.content_len - c1.consumed_content)
        buffered == Smaller(want, c1.data_len - c1.request_len - c1.consumed_content)
        have == IF buffered > 0 THEN buffered ELSE 0
        body == SubSeq(c1.buf, c1.request_len + c1.consumed_content + 1,
                       c1.request_len + c1.consumed_content + have)
    IN  IF c1.consumed_content >= c1.content_len THEN {[n |-> 0, data |-> << >>, c |-> c1]}
        ELSE {[n |-> IF r.n >= 0 THEN have + r.n ELSE IF have > 0 THEN have ELSE r.n,
               data |-> body \o r.data, c |-> r.c] :
                 r \in pull_all([c1 EXCEPT !.consumed_content = @ + have], want - have)}

mg_getc(c) == mg_read_inner([c EXCEPT !.content_len = @ + 1], 1)

\* The byte mg_getc returned; 0 when nothing could be read.
Got(r, t) == r.n = 1 /\ At(r.data[1]).t = t

\* The line end after a chunk; where it is something else, that and one byte more are gone.
ChunkEnds(c) ==
    UNION {IF Got(r, "e") THEN {[ok |-> TRUE, c |-> r.c]}
           ELSE {[ok |-> FALSE, c |-> x.c] : x \in mg_getc(r.c)} : r \in mg_getc(c)}

\* A chunk's size line: [ok, n, c].
ChunkBegins(c) ==
    UNION {IF ~Got(d, "d") THEN {[ok |-> FALSE, n |-> 0, c |-> d.c]}
           ELSE {[ok |-> Got(e, "e"), n |-> At(d.data[1]).n, c |-> e.c] : e \in mg_getc(d.c)} :
              d \in mg_getc(c)}

\* The loop of mg_read: what it has given, [n, data, c], and how much more is wanted of it, 0 when it
\* has returned.
Misframed(c) == {[n |-> -1, data |-> << >>, c |-> [c EXCEPT !.misframed = TRUE], more |-> 0]}

\* More of the current chunk, and its line end when that was all of it.
ReadData(r) ==
    LET now == Smaller(r.c.chunk_remainder, r.more)
        given(d, c) == {[n |-> r.n + d.n, data |-> r.data \o d.data, c |-> c, more |-> r.more - d.n]}
        Left(d) == [d.c EXCEPT !.chunk_remainder = @ - d.n]
    IN  UNION {IF d.n < 1 THEN Misframed(d.c)
               ELSE IF Left(d).chunk_remainder > 0 THEN given(d, Left(d))
               ELSE UNION {IF e.ok THEN given(d, e.c) ELSE Misframed(e.c) : e \in ChunkEnds(Left(d))} :
                  d \in mg_read_inner([r.c EXCEPT !.content_len = @ + now], now)}

\* The size of the next chunk; after size 0 there is none.
ReadSize(r) ==
    UNION {IF ~b.ok THEN Misframed(b.c)
           ELSE IF b.n = 0 THEN {[r EXCEPT !.c = [b.c EXCEPT !.is_chunked = 3], !.more = 0]}
           ELSE {[r EXCEPT !.c = [b.c EXCEPT !.chunk_remainder = b.n]]} : b \in ChunkBegins(r.c)}

ChunkTurn(r) ==
    IF r.more = 0 THEN {r}
    ELSE IF r.c.is_chunked = 3 THEN {[r EXCEPT !.n = 0, !.data = << >>, !.more = 0]}
    ELSE IF r.c.chunk_remainder > 0 THEN ReadData(r) ELSE ReadSize(r)

\* A size is read at most once before some of the len tokens are.
ReadChunks(c, len) ==
    LET turn[k \in 0..2 * len + 1] ==
            IF k = 0 THEN {[n |-> 0, data |-> << >>, c |-> c, more |-> len]}
            ELSE UNION {ChunkTurn(r) : r \in turn[k - 1]}
    IN  {r \in turn[2 * len + 1] : r.more = 0}

mg_read(c, len) ==
    IF c.is_chunked # 0 THEN ReadChunks(c, len) ELSE mg_read_inner(c, len)

\* Mutant of discard_unread_request_data: chunks are left where they are.
discard_plain(c) ==
    IF c.is_chunked # 0 THEN {c}
    ELSE {r.c : r \in mg_read(c, Higher(0, c.content_len - c.consumed_content))}

ContentRead(c) == (c.is_chunked = 0 /\ c.consumed_content >= c.content_len) \/ c.is_chunked = 3

\* Reads on until the content has been read or a read gives nothing: then there is no more.
DiscardTurn(d) ==
    IF ~d.more \/ ContentRead(d.c) THEN {[d EXCEPT !.more = FALSE]}
    ELSE {[c |-> r.c, more |-> r.n > 0] :
            r \in mg_read(d.c, IF d.c.is_chunked = 0 THEN d.c.content_len - d.c.consumed_content
                               ELSE Len(stream))}

discard_unread_request_data(c) ==
    LET turn[k \in 0..Len(stream) + 2] ==
            IF k = 0 THEN {[c |-> c, more |-> TRUE]}
            ELSE UNION {DiscardTurn(d) : d \in turn[k - 1]}
    IN  {d.c : d \in {d \in turn[Len(stream) + 2] : ~d.more}}

(***************************************************************************)
(* Reading and parsing a request header.                                   *)
(***************************************************************************)
LineEnds == {"G", "h", "e"}

Least(S) == CHOOSE i \in S : \A j \in S : i <= j

\* -1: a byte that no header may hold; 0: not complete; else its length.
get_http_header_len(buf, len) ==
    LET bad == {i \in 1..len : At(buf[i]).t = "z"}
        end == {i \in 2..len : At(buf[i]).t = "e" /\ At(buf[i - 1]).t \in LineEnds}
    IN  IF bad # {} /\ (end = {} \/ Least(bad) < Least(end)) THEN -1
        ELSE IF end = {} THEN 0 ELSE Least(end)

\* The buffer after k tokens were received into it; what lies beyond stays as it was.
Filled(c, k) == [i \in 1..BufSize |-> IF i <= k THEN c.received + i ELSE c.buf[i]]

\* Receives until the header is complete; one recv may bring more than the header.
read_message(c) ==
    LET most == IF c.broken \/ c.stopped THEN 0 ELSE Smaller(BufSize, Waiting(c))
        complete == {k \in 1..most : get_http_header_len(Filled(c, k), k) # 0}
        header == Least(complete)
        got(k, why, len) == [After(c, why, k) EXCEPT !.buf = Filled(c, k), !.data_len = k,
                                                     !.request_len = len]
        short == IF complete = {} THEN 0..most ELSE 0..header - 1
    IN  {got(k, "whole", get_http_header_len(Filled(c, k), k)) :
            k \in IF complete = {} THEN {} ELSE header..most}
        \cup (UNION {{got(k, why, -1) : why \in Interruptions(c, k)} : k \in {k \in short : k < BufSize}})
        \cup {got(BufSize, "whole", -2) : k \in {k \in short : k = BufSize}}

reset_per_request_attributes(c) ==
    [c EXCEPT !.consumed_content = 0, !.content_len = -1, !.is_chunked = 0, !.must_close = FALSE,
              !.request_len = 0, !.data_len = 0, !.chunk_remainder = 0, !.head = 0]

\* Empty lines in front of the request line are skipped, over the whole buffer.
RequestLine(c) ==
    LET s == {i \in 1..BufSize : At(c.buf[i]).t # "e"}
    IN  IF s = {} THEN 0 ELSE Least(s)

\* A URI that names no server, unless a field says more.
Uri(start) == [start |-> start, clean |-> TRUE, host |-> << >>, port |-> NoPort, path |-> TRUE, colon |-> FALSE]

\* A request found inside the content of another.
Embedded ==
    [method |-> "GET", version |-> "1.1", wish |-> "none", uri |-> Uri("/"), framing |-> "length",
     host |-> "name", blanks |-> 0, lines |-> 0, words |-> 3, content |-> << >>, form |-> "none",
     query |-> << >>]

Sender(c) == LET found == At(c.head).request IN IF found = {} THEN Embedded ELSE CHOOSE r \in found : TRUE

\* As many header lines as there is room for; the others are not looked at.  -1: one is not a field.
parse_http_headers(lines) ==
    LET num == Smaller(Len(lines), MaxHeaders)
    IN  IF \A i \in 1..num : At(lines[i]).t = "h" THEN num ELSE -1

Overlooked(c) == Sender(c).lines >= MaxHeaders

\* The request as the server sees it.
Request(c) ==
    LET r == Sender(c)
    IN  IF Overlooked(c) THEN [r EXCEPT !.wish = "none", !.framing = "none", !.host = "none", !.form = "none"]
        ELSE r

\* The request line is three words, the last one up to its end.
skip_to_end_of_word_and_terminate(r) == r.words = 3

\* The position of a request line with header lines only up to the end of the header, else 0.
parse_http_request(c) ==
    LET s == RequestLine(c)
        rest == SubSeq(c.buf, s, BufSize)
        len == get_http_header_len(rest, Len(rest))
        r == Sender([c EXCEPT !.head = c.buf[s]])
    IN  IF s # 0 /\ At(c.buf[s]).t = "G" /\ len > 0
           /\ skip_to_end_of_word_and_terminate(r) /\ r.method \in Methods
           /\ parse_http_headers(SubSeq(rest, 2, len - 1)) >= 0
        THEN c.buf[s] ELSE 0

\* A name in brackets needs both of them; without the header it is the client's address.
alloc_get_host(r) == r.host # "["

\* [error, c]; error -1 where nothing came at all, 0 where a request did.
get_message(c) ==
    {[error |-> IF m.request_len > 0 THEN 0 ELSE IF m.data_len > 0 THEN 400 ELSE -1,
      c |-> IF m.request_len <= 0 /\ m.data_len = 0 THEN [m EXCEPT !.must_close = TRUE] ELSE m] :
        m \in read_message(reset_per_request_attributes(c))}

\* The framing of the content, from the headers or the method.
Framed(c) ==
    LET r == Request(c) IN
    CASE r.framing = "length" -> [c EXCEPT !.content_len = Len(FlattenSeq(r.content))]
      [] r.framing = "negative" -> [c EXCEPT !.content_len = -2]
      [] r.framing \in {"chunked", "miscounted"} -> [c EXCEPT !.is_chunked = 1, !.content_len = -1]
      [] OTHER -> [c EXCEPT !.content_len = IF r.method \in HasBody THEN -1 ELSE 0]

get_request(c) ==
    {IF g.error # 0 THEN g
     ELSE LET head == parse_http_request(g.c)
              p == [g.c EXCEPT !.head = head, !.misaligned = @ \/ RequestLine(g.c) > 2,
                               !.overlooked = @ \/ (head # 0 /\ Overlooked([g.c EXCEPT !.head = head]))]
          IN  IF head = 0 \/ ~alloc_get_host(Request(p)) THEN [error |-> 400, c |-> p]
              ELSE IF Request(p).framing = "unparsable" THEN [error |-> 411, c |-> p]
              ELSE [error |-> 0, c |-> Framed(p)] : g \in get_message(c)}

(***************************************************************************)
(* The URI of a request.                                                   *)
(***************************************************************************)
\* The protocols of absolute URIs and their default ports.
abs_uri_protocols == [p \in {"http", "https", "ws", "wss"} |-> IF p \in {"http", "ws"} THEN 80 ELSE 443]

\* Any colon behind the protocol is taken for the one before a port.
get_uri_type(u) ==
    CASE u.start = "*" -> "asterisk"
      [] u.start # "*" /\ u.clean /\ u.start = "/" -> "relative"
      [] u.clean /\ u.start \in DOMAIN abs_uri_protocols /\ u.path
            /\ (u.port \in ValidPorts \/ (u.port = NoPort /\ ~u.colon)) -> "absolute"
      [] OTHER -> "invalid"

\* This server's port, and, where the option asks for it, its domain or a name below that.
get_rel_url_at_current_server(u) ==
    LET port == IF u.port = NoPort THEN abs_uri_protocols[u.start] ELSE u.port
        below == Len(u.host) - Len(config.domain)
    IN  /\ port = config.port
        /\ config.domain_check => /\ config.domain # << >> /\ IsSuffix(config.domain, u.host)
                                  /\ ~(below = 1 /\ u.host[1] = "")

\* What becomes of local_uri.
LocalUri(u) ==
    CASE get_uri_type(u) = "relative" -> "local"
      [] get_uri_type(u) = "absolute" -> IF get_rel_url_at_current_server(u) THEN "local" ELSE "none"
      [] get_uri_type(u) = "asterisk" -> "none"
      [] OTHER -> "invalid"

(***************************************************************************)
(* Answers.                                                                *)
(***************************************************************************)
should_keep_alive(c) ==
    /\ ~c.must_close /\ config.keep_alive
    /\ \/ Request(c).wish = "keep-alive"
       \/ Request(c).wish = "none" /\ Request(c).version = "1.1"

suggest_connection_header(c) == IF should_keep_alive(c) THEN "keep-alive" ELSE "close"

\* An answer's header, with the Connection header the state of the connection suggests.
Say(c) == announced' = suggest_connection_header(c)

\* Mutant of mg_send_http_error: must_close is forgotten.
mg_send_http_error_open(c) == conn' = c /\ announced' = "close"

\* mg_send_http_error: the answer says close, and the connection does.
mg_send_http_error(c) == conn' = [c EXCEPT !.must_close = TRUE] /\ announced' = "close"

(***************************************************************************)
(* process_new_connection and what it calls, in the order of the code.     *)
(***************************************************************************)
\* What the worker's buffer holds from before, of the client it served last too, is 0, which is no
\* place of this stream: it can be looked at only where misaligned says so.
NewConnection ==
    [must_close |-> FALSE, content_len |-> -1, is_chunked |-> 0, chunk_remainder |-> 0,
     request_len |-> 0, data_len |-> 0, consumed_content |-> 0,
     buf |-> [i \in 1..BufSize |-> 0], handled_requests |-> 0,
     head |-> 0,           \* the request line request_info was parsed from
     received |-> 0,       \* how far the socket has been read
     broken |-> FALSE, stopped |-> FALSE,
     \* What may leave the socket inside a message:
     late |-> FALSE,       \* the client was silent past the time limit
     misframed |-> FALSE,  \* a chunk was not where it should be
     unread |-> FALSE,     \* an answer was given without reading the content
     misaligned |-> FALSE, \* the header did not start where request_len counts from
     overlooked |-> FALSE] \* there were more headers than fit

init_connection == [NewConnection EXCEPT !.must_close = ~config.keep_alive]

Init ==
    /\ \E k \in Cases :
          stream = Stream(k.script) /\ pipelined = k.pipelined /\ config = k.config /\ faults = k.faults
    /\ conn = init_connection
    /\ pc = "ready"
    /\ delivered = << >> /\ last_read = 1 /\ announced = ""

Finish(c) == conn' = c /\ pc' = "tail" /\ UNCHANGED <<setup, delivered, last_read>>

\* The request is not understood, or nothing came.
Rejected(g) ==
    \/ /\ g.error > 0 \/ (g.error = 0 /\ Request(g.c).version \notin {"1.0", "1.1"})
       /\ mg_send_http_error(g.c)
    \/ /\ g.error = 0 /\ Request(g.c).version \in {"1.0", "1.1"}
       /\ LocalUri(Request(g.c).uri) = "invalid"
       /\ mg_send_http_error(g.c)
    \/ /\ \/ g.error = -1
          \/ /\ g.error = 0 /\ Request(g.c).version \in {"1.0", "1.1"}
             /\ LocalUri(Request(g.c).uri) = "none"
       /\ conn' = [g.c EXCEPT !.must_close = TRUE]
       /\ announced' = ""

Accepted(g) ==
    /\ g.error = 0 /\ Request(g.c).version \in {"1.0", "1.1"}
    /\ LocalUri(Request(g.c).uri) = "local"

GetRequest ==
    /\ pc = "ready"
    /\ \E g \in get_request(conn) :
          \/ ~Accepted(g) /\ Rejected(g) /\ pc' = "tail"
          \/ Accepted(g) /\ conn' = g.c /\ pc' = "dispatch" /\ announced' = ""
    /\ delivered' = << >> /\ last_read' = 1
    /\ UNCHANGED setup

\* An answer that leaves the content where it is.
LeavingContent(c) == [c EXCEPT !.unread = @ \/ c.content_len # 0]

mg_send_http_redirect(c) == conn' = c /\ Say(c)

\* The connection is closed behind it, whether or not the new address was too long.
redirect_to_https_port ==
    LET c == [conn EXCEPT !.must_close = TRUE]
    IN  mg_send_http_redirect(c) \/ mg_send_http_error(c)

\* 1.2: a port that only redirects to the https port; 503 where there is none.
RedirectToHttps ==
    /\ pc = "dispatch" /\ config.redirect
    /\ IF config.https THEN redirect_to_https_port ELSE mg_send_http_error(conn)
    /\ pc' = "tail"
    /\ UNCHANGED <<setup, delivered, last_read>>

Preflight == Request(conn).method = "OPTIONS" /\ config.cors

\* 4: a CORS preflight request is answered here.
AnswerPreflight ==
    /\ pc = "dispatch" /\ ~config.redirect /\ Preflight
    /\ Say(conn)
    /\ Finish(LeavingContent(conn))

Dispatched == pc = "dispatch" /\ ~config.redirect /\ ~Preflight

\* 6.1: the authorization handler has answered and refuses.
Refuse ==
    /\ Dispatched
    /\ Say(conn)
    /\ Finish(LeavingContent(conn))

\* No handler for the URI, and no files to serve: 404 or 405.
NotFound ==
    /\ Dispatched
    /\ mg_send_http_error(conn)
    /\ pc' = "tail"
    /\ UNCHANGED <<setup, delivered, last_read>>

\* 7: a request handler is called.
CallHandler ==
    /\ Dispatched
    /\ pc' = "handler"
    /\ UNCHANGED <<setup, conn, delivered, last_read, announced>>

\* It reads from the content until a read gives nothing.
HandlerReads ==
    /\ pc = "handler" /\ last_read > 0
    /\ \E len \in ReadSizes : \E r \in mg_read(conn, len) :
          /\ conn' = r.c /\ last_read' = r.n
          /\ delivered' = IF r.n > 0 THEN delivered \o r.data ELSE delivered
    /\ UNCHANGED <<setup, pc, announced>>

\* It answers, as SendJSON does: mg_send_http_ok, then the body.
HandlerAnswers ==
    /\ pc = "handler" /\ announced = ""
    /\ Say(conn)
    /\ UNCHANGED <<setup, conn, pc, delivered, last_read>>

\* Its work done, the rest of the content is discarded.
HandlerReturns ==
    /\ pc = "handler" /\ announced # ""
    /\ \E c \in discard_unread_request_data(conn) : Finish(c)
    /\ UNCHANGED announced

\* It does not want the request: there is no file for it either.
HandlerDeclines ==
    /\ pc = "handler" /\ announced = ""
    /\ mg_send_http_error(conn)
    /\ pc' = "tail"
    /\ UNCHANGED <<setup, delivered, last_read>>

\* request_len + content_len overflows where the content's length is unknown.
DiscardLength(c) ==
    IF c.content_len < 0 \/ c.request_len <= 0 THEN {c.data_len}
    ELSE IF c.content_len = Int64Max THEN {c.request_len - 1, c.data_len}
    ELSE {Smaller(c.request_len + c.content_len, c.data_len)}

\* Mutant of NextRequest: a connection nothing came from is kept.
NextRequestPatient ==
    /\ pc = "tail"
    /\ IF conn.data_len = 0 /\ config.keep_alive
       THEN pc' = "ready" /\ conn' = [conn EXCEPT !.must_close = FALSE]
       ELSE pc' = "closed" /\ UNCHANGED conn
    /\ UNCHANGED <<setup, delivered, last_read, announced>>

\* The end of the loop: go on with this connection, or close it.
NextRequest ==
    /\ pc = "tail"
    /\ \E d \in DiscardLength(conn) :
          conn' = [conn EXCEPT !.data_len = @ - d, !.handled_requests = @ + 1,
                               !.buf = SubSeq(@, d + 1, conn.data_len)
                                       \o SubSeq(@, conn.data_len - d + 1, BufSize)]
    /\ pc' = IF ~conn.stopped /\ should_keep_alive(conn) /\ conn.content_len >= 0
             THEN "ready" ELSE "closed"
    /\ UNCHANGED <<setup, delivered, last_read, announced>>

\* mg_stop is called meanwhile.
Stop ==
    /\ pc # "closed" /\ "stopped" \in faults /\ ~conn.stopped
    /\ conn' = [conn EXCEPT !.stopped = TRUE]
    /\ UNCHANGED <<setup, pc, delivered, last_read, announced>>

Handling ==
    \/ RedirectToHttps \/ AnswerPreflight \/ Refuse \/ NotFound \/ CallHandler
    \/ HandlerReads \/ HandlerAnswers \/ HandlerReturns \/ HandlerDeclines \/ NextRequest

Server == GetRequest \/ Handling

Next == Server \/ Stop

Spec == Init /\ [][Next]_vars

\* A worker thread goes on with its connection, and every wait in it has a time limit: weak
\* fairness of Server, which is enabled until the connection is closed.
FairSpec == Spec /\ ([]<><<Server>>_vars \/ []<>(pc = "closed"))

(***************************************************************************)
(* Properties.                                                             *)
(***************************************************************************)
Positions == 0..Len(stream)

\* Every byte of buf and every byte delivered to a handler is one the socket gave: reading never
\* leaves the received part of the buffer.
TypeOK ==
    /\ pc \in {"ready", "dispatch", "handler", "tail", "closed"}
    /\ conn.buf \in [1..BufSize -> Positions] /\ conn.data_len \in 0..BufSize
    /\ conn.request_len \in -2..conn.data_len \/ pc \in {"ready", "closed"}
    /\ conn.is_chunked \in 0..3 /\ conn.received \in Positions
    /\ delivered \in Seq(1..Len(stream))
    /\ announced \in {"", "keep-alive", "close"}

Slipped == conn.late \/ conn.misframed \/ conn.unread \/ conn.misaligned \/ conn.overlooked

Serving == pc \in {"dispatch", "handler"}

\* A client that waits for its answers has its messages served one after the other, each once: no
\* content is taken for a request, however the bytes arrive and however little of a content its
\* handler reads - unless a content was left unread (a preflight, a refusal), came too late or had
\* bad chunks, its header was overlooked, or two empty lines came before a request.
RequestsInOrder ==
    Serving /\ ~pipelined /\ ~Slipped =>
        ~At(conn.head).data /\ At(conn.head).m = conn.handled_requests + 1

\* The URI names this server: its port, and its domain or one below that if only those are served.
MeantForUs(u) ==
    LET Default == IF u.start \in {"http", "ws"} THEN 80 ELSE 443
    IN  \/ u.start = "/"
        \/ /\ u.start \in {"http", "https", "ws", "wss"}
           /\ u.port = config.port \/ (u.port = NoPort /\ config.port = Default)
           /\ config.domain_check =>
                 \E i \in 1..Len(u.host) : /\ SubSeq(u.host, i, Len(u.host)) = config.domain
                                          /\ SubSeq(u.host, 1, i - 1) # <<"">>

\* A request reaches handle_request only if its URI names this server, and no request that does is
\* dropped without an answer: get_uri_type and get_rel_url_at_current_server, which look for the
\* server's name and port each in its own way, agree.
OnlyOwnRequests ==
    /\ Serving => MeantForUs(Request(conn).uri)
    /\ pc = "tail" /\ announced = "" /\ conn.head # 0 => ~MeantForUs(Request(conn).uri)

Message == At(conn.head).m

\* What mg_read gives a handler is the content of its request from the beginning, byte by byte, and
\* all of it once mg_read reports the end - plain or chunked, buffered with the header or not,
\* pipelined or not.
BodyExact ==
    pc = "handler" /\ ~At(conn.head).data /\ ~conn.misaligned
        /\ Request(conn).framing \in {"length", "chunked"} =>
        /\ IsPrefix(delivered, Content(Message))
        /\ last_read = 0 /\ ~conn.late /\ ~conn.stopped => delivered = Content(Message)

\* The answer's Connection header tells what happens: after "close" no further request is read;
\* after "keep-alive" the connection stays open - unless the server stops, or the length of the
\* content is not known: none was given, or the chunks were left unread.
ConnectionHeaderExact ==
    [][pc = "tail" /\ pc' # pc /\ announced # "" =>
        /\ announced = "close" => pc' = "closed"
        /\ announced = "keep-alive" /\ ~conn.stopped
              /\ (Request(conn).framing = "length"
                    \/ (Request(conn).framing = "chunked" /\ ~conn.unread)) => pc' = "ready"]_vars

\* The invariant of a connection (process_new_connection): types, and requests served in order and by
\* the server they name.
ConnectionInv == TypeOK /\ RequestsInOrder /\ OnlyOwnRequests

\* A connection is always given back in the end, whatever its client does: it has only so much to
\* send, and one that sends for ever keeps its worker.
EventuallyClosed == <>(pc = "closed")
=============================================================================
