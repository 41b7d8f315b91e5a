---------------------------- MODULE MCConnection ----------------------------
(* The messages of the clients that are model-checked. *)
EXTENDS Form

Plain == [blanks |-> 0, lines |-> 0, method |-> "GET", version |-> "1.1", wish |-> "none",
          uri |-> Uri("/"), framing |-> "none", host |-> "name", words |-> 3, content |-> << >>,
          form |-> "none", query |-> << >>]

Post(framing, content) == [Plain EXCEPT !.method = "POST", !.framing = framing, !.content = content]

\* A content that looks like a request.
Tricky == <<"G", "e">>

Firsts == {
    Plain,
    Post("length", <<<<"b", "b">>>>),
    Post("length", <<Tricky>>),
    Post("chunked", <<<<"b">> \o Tricky, <<"b">>>>),
    Post("miscounted", <<<<"b", "b">>>>),
    Post("none", <<Tricky>>),
    Post("negative", <<Tricky>>),
    [Post("length", <<Tricky>>) EXCEPT !.method = "OPTIONS"],
    [Post("length", <<Tricky>>) EXCEPT !.method = "GET", !.lines = 3],
    [Plain EXCEPT !.wish = "close"]}

Lasts == {
    Plain,
    Post("length", <<<<"b", "b", "b">>>>),
    Post("chunked", <<<<"b">>>>),
    [Post("length", <<<<"b", "b">>>>) EXCEPT !.blanks = 1],
    [Post("length", <<<<"b", "b">>>>) EXCEPT !.blanks = 2],
    [Plain EXCEPT !.lines = 4],
    [Plain EXCEPT !.version = "1.0"],
    [Plain EXCEPT !.version = "1.0", !.wish = "keep-alive"],
    [Plain EXCEPT !.version = "2.0"],
    [Post("length", <<Tricky>>) EXCEPT !.lines = 3],
    [Plain EXCEPT !.host = "["], [Plain EXCEPT !.host = "none"],
    [Plain EXCEPT !.words = 2],
    [Plain EXCEPT !.method = "TRACE"], [Plain EXCEPT !.method = "DELETE"],
    [Post("none", << >>) EXCEPT !.method = "PATCH"],
    Post("unparsable", << >>)}

Absolute == [Uri("http") EXCEPT !.host = <<"vertex">>]

AskedUris == {
    Uri("*"), [Uri("/") EXCEPT !.clean = FALSE], Uri("other"), Absolute,
    [Absolute EXCEPT !.port = 80], [Absolute EXCEPT !.port = 8080], [Absolute EXCEPT !.port = 65536],
    [Absolute EXCEPT !.path = FALSE], [Absolute EXCEPT !.colon = TRUE], [Absolute EXCEPT !.start = "https"],
    [Absolute EXCEPT !.host = <<"www", "vertex">>], [Absolute EXCEPT !.host = <<"", "vertex">>],
    [Absolute EXCEPT !.host = <<"vertex", "www">>]}

Chunked == Post("chunked", <<<<"b">>>>)
Doubtful == {<<f, Plain>> : f \in Firsts}

Scripts ==
    Doubtful \cup {<<f, Chunked>> : f \in Firsts} \cup {<<Plain, l>> : l \in Lasts}
    \cup {<<Chunked, [Post("length", <<<<"b", "b">>>>) EXCEPT !.blanks = b]>> : b \in 0..1}

Setting == [keep_alive |-> TRUE, cors |-> FALSE, redirect |-> FALSE, https |-> TRUE,
            port |-> 80, domain |-> <<"vertex">>, domain_check |-> FALSE]

Case(script, setting) == [script |-> script, pipelined |-> FALSE, config |-> setting, faults |-> {}]

\* Forms: values that fit the buffer and values that do not, every way a boundary can meet its end.
Text(n) == [i \in 1..n |-> "b"]
Pair(n) == <<"b", "=">> \o Text(n)
Part(n) == <<"B", "e", "n", "e">> \o Text(n) \o <<"e">>
Ending == <<"B", "-", "e">>

UrlForms == {
    Pair(2) \o <<"&">> \o Pair(0), Pair(6) \o <<"&">> \o Pair(3), Pair(4) \o <<"&">> \o Pair(4),
    Pair(1) \o <<"%", "x", "x", "&">> \o <<"b", "+", "=", "b">>,
    Pair(3) \o <<"%", "x", "x">>, Text(8) \o Pair(1), Text(1)}

PartForms ==
    {Part(n) \o Part(1) \o Ending : n \in 0..6}
    \cup {Text(2) \o Part(2) \o Ending, <<"B", "e", "n", "e">> \o Text(3), Part(1) \o <<"B", "e">>,
          <<"B", "e", "n", "e", "b", "e", "e", "B", "-", "e">>, <<"B", "e", "e", "b">> \o Ending}

FormPost(kind, content) == [Post("length", <<content>>) EXCEPT !.form = kind]

FormScripts ==
    {<<FormPost("url", c)>> : c \in UrlForms} \cup {<<FormPost("multipart", c)>> : c \in PartForms}
    \cup {<<FormPost("other", Pair(1))>>, <<FormPost("untyped", Pair(6) \o <<"&">> \o Pair(3))>>,
          <<[FormPost("url", << >>) EXCEPT !.content = << >>]>>,
          <<[Post("chunked", <<Pair(2), <<"b", "&">> \o Pair(1)>>) EXCEPT !.form = "url"]>>}
    \cup {<<[Plain EXCEPT !.form = "url", !.query = q]>> :
            q \in {Pair(1) \o <<"&">> \o Pair(0), Pair(1) \o <<"%", "x", "x">>, Text(2)}}

MCPolicies == {
    <<>>, <<"store", "store">>, <<"skip", "get">>, <<"next", "get">>, <<"quit", "get">>,
    <<"abort", "get">>, <<"get", "abort">>, <<"last", "get">>, <<"unstored", "store">>}

AllFaults == {"late", "broken", "stopped"}

MCCases ==
    {Case(s, Setting) : s \in Scripts \cup FormScripts}
    \cup {[Case(<<f>>, Setting) EXCEPT !.faults = {fault}] : fault \in AllFaults,
            f \in {FormPost("url", Pair(6)), FormPost("multipart", Part(2) \o Ending)}}
    \cup {[Case(s, Setting) EXCEPT !.pipelined = TRUE] : s \in Doubtful}
    \cup {[Case(s, Setting) EXCEPT !.faults = AllFaults] : s \in Doubtful}
    \cup {Case(s, [Setting EXCEPT !.keep_alive = FALSE]) : s \in Doubtful}
    \cup {Case(s, [Setting EXCEPT !.cors = TRUE]) : s \in Doubtful}
    \cup {Case(<<Chunked, Plain>>, [Setting EXCEPT !.redirect = TRUE]),
          Case(<<Chunked, Plain>>, [Setting EXCEPT !.redirect = TRUE, !.https = FALSE])}
    \cup {Case(<<Plain, [Plain EXCEPT !.uri = u]>>, [Setting EXCEPT !.domain_check = b]) :
            u \in AskedUris, b \in BOOLEAN}
=============================================================================
