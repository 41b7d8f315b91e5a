-------------------------------- MODULE Form --------------------------------
(***************************************************************************)
(* A request handler that takes its request apart with                     *)
(* mg_handle_form_request (handle_form.inl): the fields of a query string, *)
(* of url encoded content or of multipart content, read through a buffer   *)
(* that may hold less than one value.                                      *)
(*                                                                         *)
(* Payload tokens are "b" for text; "=", "&", "+" and the escape "%", "x", *)
(* "x"; and in multipart content "B" for "--" and the boundary string,     *)
(* "-" for the "--" after the last one, "n" for the Content-Disposition    *)
(* line of a part and "e" for a line end.  A message also has the fields   *)
(* form (its Content-Type) and query.                                      *)
(***************************************************************************)
EXTENDS Connection

CONSTANTS
    FormBuf,   \* sizeof(buf) - 1 in mg_handle_form_request
    Policies   \* what the callbacks answer, field by field

ASSUME FormAssumption ==
    /\ FormBuf \in Nat \ (0..3)
    /\ \A p \in Policies : p \in Seq({"get", "next", "quit", "store", "last", "unstored", "skip", "abort"})

VARIABLE form   \* what the callbacks were given: [result, fields, policy]

formVars == <<vars, form>>

NoForm == [result |-> -2, fields |-> << >>, policy |-> << >>]

Kinds(s) == [i \in 1..Len(s) |-> At(s[i]).t]

\* The first index from on whose token is in T, 0 if there is none.
FirstOf(T, s, from) ==
    LET at == {i \in from..Len(s) : At(s[i]).t \in T} IN IF at = {} THEN 0 ELSE Least(at)

RECURSIVE Unescaped(_)
Unescaped(kinds) ==
    IF kinds = << >> THEN << >>
    ELSE IF Len(kinds) > 2 /\ SubSeq(kinds, 1, 3) = <<"%", "x", "x">>
    THEN <<"X">> \o Unescaped(SubSeq(kinds, 4, Len(kinds)))
    ELSE <<IF Head(kinds) = "+" THEN " " ELSE Head(kinds)>> \o Unescaped(Tail(kinds))

mg_url_decode(s) == Unescaped(Kinds(s))

(***************************************************************************)
(* The work in progress: conn, buf, all_data_read, the fields found and    *)
(* what the callbacks answer.  A field has its name, what was delivered of *)
(* its value, how (field_storage), and whether field_stored was called.    *)
(* Of the ways to take a field the READ of the comments is not in the code. *)
(***************************************************************************)
Begun(c, policy) ==
    [c |-> c, buf |-> << >>, all |-> FALSE, fields |-> << >>, policy |-> policy]

Ends(s, result) == {[c |-> s.c, form |-> [result |-> result, fields |-> s.fields, policy |-> s.policy]]}
Stops(s) == Ends(s, Len(s.fields))
Fails(s) == Ends(s, -1)

\* A length is computed from a pointer that is not set: nothing more is known.
Undefined(s) == Ends(s, -3)

\* field_found names the field and says what to do with it; beyond the policy all fields are read.
Found(s, name) ==
    LET i == Len(s.fields) + 1
        storage == IF i \in DOMAIN s.policy THEN s.policy[i] ELSE "get"
    IN  [s EXCEPT !.fields = Append(@, [name |-> name, value |-> << >>, how |-> storage, stored |-> FALSE])]

Field(s) == Last(s.fields)

\* One call of field_get, or one fwrite; "next" and "quit" are answers of field_get, "last" is an
\* abort by field_store, and an "unstored" field's file cannot be created or written.
Deliver(s, value, decoded) ==
    LET f == Field(s)
        got == CASE f.how \in {"get", "quit"} -> [f EXCEPT !.value = @ \o decoded]
                 [] f.how = "next" -> [f EXCEPT !.value = @ \o decoded, !.how = "skip"]
                 [] f.how \in {"store", "last"} -> [f EXCEPT !.value = @ \o Kinds(value)]
                 [] OTHER -> f
    IN  [s EXCEPT !.fields[Len(s.fields)] = got]

\* The file is closed and field_stored called.
Close(s) == [s EXCEPT !.fields[Len(s.fields)].stored = Field(s).how \in {"store", "last"}]

\* mg_read into the free part of the buffer: [n, s].
Fill(s) ==
    {[n |-> r.n, s |-> [s EXCEPT !.c = r.c,
                                 !.buf = IF r.n > 0 THEN @ \o r.data ELSE @,
                                 !.all = IF r.n = 0 THEN s.buf = << >> ELSE @]] :
        r \in mg_read(s.c, FormBuf - Len(s.buf))}

ReadError(r, s) == r.n < 0 \/ (r.n = 0 /\ s.all)

From(s, i) == [s EXCEPT !.buf = SubSeq(@, i, Len(@))]

(***************************************************************************)
(* The query string of a GET request: all of it is there.                  *)
(***************************************************************************)
RECURSIVE QueryFields(_)
QueryFields(s) ==
    LET eq == SelectInSeq(s.buf, LAMBDA t: t = "=")
        amps == {i \in eq + 1..Len(s.buf) : s.buf[i] = "&"}
        end == IF amps = {} THEN Len(s.buf) + 1 ELSE Least(amps)
        found == Found(s, Unescaped(SubSeq(s.buf, 1, eq - 1)))
        value == SubSeq(s.buf, eq + 1, end - 1)
        f == Field(found)
        given == IF f.how \in {"get", "quit", "next"} THEN Unescaped(value)
                 ELSE IF f.how \in {"store", "last"} THEN value ELSE << >>
        done == [found EXCEPT !.fields[Len(found.fields)] =
                    [f EXCEPT !.value = given, !.stored = f.how \in {"store", "last"},
                              !.how = IF @ = "next" THEN "skip" ELSE @]]
    IN  IF eq = 0 THEN Stops(s)
        ELSE IF f.how \in {"quit", "abort", "last"} THEN Stops(done)
        ELSE QueryFields([done EXCEPT !.buf = SubSeq(@, end + 1, Len(@))])

(***************************************************************************)
(* Url encoded content: key=value pairs, a value block by block.           *)
(***************************************************************************)
RECURSIVE UrlPairs(_), UrlPair(_), UrlValue(_, _)

\* The outer loop: read, then look for the next pair.
UrlPairs(s) ==
    IF Len(s.buf) >= FormBuf THEN UrlPair(s)
    ELSE UNION {IF ReadError(r, s) THEN Fails(r.s)
                ELSE IF r.s.buf = << >> THEN Stops(r.s) ELSE UrlPair(r.s) : r \in Fill(s)}

UrlPair(s) ==
    LET eq == FirstOf({"="}, s.buf, 1)
        found == Found(s, mg_url_decode(SubSeq(s.buf, 1, eq - 1)))
    IN  IF eq = 0 THEN Stops(s)
        ELSE IF Field(found).how = "abort" THEN Stops(found)
        ELSE UrlValue(found, eq + 1)

\* After the last block of a value: go on behind it.
UrlRest(s, next) ==
    IF Field(s).how = "last" \/ (s.all /\ s.buf = << >>) THEN Stops(Close(s)) ELSE UrlPairs(From(Close(s), next))

\* A block of the value, from index val on; an abort by field_get leaves this loop only.
UrlValue(s, val) ==
    LET amp == FirstOf({"&"}, s.buf, val)
        end == IF amp = 0 THEN Len(s.buf) + 1 ELSE amp
        next == IF amp = 0 THEN end ELSE amp + 1
        value == SubSeq(s.buf, val, end - 1)
        given == Deliver(s, value, mg_url_decode(value))
        rest == From(given, next)
    IN  IF amp # 0 \/ s.all \/ Field(given).how = "quit" THEN UrlRest(given, next)
        ELSE UNION {IF ReadError(r, s) THEN Fails(r.s)
                    ELSE IF r.s.buf = << >> THEN UrlRest(r.s, 1) ELSE UrlValue(r.s, 1) : r \in Fill(rest)}

(***************************************************************************)
(* Multipart content: parts between boundaries, each with a header.        *)
(***************************************************************************)
\* Mutant of Kept: a block is delivered to its end.
KeptNothing == 0

\* "\r\n--" and the boundary are two tokens: that many are kept back from every block.
Kept == 2

search_boundary(s, from) ==
    LET at == {i \in from..Len(s.buf) - 1 : At(s.buf[i]).t = "e" /\ At(s.buf[i + 1]).t = "B"}
    IN  IF at = {} THEN 0 ELSE Least(at)

\* The end of the part header that begins at the third token: the index of its empty line, else 0.
PartHeader(s) ==
    LET end == {i \in 4..Len(s.buf) : At(s.buf[i]).t = "e" /\ At(s.buf[i - 1]).t \in {"n", "h"}}
    IN  IF end # {} /\ (\A i \in 3..Least(end) - 1 : At(s.buf[i]).t \in {"n", "h"})
           /\ (\E i \in 3..Least(end) - 1 : At(s.buf[i]).t = "n")
        THEN Least(end) ELSE 0

RECURSIVE FormParts(_, _), PartValue(_, _, _)

\* What comes before the first boundary is skipped.
Preamble(s) ==
    LET d == FirstOf({"B", "-"}, s.buf, 1) IN IF d = 0 THEN s ELSE From(s, d)

FormParts(s, first) ==
    UNION {LET p == IF first THEN Preamble(r.s) ELSE r.s
               t == Kinds(p.buf)
               hend == PartHeader(p)
           IN  IF ReadError(r, s) \/ t = << >> \/ t[1] # "B" \/ Len(t) < 2 THEN Fails(r.s)
               ELSE IF t[2] # "e" THEN IF t = <<"B", "-", "e">> THEN Stops(p) ELSE Fails(p)
               ELSE IF hend = 0 THEN Fails(p)
               ELSE PartValue(Found(p, <<"n">>), hend + 1, search_boundary(p, hend)) :
              r \in Fill(s)}

\* The blocks of a value; hend is where the current one begins, next where the boundary is.
PartValue(s, hend, next) ==
    LET Part(end) == SubSeq(s.buf, hend, end)
        last == Deliver(s, Part(next - 1), Kinds(Part(next - 1)))
        towrite == Len(s.buf) - hend + 1 - Kept
        block == Deliver(s, Part(hend + towrite - 1), Kinds(Part(hend + towrite - 1)))
    IN  IF next # 0
        THEN IF next < hend THEN Undefined(s)
             ELSE IF Field(s).how \in {"quit", "abort", "last"} THEN Stops(Close(last))
             ELSE FormParts(From(Close(last), next + 1), FALSE)
        ELSE IF towrite < 0 THEN Fails(s)
        ELSE IF Field(s).how = "quit" THEN Undefined(block)
        ELSE UNION {LET found == search_boundary(r.s, 1)
                        more == [r.s EXCEPT !.all = @ \/ (found = 0 /\ r.n = 0)]
                    IN  IF ReadError(r, s) THEN Fails(r.s) ELSE PartValue(more, 1, found) :
                       r \in Fill(From(block, hend + towrite))}

(***************************************************************************)
(* The three encodings.                                                    *)
(***************************************************************************)
\* Content that does not say of which type it is counts as url encoded.
Encoded == {"url", "untyped"}

mg_handle_form_request(c, policy) ==
    LET r == Request(c)
        s == Begun(c, policy)
        has_body_data == c.content_len > 0 \/ c.is_chunked # 0
    IN  IF ~has_body_data
        THEN IF r.method # "GET" \/ r.query = << >> THEN Fails(s)
             ELSE QueryFields([s EXCEPT !.buf = r.query])
        ELSE CASE r.form \in Encoded -> UrlPairs(s)
               [] r.form = "multipart" -> FormParts(s, TRUE)
               [] OTHER -> Fails(s)

\* A request handler that handles a form; it has read nothing yet.
HandleForm ==
    /\ pc = "handler" /\ announced = "" /\ last_read = 1 /\ delivered = << >>
    /\ Request(conn).form # "none"
    /\ \E policy \in Policies : \E r \in mg_handle_form_request(conn, policy) :
          conn' = r.c /\ form' = r.form
    /\ last_read' = -1
    /\ UNCHANGED <<setup, pc, delivered, announced>>

FormInit == Init /\ form = NoForm

FormNext ==
    \/ HandleForm
    \/ GetRequest /\ form' = NoForm
    \/ (Handling \/ Stop) /\ UNCHANGED form

FormSpec == FormInit /\ [][FormNext]_formVars

\* As FairSpec: the worker goes on until the connection is closed.
FairFormSpec ==
    FormSpec /\ ([]<><<HandleForm \/ Server>>_formVars \/ []<>(pc = "closed"))

(***************************************************************************)
(* Properties.                                                             *)
(***************************************************************************)
RECURSIVE SplitAt(_, _)
SplitAt(kinds, t) ==
    LET i == SelectInSeq(kinds, LAMBDA k: k = t)
    IN  IF i = 0 THEN <<kinds>>
        ELSE <<SubSeq(kinds, 1, i - 1)>> \o SplitAt(SubSeq(kinds, i + 1, Len(kinds)), t)

\* The key=value pairs of url encoded data.
PairOf(piece) ==
    LET eq == SelectInSeq(piece, LAMBDA k: k = "=")
    IN  [eq |-> eq, name |-> Unescaped(SubSeq(piece, 1, eq - 1)), raw |-> SubSeq(piece, eq + 1, Len(piece)),
         value |-> Unescaped(SubSeq(piece, eq + 1, Len(piece)))]

Pairs(kinds) == LET pieces == SplitAt(kinds, "&") IN [i \in 1..Len(pieces) |-> PairOf(pieces[i])]

\* The values of multipart content: from the end of a part's header to the next boundary.
PartsOf(kinds) ==
    LET heads == {i \in 4..Len(kinds) : kinds[i] = "e" /\ kinds[i - 1] = "n"}
        ends == {j \in 1..Len(kinds) - 1 : kinds[j] = "e" /\ kinds[j + 1] = "B"}
                    \cup {Len(kinds) + 1}
        value(i) == SubSeq(kinds, i + 1, Least({j \in ends : j > i}) - 1)
        order == SetToSortSeq(heads, <)
    IN  [n \in 1..Len(order) |-> [eq |-> 0, name |-> <<"n">>, raw |-> value(order[n]), value |-> value(order[n])]]

Body == Kinds(Content(Message))
ByQuery == Request(conn).query # << >>
ByParts == Request(conn).form = "multipart"

\* What the client's form says.
Reference == IF ByQuery THEN Pairs(Request(conn).query) ELSE IF ByParts THEN PartsOf(Body) ELSE Pairs(Body)

\* Every pair has its "="; every part its header, the form its end.
WellFormed ==
    IF ByParts
    THEN /\ IsSuffix(<<"B", "-", "e">>, Body)
         /\ \A i \in 1..Len(Body) - 3 : Body[i] = "B" => SubSeq(Body, i, i + 3) = <<"B", "e", "n", "e">>
    ELSE \A i \in DOMAIN Reference : Reference[i].eq # 0

\* A key fits into the buffer, an escape is not cut in two by its end, nothing precedes the parts.
Fits ==
    IF ByParts THEN Head(Body) = "B"
    ELSE ByQuery \/ \A i \in DOMAIN Reference :
        LET f == Reference[i] IN
        /\ f.eq <= FormBuf
        /\ Len(f.raw) <= FormBuf - f.eq \/ ~Contains(f.raw, "%")

Handled == pc = "handler" /\ form # NoForm /\ ~At(conn.head).data /\ ~conn.misaligned
Undisturbed == ~conn.late /\ ~conn.broken /\ ~conn.stopped /\ ~conn.misframed

\* The fields up to one whose callback says to stop.
Wanted ==
    LET aborts == {i \in DOMAIN form.policy : form.policy[i] \in {"abort", "last"}} \cap DOMAIN Reference
    IN  IF aborts = {} THEN Len(Reference) ELSE Least(aborts)

\* The callbacks are given every field of the form, once, in order and with its whole value,
\* wherever the blocks of content read into the buffer end - also in the middle of a boundary; a
\* field to be skipped gives nothing, and none is found after a callback said to stop.
FormExact ==
    Handled /\ Undisturbed /\ Request(conn).form \in Encoded \cup {"multipart"}
        /\ Reference # << >> /\ WellFormed /\ Fits /\ ~Contains(form.policy, "quit") =>
        /\ form.result = Wanted /\ Len(form.fields) = Wanted
        /\ \A i \in 1..Wanted :
              LET f == form.fields[i]
                  asked == IF i \in DOMAIN form.policy THEN form.policy[i] ELSE "get"
              IN  /\ f.name = Reference[i].name
                  /\ asked = "get" => f.value = Reference[i].value
                  /\ asked = "next" => IsPrefix(f.value, Reference[i].value)
                  /\ asked \in {"store", "last"} => f.value = Reference[i].raw /\ f.stored
                  /\ asked \in {"skip", "abort", "unstored"} => f.value = << >> /\ ~f.stored

\* field_store is called for completely received values only, even if the connection breaks -
\* unless the client was late or the server was stopped: mg_read then reports the end of the content,
\* and a part of a value is stored, which civetweb.h:1201-1205 says it is not.
StoredWhole ==
    Handled /\ ~conn.late /\ ~conn.stopped /\ Request(conn).form \in Encoded \cup {"multipart"} =>
        \A i \in DOMAIN form.fields :
            form.fields[i].stored => i \in DOMAIN Reference /\ form.fields[i].value = Reference[i].raw

\* A form (mg_handle_form_request) is delivered whole, and nothing that is not whole is stored.
FormInv == FormExact /\ StoredWhole
=============================================================================
