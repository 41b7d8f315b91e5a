------------------------------ MODULE JsonText ------------------------------
(***************************************************************************)
(* The parser and the printer of cJSON.c.  A program prints an item in one *)
(* of the four ways the library offers, the text is passed on (minified, or*)
(* changed in one byte on the way), and is parsed again.                   *)
(*                                                                         *)
(* A text is a sequence of bytes without its terminating NUL; an item is   *)
(* the tree of values that JsonTree keeps in a heap.  Numbers are integers.*)
(***************************************************************************)
EXTENDS Integers, Sequences, FiniteSets, SequencesExt

CONSTANTS
    Numbers,        \* the numbers of the items
    StringValues,   \* the strings of the items
    Noise,          \* the bytes a text may be changed to
    NestingLimit,   \* CJSON_NESTING_LIMIT, 1000
    NumberLimit,    \* the bytes of number_c_string without the NUL, 63
    DefaultSize,    \* default_buffer_size, 256
    IntMax,         \* INT_MAX
    BufferSizes     \* the sizes for PrintBuffered and PrintPreallocated

ASSUME JsonTextAssumption ==
    /\ Numbers \subseteq Int
    /\ StringValues \subseteq Seq(1..255)
    /\ Noise \subseteq (1..255) \ {46, 69, 101}     \* no fractions, no exponents
    /\ {NestingLimit, NumberLimit, DefaultSize, IntMax} \subseteq Nat \ {0}
    /\ BufferSizes \subseteq Nat

VARIABLES
    pc,      \* "item", "text" or "end"
    item,    \* the item printed or parsed last
    first,   \* the item printed at first
    text,    \* the text printed, minified or changed
    clean,   \* the text was not changed on the way
    print,   \* what the last print did: [ok, over, size]
    parse    \* what the last parse did: [ok, pos]

textVars == <<pc, item, first, text, clean, print, parse>>

\* Bytes.
TAB == 9
LF == 10
SPACE == 32
QUOTE == 34
STAR == 42
COMMA == 44
MINUS == 45
SLASH == 47
COLON == 58
LBRACKET == 91
BACKSLASH == 92
RBRACKET == 93
u == 117
LBRACE == 123
RBRACE == 125
Digits == 48..57
NullText == <<110, 117, 108, 108>>
TrueText == <<116, 114, 117, 101>>
FalseText == <<102, 97, 108, 115, 101>>

\* Items.
Null == <<"null">>
True == <<"true">>
False == <<"false">>
Number(n) == <<"number", n>>
MinusZero == <<"number", 0, MINUS>>     \* -0.0, which prints as -0
String(s) == <<"string", s>>
Array(s) == <<"array", s>>
Object(s) == <<"object", s>>      \* a sequence of <<name, item>>
NoItem == <<"NULL">>

Atoms == {Null, True, False} \cup {Number(n) : n \in Numbers} \cup {String(s) : s \in StringValues}
Small == Atoms \cup {Array(<< >>), Object(<< >>)}
Items ==
    Small
    \cup {Array(<<a>>) : a \in Small}
    \cup {Array(<<a, Number(n)>>) : a \in Small, n \in Numbers}
    \cup {Object(<< <<s, a>> >>) : s \in StringValues, a \in Small}
    \cup {Object(<< <<s, a>>, <<s, Null>> >>) : s \in StringValues, a \in Atoms}
    \cup {Array(<<Array(<<a>>), Object(<< <<s, a>> >>)>>) : s \in StringValues, a \in Atoms}
    \cup {Object(<< <<s, Object(<< <<s, Array(<<a>>)>> >>)>> >>) : s \in StringValues, a \in Atoms}

-----------------------------------------------------------------------------
\* Printing.  A printbuffer: the bytes written so far (offset is their number),
\* its length, and whether a write went beyond it.

Buffer(length, noalloc, format) ==
    [out |-> << >>, length |-> length, noalloc |-> noalloc, format |-> format,
     depth |-> 0, ok |-> TRUE, over |-> FALSE]

\* ensure: the buffer has needed more bytes and one for the NUL, or p.ok is FALSE.
ensure(p, needed) ==
    LET total == needed + Len(p.out) + 1
    IN  IF ~p.ok THEN p
        ELSE IF p.length > 0 /\ Len(p.out) >= p.length THEN [p EXCEPT !.ok = FALSE]
        ELSE IF needed > IntMax THEN [p EXCEPT !.ok = FALSE]
        ELSE IF total <= p.length THEN p
        ELSE IF p.noalloc \/ total > IntMax THEN [p EXCEPT !.ok = FALSE]
        ELSE [p EXCEPT !.length = IF total > IntMax \div 2 THEN IntMax ELSE total * 2]

\* The bytes s are written after ensure(needed), with a NUL after them or not.
Write(p, needed, s, nul) ==
    LET q == ensure(p, needed)
    IN  IF ~q.ok THEN q
        ELSE [q EXCEPT !.out = @ \o s,
                       !.over = @ \/ Len(q.out) + Len(s) + nul > q.length]

RECURSIVE DigitsOf(_)
DigitsOf(n) == IF n < 10 THEN <<48 + n>> ELSE Append(DigitsOf(n \div 10), 48 + (n % 10))

NumberText(x) ==
    IF x[2] < 0 \/ x = MinusZero THEN <<MINUS>> \o DigitsOf(-x[2]) ELSE DigitsOf(x[2])

\* number_buffer has 26 bytes: 15 or 17 places, a sign, a point and an exponent.
print_number(p, x) == Write(p, Len(NumberText(x)) + 1, NumberText(x), 1)

HexDigit(d) == IF d < 10 THEN 48 + d ELSE 87 + d
Short(c) ==
    CASE c = QUOTE -> QUOTE [] c = BACKSLASH -> BACKSLASH [] c = 8 -> 98 [] c = 12 -> 102
      [] c = LF -> 110 [] c = 13 -> 114 [] c = TAB -> 116 [] OTHER -> 0

\* A byte of a string as print_string_ptr copies or escapes it.
Escaped(c) ==
    IF Short(c) # 0 THEN <<BACKSLASH, Short(c)>>
    ELSE IF c < 32 THEN <<BACKSLASH, u, 48, 48, HexDigit(c \div 16), HexDigit(c % 16)>>
    ELSE <<c>>

\* Mutant of print_string_ptr: the quotes are not counted.
print_string_tight(p, s) ==
    LET escaped == FlattenSeq([k \in DOMAIN s |-> Escaped(s[k])])
    IN  Write(p, Len(escaped), <<QUOTE>> \o escaped \o <<QUOTE>>, 1)

print_string_ptr(p, s) ==
    LET escaped == FlattenSeq([k \in DOMAIN s |-> Escaped(s[k])])
    IN  Write(p, Len(escaped) + 3, <<QUOTE>> \o escaped \o <<QUOTE>>, 1)

Tabs(n) == [k \in 1..n |-> TAB]
Deeper(p, d) == [p EXCEPT !.depth = @ + d]

RECURSIVE print_value(_, _), print_elements(_, _), print_members(_, _)

print_elements(p, s) ==
    LET q == print_value(p, Head(s))
        comma == IF p.format THEN <<COMMA, SPACE>> ELSE <<COMMA>>
    IN  IF s = << >> THEN p
        ELSE IF Len(s) = 1 THEN q
        ELSE print_elements(Write(q, Len(comma) + 1, comma, 1), Tail(s))

print_array(p, s) ==
    LET open == Deeper(Write(p, 1, <<LBRACKET>>, 0), 1)
    IN  Deeper(Write(print_elements(open, s), 2, <<RBRACKET>>, 1), -1)

Indent(p) == IF p.format THEN Write(p, p.depth, Tabs(p.depth), 0) ELSE p

print_members(p, s) ==
    LET colon == IF p.format THEN <<COLON, TAB>> ELSE <<COLON>>
        end == (IF Len(s) > 1 THEN <<COMMA>> ELSE << >>) \o (IF p.format THEN <<LF>> ELSE << >>)
        named == Write(print_string_ptr(Indent(p), Head(s)[1]), Len(colon), colon, 0)
        valued == print_value(named, Head(s)[2])
    IN  IF s = << >> THEN p
        ELSE print_members(Write(valued, Len(end) + 1, end, 1), Tail(s))

print_object(p, s) ==
    LET open == IF p.format THEN <<LBRACE, LF>> ELSE <<LBRACE>>
        q == print_members(Deeper(Write(p, Len(open) + 1, open, 0), 1), s)
        close == IF p.format THEN Tabs(q.depth - 1) \o <<RBRACE>> ELSE <<RBRACE>>
    IN  Deeper(Write(q, IF p.format THEN q.depth + 1 ELSE 2, close, 1), -1)

print_value(p, x) ==
    CASE ~p.ok -> p
      [] p.ok /\ x = Null -> Write(p, 5, NullText, 1)
      [] p.ok /\ x = False -> Write(p, 6, FalseText, 1)
      [] p.ok /\ x = True -> Write(p, 5, TrueText, 1)
      [] p.ok /\ x[1] = "number" -> print_number(p, x)
      [] p.ok /\ x[1] = "string" -> print_string_ptr(p, x[2])
      [] p.ok /\ x[1] = "array" -> print_array(p, x[2])
      [] p.ok /\ x[1] = "object" -> print_object(p, x[2])

\* print: cJSON_Print and cJSON_PrintUnformatted.
Printed(x, format) == print_value(Buffer(DefaultSize, FALSE, format), x)

\* cJSON_PrintBuffered, cJSON_PrintPreallocated.
Buffered(x, prebuffer, format) == print_value(Buffer(prebuffer, FALSE, format), x)
Preallocated(x, len, format) == print_value(Buffer(len, TRUE, format), x)

-----------------------------------------------------------------------------
\* Parsing.  t is the content with its NUL, p the offset + 1; a result has the
\* offset where the parser stopped, also when it failed.

Good(p, x) == [ok |-> TRUE, p |-> p, x |-> x]
Bad(p) == [ok |-> FALSE, p |-> p, x |-> NoItem]
At(t, p, c) == p <= Len(t) /\ t[p] = c
Starts(t, p, s) == p + Len(s) - 1 <= Len(t) /\ SubSeq(t, p, p + Len(s) - 1) = s

\* buffer_skip_whitespace: at the end it steps back to the NUL.
skip_whitespace(t, p) ==
    LET stops == {q \in p..Len(t) : t[q] > 32}
    IN  IF stops # {} THEN Min(stops) ELSE Len(t)

NumberBytes == Digits \cup {43, MINUS, 46, 69, 101}

RECURSIVE Decimal(_)
Decimal(s) == IF s = << >> THEN 0 ELSE 10 * Decimal(Front(s)) + Last(s) - 48

\* The bytes copied to number_c_string, and the number strtod finds at its start: as
\* many digits as there are, zeros in front included.
parse_number(t, p) ==
    LET ends == {q \in p..(p + NumberLimit) :
                    q > Len(t) \/ q = p + NumberLimit \/ t[q] \notin NumberBytes}
        copied == SubSeq(t, p, Min(ends) - 1)
        sign == IF copied # << >> /\ copied[1] \in {43, MINUS} THEN 1 ELSE 0
        digits == {k \in sign..Len(copied) : \A j \in (sign + 1)..k : copied[j] \in Digits}
        value == Decimal(SubSeq(copied, sign + 1, Max(digits)))
        number == CASE copied[1] # MINUS -> Number(value)
                    [] copied[1] = MINUS /\ value > 0 -> Number(-value)
                    [] OTHER -> MinusZero
    IN  IF Max(digits) = sign THEN Bad(p) ELSE Good(p + Max(digits), number)

HexValue(c) ==
    CASE c \in 48..57 -> c - 48 [] c \in 65..70 -> c - 55 [] c \in 97..102 -> c - 87 [] OTHER -> -1

\* parse_hex4: 0 for anything that is not four hexadecimal digits.
Hex4Value(d) ==
    IF \E k \in 1..4 : d[k] < 0 THEN 0 ELSE ((d[1] * 16 + d[2]) * 16 + d[3]) * 16 + d[4]
parse_hex4(t, p) == Hex4Value([k \in 1..4 |-> HexValue(t[p + k - 1])])

\* The bytes of a codepoint.
Utf8(c) ==
    CASE c < 128 -> <<c>>
      [] c \in 128..2047 -> <<192 + c \div 64, 128 + (c % 64)>>
      [] c \in 2048..65535 -> <<224 + c \div 4096, 128 + ((c \div 64) % 64), 128 + (c % 64)>>
      [] OTHER -> <<240 + c \div 262144, 128 + ((c \div 4096) % 64),
                    128 + ((c \div 64) % 64), 128 + (c % 64)>>

High == 55296..56319
Low == 56320..57343

\* utf16_literal_to_utf8: the bytes consumed, 0 for a failure, and the bytes made.
\* one and two are the values of what may be two escape sequences.
Utf16Pair(t, p, end, one, two) ==
    LET code == 65536 + (one % 1024) * 1024 + (two % 1024)
        fail == [len |-> 0, out |-> << >>]
    IN  IF end - p < 6 \/ one \in Low THEN fail
        ELSE IF one \notin High THEN [len |-> 6, out |-> Utf8(one)]
        ELSE IF end - p < 12 \/ t[p + 6] # BACKSLASH \/ t[p + 7] # u \/ two \notin Low THEN fail
        ELSE [len |-> 12, out |-> Utf8(code)]

utf16_literal_to_utf8(t, p, end) ==
    Utf16Pair(t, p, end, parse_hex4(t, p + 2), parse_hex4(t, p + 8))

\* Mutant of Unescape: the line end and the carriage return are confused.
UnescapeSwapped(c) ==
    CASE c = 98 -> 8 [] c = 102 -> 12 [] c = 110 -> 13 [] c = 114 -> LF [] c = 116 -> TAB
      [] c \in {QUOTE, BACKSLASH, SLASH} -> c [] OTHER -> 0

\* What a backslash and c stand for; 0: nothing.
Unescape(c) ==
    CASE c = 98 -> 8 [] c = 102 -> 12 [] c = 110 -> LF [] c = 114 -> 13 [] c = 116 -> TAB
      [] c \in {QUOTE, BACKSLASH, SLASH} -> c [] OTHER -> 0

\* The closing quote, or 0; a backslash takes the byte after it along.
RECURSIVE ClosingQuote(_, _)
ClosingQuote(t, p) ==
    IF p > Len(t) THEN 0
    ELSE IF t[p] = QUOTE THEN p
    ELSE IF t[p] = BACKSLASH THEN ClosingQuote(t, p + 2)
    ELSE ClosingQuote(t, p + 1)

\* The loop through the literal.
RECURSIVE Literal(_, _, _, _)

Literal(t, p, end, out) ==
    LET l == utf16_literal_to_utf8(t, p, end)
    IN  IF p >= end THEN [ok |-> TRUE, p |-> p, out |-> out]
        ELSE IF t[p] # BACKSLASH THEN Literal(t, p + 1, end, Append(out, t[p]))
        ELSE IF t[p + 1] = u THEN
            IF l.len = 0 THEN [ok |-> FALSE, p |-> p, out |-> out]
            ELSE Literal(t, p + l.len, end, out \o l.out)
        ELSE IF Unescape(t[p + 1]) = 0 THEN [ok |-> FALSE, p |-> p, out |-> out]
        ELSE Literal(t, p + 2, end, Append(out, Unescape(t[p + 1])))

\* A string ends at its first NUL for everyone who reads it.
CString(s) ==
    IF 0 \notin ToSet(s) THEN s ELSE SubSeq(s, 1, Min({k \in DOMAIN s : s[k] = 0}) - 1)

StringOf(l) == IF ~l.ok THEN Bad(l.p) ELSE Good(l.p + 1, String(CString(l.out)))
parse_string(t, p) ==
    LET end == ClosingQuote(t, p + 1)
    IN  IF ~At(t, p, QUOTE) \/ end = 0 THEN Bad(p + 1)
        ELSE StringOf(Literal(t, p + 1, end, << >>))

RECURSIVE parse_value(_, _, _), parse_elements(_, _, _, _), parse_members(_, _, _, _)

\* From the byte before an element to the closing bracket.
parse_elements(t, p, depth, s) ==
    LET v == parse_value(t, skip_whitespace(t, p + 1), depth)
        q == skip_whitespace(t, v.p)
        all == Append(s, v.x)
    IN  IF ~v.ok THEN v
        ELSE IF At(t, q, COMMA) THEN parse_elements(t, q, depth, all)
        ELSE IF At(t, q, RBRACKET) THEN Good(q + 1, Array(all))
        ELSE Bad(q)

parse_array(t, p, depth) ==
    LET q == skip_whitespace(t, p + 1)
    IN  IF depth >= NestingLimit THEN Bad(p)
        ELSE IF At(t, q, RBRACKET) THEN Good(q + 1, Array(<< >>))
        ELSE parse_elements(t, q - 1, depth + 1, << >>)

\* The value v of a member and what follows it.
AfterValue(t, depth, s, name, v) ==
    LET q == skip_whitespace(t, v.p)
        all == Append(s, <<name, v.x>>)
    IN  IF ~v.ok THEN v
        ELSE IF At(t, q, COMMA) THEN parse_members(t, q, depth, all)
        ELSE IF At(t, q, RBRACE) THEN Good(q + 1, Object(all))
        ELSE Bad(q)

\* Mutant of AfterName: a comma is taken for the colon.
AfterNameComma(t, depth, s, k) ==
    LET c == skip_whitespace(t, k.p)
    IN  IF ~k.ok THEN k
        ELSE IF ~At(t, c, COLON) /\ ~At(t, c, COMMA) THEN Bad(c)
        ELSE AfterValue(t, depth, s, k.x[2], parse_value(t, skip_whitespace(t, c + 1), depth))

\* The name k of a member and what follows it.
AfterName(t, depth, s, k) ==
    LET c == skip_whitespace(t, k.p)
    IN  IF ~k.ok THEN k
        ELSE IF ~At(t, c, COLON) THEN Bad(c)
        ELSE AfterValue(t, depth, s, k.x[2], parse_value(t, skip_whitespace(t, c + 1), depth))

\* From the byte before a member to the closing brace.
parse_members(t, p, depth, s) ==
    AfterName(t, depth, s, parse_string(t, skip_whitespace(t, p + 1)))

parse_object(t, p, depth) ==
    LET q == skip_whitespace(t, p + 1)
    IN  IF depth >= NestingLimit THEN Bad(p)
        ELSE IF At(t, q, RBRACE) THEN Good(q + 1, Object(<< >>))
        ELSE parse_members(t, q - 1, depth + 1, << >>)

parse_value(t, p, depth) ==
    IF Starts(t, p, NullText) THEN Good(p + 4, Null)
    ELSE IF Starts(t, p, FalseText) THEN Good(p + 5, False)
    ELSE IF Starts(t, p, TrueText) THEN Good(p + 4, True)
    ELSE IF At(t, p, QUOTE) THEN parse_string(t, p)
    ELSE IF p <= Len(t) /\ (t[p] = MINUS \/ t[p] \in Digits) THEN parse_number(t, p)
    ELSE IF At(t, p, LBRACKET) THEN parse_array(t, p, depth)
    ELSE IF At(t, p, LBRACE) THEN parse_object(t, p, depth)
    ELSE Bad(p)

\* skip_utf8_bom.
skip_utf8_bom(t) == IF Len(t) > 4 /\ Starts(t, 1, <<239, 187, 191>>) THEN 4 ELSE 1

\* cJSON_ParseWithOpts without and with require_null_terminated; the position of an
\* error is kept inside the buffer.
cJSON_ParseWithOpts(s, require_null_terminated) ==
    LET t == Append(s, 0)
        v == parse_value(t, skip_whitespace(t, skip_utf8_bom(t)), 0)
        q == skip_whitespace(t, v.p)
        Error(p) == Bad(IF p <= Len(t) THEN p ELSE Len(t))
    IN  IF ~v.ok THEN Error(v.p)
        ELSE IF ~require_null_terminated THEN v
        ELSE IF t[q] # 0 THEN Error(q)
        ELSE Good(q, v.x)

-----------------------------------------------------------------------------
\* cJSON_Minify.  The texts it is given close their strings and comments.

EndOfLine(t, p) == Min({q \in p..Len(t) : t[q] = LF \/ t[q] = 0})
EndOfComment(t, p) == Min({q \in p..Len(t) : t[q] = STAR /\ At(t, q + 1, SLASH)})

RECURSIVE Minified(_, _)
Minified(t, p) ==
    LET end == ClosingQuote(t, p + 1)
    IN  IF t[p] = 0 THEN << >>
        ELSE IF t[p] \in {SPACE, TAB, 13, LF} THEN Minified(t, p + 1)
        ELSE IF Starts(t, p, <<SLASH, SLASH>>) THEN Minified(t, EndOfLine(t, p))
        ELSE IF Starts(t, p, <<SLASH, STAR>>) THEN Minified(t, EndOfComment(t, p) + 2)
        ELSE IF t[p] = QUOTE THEN SubSeq(t, p, end) \o Minified(t, end + 1)
        ELSE <<t[p]>> \o Minified(t, p + 1)

cJSON_Minify(s) == Minified(Append(s, 0), 1)

-----------------------------------------------------------------------------

\* Comments a program may have around a text; the second is closed by a line end.
Comments == {<< >>, <<SLASH, STAR, QUOTE, STAR, SLASH, SPACE>>, <<SLASH, SLASH, QUOTE, LF, TAB>>}
Codepoints == {127, 128, 2047, 2048, 65535, 65536, 1114111}
Hex4(n) == <<HexDigit(n \div 4096), HexDigit((n \div 256) % 16), HexDigit((n \div 16) % 16), HexDigit(n % 16)>>
Utf16(c) ==
    IF c < 65536 THEN <<BACKSLASH, u>> \o Hex4(c)
    ELSE <<BACKSLASH, u>> \o Hex4(55296 + (c - 65536) \div 1024)
         \o <<BACKSLASH, u>> \o Hex4(56320 + ((c - 65536) % 1024))

NoPrint == [how |-> "none", format |-> FALSE, ok |-> TRUE, over |-> FALSE, size |-> 0]
NoParse == [ok |-> TRUE, p |-> 0]

TextInit ==
    /\ pc = "item"
    /\ item \in Items
    /\ first = item
    /\ text = << >>
    /\ clean = TRUE
    /\ print = NoPrint
    /\ parse = NoParse

\* A print that fails leaves no text.
Prints(how, p, size, format) ==
    /\ pc = "item"
    /\ text' = IF p.ok THEN p.out ELSE << >>
    /\ print' = [how |-> how, format |-> format, ok |-> p.ok, over |-> p.over, size |-> size]
    /\ pc' = IF p.ok THEN "text" ELSE "end"
    /\ UNCHANGED <<item, first, clean, parse>>

cJSON_Print == \E format \in BOOLEAN :
    Prints("print", Printed(item, format), DefaultSize, format)
PrintBuffered == \E format \in BOOLEAN, n \in BufferSizes :
    Prints("buffered", Buffered(item, n, format), n, format)
PrintPreallocated == \E format \in BOOLEAN, n \in BufferSizes :
    Prints("preallocated", Preallocated(item, n, format), n, format)

\* A text of another program: one character as an escape sequence.
WriteLiteral == \E c \in Codepoints :
    /\ pc = "item" /\ item = Null
    /\ text' = <<QUOTE>> \o Utf16(c) \o <<QUOTE>>
    /\ first' = <<"character", c>>
    /\ pc' = "text"
    /\ UNCHANGED <<item, clean, print, parse>>

\* One byte of the text is changed, added or lost.
Change ==
    /\ pc = "text" /\ clean /\ print.how = "print" /\ ~print.format
    /\ \E k \in DOMAIN text, c \in Noise :
          \/ text' = [text EXCEPT ![k] = c]
          \/ text' = InsertAt(text, k, c)
          \/ text' = RemoveAt(text, k)
    /\ clean' = FALSE
    /\ UNCHANGED <<pc, item, first, print, parse>>

Minify ==
    /\ pc = "text" /\ clean
    /\ \E c \in Comments : text' = cJSON_Minify(c \o text \o c)
    /\ UNCHANGED <<pc, item, first, clean, print, parse>>

Parse == \E require_null_terminated \in BOOLEAN :
    LET v == cJSON_ParseWithOpts(text, require_null_terminated)
    IN  /\ pc = "text"
        /\ item' = v.x
        /\ parse' = [ok |-> v.ok, p |-> v.p]
        /\ pc' = "end"
        /\ UNCHANGED <<first, text, clean, print>>

Done == pc = "end" /\ UNCHANGED textVars

TextNext == cJSON_Print \/ PrintBuffered \/ PrintPreallocated \/ WriteLiteral \/ Change \/ Minify \/ Parse \/ Done

TextSpec == TextInit /\ [][TextNext]_textVars

-----------------------------------------------------------------------------

RECURSIVE Depth(_)
Depth(x) ==
    CASE x[1] = "array" -> 1 + Max({0} \cup {Depth(x[2][k]) : k \in DOMAIN x[2]})
      [] x[1] = "object" -> 1 + Max({0} \cup {Depth(x[2][k][2]) : k \in DOMAIN x[2]})
      [] OTHER -> 0

Parsed == pc = "end" /\ print.ok

\* What was printed, in any of the ways and minified or not, is parsed to the same
\* item, unless it is nested deeper than CJSON_NESTING_LIMIT.
RoundTrip ==
    Parsed /\ clean /\ first[1] # "character" =>
        /\ parse.ok <=> Depth(first) <= NestingLimit
        /\ parse.ok => item = first

\* No print writes beyond its buffer: ensure is asked for enough at every write.
NoOverrun == ~print.over

Unbounded == 1000
Need == Len(print_value(Buffer(Unbounded, TRUE, print.format), first).out) + 1

\* cJSON_PrintPreallocated fails only for a buffer with less than 5 bytes to spare
\* (cJSON.h: "to be safe allocate 5 bytes more than you actually need"), and the
\* prints that allocate fail only for a text near INT_MAX.
SlackSuffices ==
    ~print.ok => IF print.how = "preallocated" THEN print.size < Need + 5
                 ELSE Need + 5 > IntMax

\* The buffer of a print (ensure) is always large enough, and never asked to be
\* much larger than it need be.
PrintInv == NoOverrun /\ SlackSuffices

Consumed == SubSeq(text, 1, parse.p - 1)

\* Position k of s is between quotes; s has no backslash.
Quoted(s, k) == Cardinality({j \in 1..(k - 1) : s[j] = QUOTE}) % 2 = 1 /\ s[k] # QUOTE

\* Position k is a zero in front of a number's other digits.
LeadingZero(s, k) ==
    /\ s[k] = 48 /\ k < Len(s) /\ s[k + 1] \in Digits
    /\ \E i \in 1..k : /\ i = 1 \/ s[i - 1] \notin Digits
                       /\ \A j \in i..k : s[j] = 48

\* The text s as the printer writes it: without the bytes up to 32 between its tokens
\* and without leading zeros, its quotes as they are and its other bytes escaped.
Plainly(s) ==
    FlattenSeq([k \in DOMAIN s |->
        IF Quoted(s, k) THEN Escaped(s[k])
        ELSE IF s[k] <= SPACE \/ LeadingZero(s, k) THEN << >>
        ELSE <<s[k]>>])

\* A text that is accepted after a change is the text of the item it gives, but for
\* what the parser is lenient about: any byte up to 32 between two tokens, zeros in
\* front of a number, and control bytes in a string that are not escaped
\* (buffer_skip_whitespace, parse_number, parse_string).
ParsedAsWritten ==
    Parsed /\ parse.ok /\ ~clean /\ (\A k \in DOMAIN Consumed : Consumed[k] # BACKSLASH) =>
        Preallocated(item, Unbounded, FALSE).out = Plainly(Consumed)

\* The codepoint of a UTF-8 sequence.
Codepoint(s) ==
    CASE Len(s) = 1 -> s[1]
      [] Len(s) = 2 -> (s[1] % 32) * 64 + (s[2] % 64)
      [] Len(s) = 3 -> ((s[1] % 16) * 64 + (s[2] % 64)) * 64 + (s[3] % 64)
      [] Len(s) = 4 -> (((s[1] % 8) * 64 + (s[2] % 64)) * 64 + (s[3] % 64)) * 64 + (s[4] % 64)
      [] OTHER -> -1

\* A UTF-16 literal, one or a pair, is parsed to the UTF-8 bytes of its character.
LiteralDecoded ==
    pc = "end" /\ clean /\ first[1] = "character" => parse.ok /\ Codepoint(item[2]) = first[2]

\* The bytes parse_string makes of a literal fit what it allocates for them: one for
\* each byte, less one for each escape sequence.
LiteralFits ==
    \A p \in DOMAIN text : text[p] = QUOTE =>
        LET end == ClosingQuote(text, p + 1)
            escapes == Cardinality({k \in (p + 1)..(end - 1) : text[k] = BACKSLASH})
        IN  end # 0 => Len(Literal(text, p + 1, end, << >>).out) <= end - p - escapes

\* The parser (cJSON_ParseWithOpts) accepts a text for the item it says, with exactly
\* the three leniencies of ParsedAsWritten, and a literal neither changes its
\* character nor outgrows its place.
ParseInv == ParsedAsWritten /\ LiteralDecoded /\ LiteralFits
=============================================================================
