------------------------------- MODULE Vertex -------------------------------
(***************************************************************************)
(* The legacy service, sourcecode/vertex-rng-1.0.1/main.cpp: a GET or POST *)
(* of /random?min=..&max=..&rep=..&num=.. is answered with num numbers read*)
(* from /dev/urandom.  One worker thread of the web server handles requests*)
(* one after the other; the workers share nothing but the device, so one of*)
(* them is enough.                                                         *)
(*                                                                         *)
(* uint32_t has WordSize values and float has FloatSize values per power of*)
(* two; both keep their proportions.  Likelihood is counted: the words of  *)
(* the device are equally likely.                                          *)
(***************************************************************************)
EXTENDS Integers, Sequences, FiniteSets

CONSTANTS
    WordSize,     \* 2^32
    FloatSize,    \* 2^24: the integers below it are floats
    Numerals,     \* the numbers a client writes
    MaxRequests   \* bound on the requests of a behaviour

ASSUME VertexAssumption ==
    /\ {WordSize, FloatSize} \subseteq Nat \ {0}
    /\ WordSize % 2 = 0
    /\ Numerals \subseteq Int
    /\ MaxRequests \in Nat \ {0}

VARIABLES
    proc,     \* the process: "up", or "dead" after an uncaught exception or a NULL
    pc,       \* the parameter getParam is asked for next, or a place in genRandomList
    body,     \* the Content-Length of the request: what getParam makes of it
    post,     \* connections[conn].postData is set
    par,      \* the parameters converted so far
    block,    \* randList is not NULL
    list,     \* randList
    status,   \* the HTTP status sent, 0 before
    served,   \* the number of requests handled
    held      \* how often this worker holds the connection's mutex

vars == <<proc, pc, body, post, par, block, list, status, served, held>>

Words == 0..(WordSize - 1)
Half == WordSize \div 2
Int32 == (-Half)..(Half - 1)
Params == <<"min", "max", "rep", "num">>
Bodies == {"none", "usable", "malformed", "zero", "too large"}
NoParams == [min |-> 0, max |-> 0, rep |-> 0, num |-> 0]

Unsigned(x) == x % WordSize
Signed(u) == IF u < Half THEN u ELSE u - WordSize

\* The distance of two neighbouring floats near n.
Spacing(n) ==
    CHOOSE s \in {2 ^ k : k \in 0..8} :
        /\ n < FloatSize * s
        /\ s = 1 \/ FloatSize * (s \div 2) <= n

\* std::stof: the nearest float, of two the one with the even significand.
Stof(n) ==
    LET s == Spacing(n)
        low == n - (n % s)
        even == IF (low \div s) % 2 = 0 THEN low ELSE low + s
    IN  CASE n < 0 -> n
          [] n >= 0 /\ 2 * (n % s) < s -> low
          [] n >= 0 /\ 2 * (n % s) = s -> even
          [] OTHER -> low + s

\* static_cast<uint32_t> of a float: undefined when the value is not a word.
Casts(f) == IF f \in Words THEN {f} ELSE Words

\* The words a text may become.  rep goes through std::stoi and is only compared
\* with 0.
Conversions(p, n) == IF p = "rep" THEN {IF n # 0 THEN 1 ELSE 0} ELSE Casts(Stof(n))

Rep == par.rep # 0
qttyNumber == Signed(par.num)

range == Unsigned(1 + par.max - par.min)

\* Mutant of scale: the words above the last full round are used too.
scaleAll(rng_result) == IF range < 1 THEN -2 ELSE rng_result % range

\* INVALID_PARAM is -2 and INVALID_RESULT is -1; max_result is a uint32_t, so a
\* range that divides 2^32 makes it 0.
scale(rng_result) ==
    LET max_result == Unsigned((WordSize \div range) * range)
    IN  IF range < 1 THEN -2
        ELSE IF max_result # 0 /\ max_result <= rng_result THEN -1
        ELSE rng_result % range

\* int32_t result = scale(rng_value, range) + min
Result(w) == Signed(Unsigned(scale(w) + par.min))

-----------------------------------------------------------------------------

Init ==
    /\ proc = "up"
    /\ pc = "idle"
    /\ body = "none"
    /\ post = FALSE
    /\ par = NoParams
    /\ block = FALSE
    /\ list = << >>
    /\ status = 0
    /\ served = 0
    /\ held = 0

\* CivetServer::requestHandler: a fresh CivetConnection, then handleAll.
Request ==
    /\ proc = "up"
    /\ pc = "idle"
    /\ served < MaxRequests
    /\ \E b \in Bodies : body' = b
    /\ post' = FALSE
    /\ pc' = "min"
    /\ UNCHANGED <<proc, par, block, list, status, served, held>>

Asked(p) == proc = "up" /\ pc = p
After(p) == CASE p = "min" -> "max" [] p = "max" -> "rep" [] p = "rep" -> "num" [] p = "num" -> "list"

\* getParam finds a body it has not stored yet: the body is read and kept.
Stored == post \/ body = "usable"

\* getParam cannot take the body (a malformed, zero or too large Content-Length,
\* or no memory for it) and returns with the connection's mutex still held.
BodyRefused(p) ==
    /\ Asked(p)
    /\ ~post
    /\ body # "none"
    /\ status' = 400
    /\ held' = held + 1
    /\ pc' = "sent"
    /\ UNCHANGED <<proc, body, post, par, block, list, served>>

BodyAccepted == post \/ body \in {"none", "usable"}

\* getParam finds the name neither in the form data nor in the query string.
Missing(p) ==
    /\ Asked(p)
    /\ BodyAccepted
    /\ post' = Stored
    /\ status' = 400
    /\ pc' = "sent"
    /\ UNCHANGED <<proc, body, par, block, list, served, held>>

\* std::stof or std::stoi throws: nobody catches it in the worker thread.
NotANumber(p) ==
    /\ Asked(p)
    /\ BodyAccepted
    /\ post' = Stored
    /\ proc' = "dead"
    /\ UNCHANGED <<pc, body, par, block, list, status, served, held>>

\* The text is a number n.
Convert(p) ==
    /\ Asked(p)
    /\ BodyAccepted
    /\ post' = Stored
    /\ \E n \in Numerals : \E v \in Conversions(p, n) : par' = [par EXCEPT ![p] = v]
    /\ pc' = After(p)
    /\ UNCHANGED <<proc, body, block, list, status, served, held>>

\* Mutant of TooMany: the two are compared as signed numbers.
TooManySigned == Signed(range) < qttyNumber /\ ~Rep

\* Mutant of TooMany: the check is left out.
TooManyNever == FALSE

\* (range < qttyNumber) && (!replenish_flag): an unsigned comparison.
TooMany == range < Unsigned(qttyNumber) /\ ~Rep

\* genRandomList up to its loop.  malloc fails for a negative number and may fail.
GenRandomList ==
    /\ Asked("list")
    /\ \E b \in BOOLEAN : block' = (b /\ qttyNumber >= 0)
    /\ list' = << >>
    /\ \/ /\ TooMany \/ par.max < par.min
          /\ status' = 400
          /\ pc' = "sent"
       \/ /\ ~TooMany /\ par.max >= par.min
          /\ pc' = "draw"
          /\ UNCHANGED status
    /\ UNCHANGED <<proc, body, post, par, served, held>>

More == Asked("draw") /\ Len(list) < qttyNumber

\* The loop over k.
Repeated(v) == ~Rep /\ \E k \in 1..Len(list) : list[k] = v

\* One turn of the loop with the word w; a read that fails leaves the last word
\* in rng_value, which is one of the words.  A repeated number is drawn again.
Draw(w) ==
    /\ More
    /\ block
    /\ list' = IF Repeated(Result(w)) THEN list ELSE Append(list, Result(w))
    /\ UNCHANGED <<proc, pc, body, post, par, block, status, served, held>>

\* randList is NULL: the first store to it.
DrawNoMemory ==
    /\ More
    /\ ~block
    /\ proc' = "dead"
    /\ UNCHANGED <<pc, body, post, par, block, list, status, served, held>>

Drawn == Asked("draw") /\ Len(list) >= qttyNumber

\* cJSON_CreateDoubleArray refuses a negative count and NULL, or has no memory.
NoArray ==
    /\ Drawn
    /\ status' = 500
    /\ pc' = "sent"
    /\ UNCHANGED <<proc, body, post, par, block, list, served, held>>

\* SendJSON: an int32_t has at most 10 digits and is printed with 15 places.
SendJSON ==
    /\ Drawn
    /\ qttyNumber >= 0 /\ block
    /\ status' = 200
    /\ pc' = "sent"
    /\ UNCHANGED <<proc, body, post, par, block, list, served, held>>

\* cJSON_PrintUnformatted has no memory: strlen(NULL).
NoText ==
    /\ Drawn
    /\ qttyNumber >= 0 /\ block
    /\ proc' = "dead"
    /\ UNCHANGED <<pc, body, post, par, block, list, status, served, held>>

\* The handler has returned: keep-alive is off, and closeHandler erases the
\* connection's entry, with its postData.
Close ==
    /\ Asked("sent")
    /\ pc' = "idle"
    /\ body' = "none"
    /\ post' = FALSE
    /\ par' = NoParams
    /\ block' = FALSE
    /\ list' = << >>
    /\ status' = 0
    /\ served' = served + 1
    /\ UNCHANGED <<proc, held>>

\* The service is stopped from outside, or has no more requests to serve here.
Done ==
    /\ proc = "dead" \/ (pc = "idle" /\ served = MaxRequests)
    /\ UNCHANGED vars

GetParam == \E k \in DOMAIN Params :
    \/ BodyRefused(Params[k]) \/ Missing(Params[k])
    \/ NotANumber(Params[k]) \/ Convert(Params[k])

DrawAny == \E w \in Words : Draw(w)

Next ==
    \/ Request \/ GetParam \/ GenRandomList \/ DrawAny \/ DrawNoMemory
    \/ NoArray \/ SendJSON \/ NoText \/ Close \/ Done

Spec == Init /\ [][Next]_vars

\* A word that gives a number the list does not have yet.
DrawNew == \E w \in Words : ~Repeated(Result(w)) /\ Draw(w)

\* A worker that has a request goes on with it, and as long as some word would give
\* a new number one is drawn at last: with probability 1 for a random device.
Fairness ==
    /\ WF_vars(GetParam \/ GenRandomList \/ DrawAny \/ DrawNoMemory \/ NoArray
               \/ SendJSON \/ NoText \/ Close)
    /\ WF_vars(DrawNew)

FairSpec == Spec /\ Fairness

-----------------------------------------------------------------------------

\* The type invariant: a word is unsigned before it is scaled and an answer's number
\* an int32_t (genRandomList).
TypeOK ==
    /\ proc \in {"up", "dead"}
    /\ pc \in {"idle", "min", "max", "rep", "num", "list", "draw", "sent"}
    /\ body \in Bodies
    /\ post \in BOOLEAN
    /\ par \in [{"min", "max", "rep", "num"} -> Words]
    /\ block \in BOOLEAN
    /\ list \in Seq(Int32)
    /\ status \in {0, 200, 400, 500}
    /\ served \in 0..MaxRequests
    /\ held \in 0..MaxRequests

Answer == pc = "sent" /\ status = 200
Wanted == {Signed(u) : u \in par.min..par.max}

\* Without repetition the numbers of an answer are different from each other
\* (genRandomList's inner loop), and there are as many as asked for.
AnswerDistinct ==
    Answer => /\ Len(list) = qttyNumber
              /\ ~Rep => Cardinality({list[k] : k \in DOMAIN list}) = qttyNumber

\* What an answer may hold besides the numbers from min to max, as int32_t: only
\* min-1, which stands for a rejected word and so only when the range does not
\* divide 2^32, or min-2 when the range is all of uint32_t.
OutsideExact ==
    Answer => \A k \in DOMAIN list :
        \/ list[k] \in Wanted
        \/ list[k] = Signed(Unsigned(par.min - 1)) /\ range # 0 /\ WordSize % range # 0
        \/ list[k] = Signed(Unsigned(par.min - 2)) /\ range = 0

\* The numbers from min to max are equally likely at every draw, and the words
\* left over are the ones that are rejected.
WantedEquallyLikely ==
    LET Count(v) == Cardinality({w \in Words : Result(w) = v})
    IN  pc = "draw" /\ range # 0 =>
            \A v \in Wanted : Count(v) = WordSize \div range

\* The invariant of a draw and its answer (scale, genRandomList): types, numbers
\* that differ where they must, nothing outside the range but what a rejected
\* word leaves, and no number of the range likelier than another.
VertexInv == TypeOK /\ AnswerDistinct /\ OutsideExact /\ WantedEquallyLikely

CannotBeMet ==
    \/ par.max < par.min
    \/ ~Rep /\ par.num > par.max - par.min + 1
    \/ ~Rep /\ par.num > 0 /\ par.max - par.min + 1 = WordSize

\* A request that came with its four numbers is refused exactly when it cannot be
\* met (max below min, or more different numbers than there are between them) and,
\* needlessly, when different numbers of the whole of uint32_t are asked for.
RefusalExact == [][pc = "list" => (status' = 400 <=> CannotBeMet)]_vars

\* Every request is answered, however often numbers must be drawn again, unless
\* the process ends.
Answered == pc # "idle" ~> (pc = "idle" \/ proc = "dead")

\* README.md of the service: min is the minimum and max the maximum value.
AnswerInRange == Answer => \A k \in DOMAIN list : list[k] \in Wanted
=============================================================================
